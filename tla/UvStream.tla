------------------------------ MODULE UvStream ------------------------------
(***************************************************************************)
(* A TCP stream of libuv (src/unix/stream.c, tcp.c): connect, the queue of *)
(* write requests, uv_try_write, shutdown, reading and close.  A call of   *)
(* uv__stream_io is a list of steps; the script runs between them, in the  *)
(* callbacks, and may make any call there.                                 *)
(***************************************************************************)
EXTENDS Naturals, Sequences

CONSTANTS
  Writes,    \* write requests
  Sizes,     \* how many bytes each of them may have
  ReadCount  \* how often uv__read reads at most (32)

VARIABLES
  bytes,     \* bytes of each request
  connect,   \* "none", "inprogress", "delayed" or "done" once connect_req is NULL
  flags,     \* of the handle
  pevents,   \* what the io_watcher waits for: "in", "out"
  fed,       \* is the io_watcher in loop->pending_queue?
  queue,     \* write_queue
  completed, \* write_completed_queue
  left,      \* bytes of a request that are not written
  error,     \* req->error: "ok" or "failed"
  size,      \* write_queue_size
  todo,      \* the steps of the current call from the loop
  count,     \* reads uv__read may still do
  dead,      \* does the kernel fail every write?
  state,     \* history of a request: "new", "queued" or "done"
  asked,     \* history: the bytes the script asked to write, each by its request
  wire,      \* history: the bytes written
  before,    \* history: requests made when uv_shutdown was called
  stranded   \* history: did the connect stop POLLOUT with a shutdown waiting?

vars == <<bytes, connect, flags, pevents, fed, queue, completed, left, error, size,
          todo, count, dead, state, asked, wire, before, stranded>>

\* What the script asked for, and the queues with what became of it.
calls == <<bytes, state, asked, before>>
queues == <<queue, completed, left, error, size, wire>>

Init ==
  /\ connect = "none" /\ flags = {} /\ pevents = {} /\ fed = FALSE
  /\ queue = << >> /\ completed = << >>
  /\ bytes \in Sizes /\ left = bytes /\ error = [r \in Writes |-> "ok"] /\ size = 0
  /\ todo = << >> /\ count = 0 /\ dead = FALSE
  /\ state = [r \in Writes |-> "new"]
  /\ asked = << >> /\ wire = << >> /\ before = {} /\ stranded = FALSE

Has(flag) == flag \in flags

\* uv__stream_fd(stream) >= 0.
Open == connect # "none" /\ ~Has("CLOSING")

Copies(r, n) == [i \in 1 .. n |-> r]

-----------------------------------------------------------------------------
(* Writing, as functions of a record of the variables that it changes.     *)

Now ==
  [queue |-> queue, completed |-> completed, left |-> left, error |-> error,
   size |-> size, pevents |-> pevents, fed |-> fed, flags |-> flags, wire |-> wire,
   dead |-> dead]

Becomes(v) ==
  /\ queue' = v.queue /\ completed' = v.completed /\ left' = v.left
  /\ error' = v.error /\ size' = v.size /\ pevents' = v.pevents /\ fed' = v.fed
  /\ flags' = v.flags /\ wire' = v.wire /\ dead' = v.dead

\* Mutant: the loop is not told of the completed request.
Unfed(v) ==
  [v EXCEPT !.queue = Tail(@), !.completed = Append(@, Head(v.queue))]

\* The request at the head is complete, and the loop will call back.
uv__write_req_finish(v) ==
  [v EXCEPT !.queue = Tail(@), !.completed = Append(@, Head(v.queue)), !.fed = TRUE]

\* Mutant: the rest is not waited for.
NotWatched(v) == v

WatchOut(v) == [v EXCEPT !.pevents = @ \cup {"out"}]

\* The kernel takes n bytes of the head.
Sent(v, n) ==
  LET r == Head(v.queue)
      w == [v EXCEPT !.left[r] = @ - n, !.size = @ - n, !.wire = @ \o Copies(r, n)]
  IN  IF w.left[r] = 0 THEN uv__write_req_finish(w) ELSE WatchOut(w)

\* The kernel reports an error, as it will from now on: errors that pass, such as
\* ENOBUFS, are left out.
Failed(v) ==
  [uv__write_req_finish(v) EXCEPT
     !.error[Head(v.queue)] = "failed", !.dead = TRUE, !.pevents = @ \ {"out"},
     !.flags = IF "in" \in v.pevents THEN @ ELSE @ \ {"ACTIVE"}]

\* An error, EAGAIN, or some bytes of the head are written.
uv__write(v) ==
  IF v.queue = << >> THEN {v}
  ELSE LET n == v.left[Head(v.queue)]
       IN  {Failed(v)} \cup
           IF dead \/ Has("SHUT") THEN {}
           ELSE IF n = 0 THEN {Sent(v, 0)}
           ELSE {WatchOut(v)} \cup {Sent(v, k) : k \in 1 .. n}

-----------------------------------------------------------------------------
(* The script's calls, from a callback of the stream or from another one.  *)

Script == todo # << >> => Head(todo) = "cb"

\* connect(2) is on its way, or was refused at once; any other error is returned to
\* the caller, and such a call is left out.  A script connects a stream once.
uv__tcp_connect ==
  /\ Script /\ connect = "none" /\ ~Has("CLOSING")
  /\ connect' \in {"inprogress", "delayed"}
  /\ fed' = (connect' = "delayed")
  /\ pevents' = pevents \cup {"out"}
  /\ UNCHANGED <<calls, flags, queues, todo, count, dead, stranded>>

Connecting == connect \in {"inprogress", "delayed"}

\* Mutant: the request is put in front of those that wait.
InFront(r) == <<r>> \o queue

Enqueued(r) == Append(queue, r)

\* While others wait, or the connection is not made, the request only waits too.
uv_write2(r) ==
  LET v == [Now EXCEPT !.queue = Enqueued(r), !.size = @ + bytes[r]]
  IN  IF Connecting THEN {v} ELSE IF size = 0 THEN uv__write(v) ELSE {WatchOut(v)}

uv_write(r) ==
  /\ Script /\ Open /\ state[r] = "new"
  /\ \E v \in uv_write2(r) : Becomes(v)
  /\ state' = [state EXCEPT ![r] = "queued"]
  /\ asked' = asked \o Copies(r, bytes[r])
  /\ UNCHANGED <<connect, todo, count, bytes, before, stranded>>

\* QUEUE_REMOVE of a request that can only be the last of the queue.
Without(s, r) ==
  IF s # << >> /\ s[Len(s)] = r THEN SubSeq(s, 1, Len(s) - 1) ELSE s

\* The request is on the stack of uv_try_write, and taken back at once.
TakenBack(v, r) ==
  [v EXCEPT !.queue = Without(@, r), !.completed = Without(@, r), !.size = @ - v.left[r],
            !.pevents = IF "out" \in pevents THEN @ ELSE @ \ {"out"}]

uv_try_write(r) ==
  /\ Script /\ Open /\ state[r] = "new" /\ ~Connecting /\ size = 0
  /\ \E v \in uv_write2(r) :
       /\ Becomes(TakenBack(v, r))
       /\ asked' = asked \o Copies(r, bytes[r] - v.left[r])
  /\ state' = [state EXCEPT ![r] = "tried"]
  /\ UNCHANGED <<connect, todo, count, bytes, before, stranded>>

\* UV_STREAM_WRITABLE comes with the socket of uv__tcp_connect.
uv_shutdown ==
  /\ Script /\ Open /\ ~Has("SHUT") /\ ~Has("SHUTTING")
  /\ flags' = flags \cup {"SHUTTING"} /\ pevents' = pevents \cup {"out"}
  /\ before' = {r \in Writes : state[r] = "queued"}
  /\ UNCHANGED <<connect, fed, queues, todo, count, dead, bytes, state, asked,
                 stranded>>

uv_read_start ==
  /\ Script /\ Open
  /\ flags' = flags \cup {"READING", "ACTIVE"} /\ pevents' = pevents \cup {"in"}
  /\ UNCHANGED <<calls, connect, fed, queues, todo, count, dead, stranded>>

\* uv__io_stop of POLLIN, and uv__handle_stop if POLLOUT is not waited for either,
\* with these flags.
StopIn(set) ==
  /\ pevents' = pevents \ {"in"}
  /\ flags' = IF "out" \in pevents THEN set ELSE set \ {"ACTIVE"}

uv_read_stop ==
  /\ Script /\ Open /\ Has("READING")
  /\ StopIn(flags \ {"READING"})
  /\ UNCHANGED <<calls, connect, fed, queues, todo, count, dead, stranded>>

\* uv__io_close, uv_read_stop and the close of the fd.
uv__stream_close ==
  /\ Script /\ ~Has("CLOSING")
  /\ flags' = (flags \ {"READING", "ACTIVE"}) \cup {"CLOSING"}
  /\ pevents' = {} /\ fed' = FALSE
  /\ UNCHANGED <<calls, connect, queues, todo, count, dead, stranded>>

-----------------------------------------------------------------------------
(* uv__stream_io.                                                          *)

Steps(s, cond) == IF cond THEN s ELSE << >>

\* What a call with these events does, unless a connect is to be finished.
StreamIo(events) ==
  /\ todo' = Steps(<<"read">>, events \cap {"in", "err", "hup"} # {})
             \o Steps(<<"open", "eof">>, "hup" \in events) \o <<"open">>
             \o Steps(<<"write", "callbacks", "drain">>,
                      events \cap {"out", "err", "hup"} # {})
  /\ count' = IF Head(todo') = "read" THEN ReadCount ELSE 0
  /\ flags' = IF Head(todo') = "read" THEN flags \ {"PARTIAL"} ELSE flags

\* uv__stream_connect finds the connection made, or failed.
uv__stream_connect(failed) ==
  /\ connect' = "done"
  /\ dead' = failed
  /\ LET stop == failed \/ queue = << >>
     IN  /\ pevents' = IF stop THEN pevents \ {"out"} ELSE pevents
         /\ stranded' = (stop /\ Has("SHUTTING"))
  /\ todo' = <<"cb">> \o Steps(<<"open", "flush", "callbacks">>, failed)
  /\ UNCHANGED <<flags, count>>

Called(events) ==
  \/ /\ Connecting
     /\ \E failed \in {TRUE} \cup {connect = "delayed"} : uv__stream_connect(failed)
  \/ /\ ~Connecting /\ StreamIo(events)
     /\ dead' = (dead \/ "hup" \in events)
     /\ UNCHANGED <<connect, pevents, stranded>>

\* uv__run_pending.
Pending ==
  /\ todo = << >> /\ fed /\ fed' = FALSE
  /\ Called({"out"})
  /\ UNCHANGED <<calls, queues>>

\* epoll_wait reports what is waited for, and errors in any case.
Poll(events) ==
  /\ todo = << >> /\ pevents # {} /\ events # {}
  /\ events \subseteq pevents \cup {"err", "hup"}
  /\ Called(events)
  /\ UNCHANGED <<calls, fed, queues>>

At(step) == todo # << >> /\ Head(todo) = step

\* A callback returns, after the calls the script makes in it.
CallbackReturns ==
  /\ At("cb") /\ todo' = Tail(todo)
  /\ UNCHANGED <<calls, connect, flags, pevents, fed, queues, count, dead,
                 stranded>>

\* Mutant: a stream closed by read_cb is read and written on.
GoOn == Tail(todo)

\* "read_cb closed stream".
UnlessClosed == IF Has("CLOSING") THEN << >> ELSE Tail(todo)

CheckOpen ==
  /\ At("open") /\ todo' = UnlessClosed
  /\ UNCHANGED <<calls, connect, flags, pevents, fed, queues, count, dead,
                 stranded>>

\* read_cb with UV_EOF, then these steps.
uv__stream_eof(rest) ==
  /\ StopIn(flags \cup {"EOF"})
  /\ todo' = <<"cb", "ended">> \o rest

\* The loop of uv__read fills a buffer, finds nothing, an error, a part of a buffer
\* or the end, or is left.
uv__read ==
  /\ At("read")
  /\ \/ /\ Has("READING") /\ count > 0 /\ count' = count - 1
        /\ todo' = <<"cb">> \o todo /\ UNCHANGED <<flags, pevents>>
     \/ /\ Has("READING") /\ count > 0 /\ count' = 0
        /\ \/ /\ todo' = <<"cb">> \o Tail(todo)
              /\ pevents' = pevents \cup {"in"} /\ UNCHANGED flags
           \/ /\ \E then \in {"failed", "partial"} :
                   todo' = <<"cb", then>> \o Tail(todo)
              /\ UNCHANGED <<flags, pevents>>
           \/ uv__stream_eof(Tail(todo))
     \/ /\ ~Has("READING") \/ count = 0
        /\ todo' = Tail(todo) /\ count' = 0 /\ UNCHANGED <<flags, pevents>>
  /\ UNCHANGED <<calls, connect, fed, queues, dead, stranded>>

\* What uv__read and uv__stream_eof do after read_cb.
AfterRead ==
  /\ \/ /\ At("failed")
        /\ IF Has("READING") THEN StopIn(flags \ {"READING"})
           ELSE UNCHANGED <<flags, pevents>>
     \/ At("ended") /\ flags' = flags \ {"READING"} /\ UNCHANGED pevents
     \/ At("partial") /\ flags' = flags \cup {"PARTIAL"} /\ UNCHANGED pevents
  /\ todo' = Tail(todo)
  /\ UNCHANGED <<calls, connect, fed, queues, count, dead, stranded>>

\* POLLHUP: the end is reported if uv__read got to it and did not say so.
HangUp ==
  /\ At("eof")
  /\ IF Has("READING") /\ Has("PARTIAL") /\ ~Has("EOF")
     THEN uv__stream_eof(Tail(todo))
     ELSE todo' = Tail(todo) /\ UNCHANGED <<flags, pevents>>
  /\ UNCHANGED <<calls, connect, fed, queues, count, dead, stranded>>

Write ==
  /\ At("write") /\ todo' = Tail(todo)
  /\ \E v \in uv__write(Now) : Becomes(v)
  /\ UNCHANGED <<calls, connect, count, stranded>>

\* write_queue_size once the request is called back.
GivenBack(r) == IF error[r] = "failed" THEN size - left[r] ELSE size

\* The loop of uv__write_callbacks.
uv__write_callbacks ==
  /\ At("callbacks")
  /\ \/ /\ completed = << >> /\ todo' = Tail(todo)
        /\ UNCHANGED <<completed, size, state>>
     \/ /\ completed # << >> /\ todo' = <<"cb">> \o todo
        /\ completed' = Tail(completed)
        /\ size' = GivenBack(Head(completed))
        /\ state' = [state EXCEPT ![Head(completed)] = "done"]
  /\ UNCHANGED <<connect, flags, pevents, fed, queue, left, error, wire, count,
                 dead, bytes, asked, before, stranded>>

\* Mutant: the shutdown does not wait for the queue.
AtOnce == TRUE

Drained == queue = << >>

uv__drain ==
  /\ At("drain")
  /\ \/ /\ ~Drained /\ todo' = Tail(todo) /\ UNCHANGED <<flags, pevents, stranded>>
     \/ /\ Drained /\ pevents' = pevents \ {"out"} /\ stranded' = FALSE
        /\ IF Has("SHUTTING") /\ ~Has("CLOSING") /\ ~Has("SHUT")
           THEN /\ \E shut \in {{}, {"SHUT"}} :
                     flags' = (flags \ {"SHUTTING"}) \cup shut
                /\ todo' = <<"cb">> \o Tail(todo)
           ELSE todo' = Tail(todo) /\ UNCHANGED flags
  /\ UNCHANGED <<calls, connect, fed, queues, count, dead>>

uv__stream_flush_write_queue ==
  /\ At("flush") /\ todo' = Tail(todo)
  /\ completed' = completed \o queue /\ queue' = << >>
  /\ error' = [r \in Writes |-> IF \E k \in DOMAIN queue : queue[k] = r
                                THEN "failed" ELSE error[r]]
  /\ UNCHANGED <<calls, connect, flags, pevents, fed, left, size, wire, count,
                 dead, stranded>>

-----------------------------------------------------------------------------
(* uv__run_closing_handles: uv__stream_destroy.                            *)

uv__finish_close ==
  /\ todo = << >> /\ Has("CLOSING") /\ ~Has("CLOSED")
  /\ flags' = flags \cup {"CLOSED"}
  /\ connect' = "done"
  /\ todo' = Steps(<<"cb">>, Connecting) \o <<"flush", "callbacks", "cancel">>
  /\ UNCHANGED <<calls, pevents, fed, queues, count, dead, stranded>>

\* The callback of the shutdown, if one waits, and close_cb.
CancelShutdown ==
  /\ At("cancel") /\ todo' = Steps(<<"cb">>, Has("SHUTTING")) \o Tail(todo)
  /\ UNCHANGED <<calls, connect, flags, pevents, fed, queues, count, dead,
                 stranded>>

Closed == todo = << >> /\ Has("CLOSED")

\* Other handles of the loop go on.
Ended == Closed /\ UNCHANGED vars

LoopStep ==
  \/ CallbackReturns \/ CheckOpen \/ uv__read \/ AfterRead \/ HangUp
  \/ Write \/ uv__write_callbacks \/ uv__drain \/ uv__stream_flush_write_queue
  \/ uv__finish_close \/ CancelShutdown

Next ==
  \/ uv__tcp_connect \/ \E r \in Writes : uv_write(r) \/ uv_try_write(r)
  \/ uv_shutdown \/ uv_read_start \/ uv_read_stop \/ uv__stream_close
  \/ Pending \/ \E events \in SUBSET {"in", "out", "err", "hup"} : Poll(events)
  \/ LoopStep \/ Ended

Spec == Init /\ [][Next]_vars

\* The kernel finishes the connect and takes bytes of a stream it reports as
\* writable, sooner or later.
Writable == Poll({"out"})
Progress == Write /\ (wire # wire' \/ completed # completed')

Fairness ==
  /\ WF_vars(LoopStep)
  /\ SF_vars(Pending) /\ SF_vars(Writable) /\ SF_vars(Progress)

LiveSpec == Spec /\ Fairness

-----------------------------------------------------------------------------
(* Properties.                                                             *)

\* "Buffers are written in order" (docs/src/stream.rst): the bytes on the wire are
\* those asked for with uv_write and taken by uv_try_write, in that order and none
\* left out, and a request that is reported as written is on it completely.
WireInOrder ==
  /\ Len(wire) <= Len(asked) /\ \A k \in DOMAIN wire : wire[k] = asked[k]
  /\ \A r \in Writes : state[r] = "done" /\ error[r] = "ok" => left[r] = 0

\* Between two calls from the loop, whatever waits is going to be called for: a
\* connect, a queued or completed request or a shutdown has POLLOUT or a place in
\* pending_queue, a completed request the latter, and a stream that reads keeps the
\* loop alive.  Not so a shutdown asked for during the connect, whose POLLOUT
\* uv__stream_connect stops when no write waits.
NoStall ==
  todo = << >> /\ Open =>
    /\ Connecting \/ queue # << >> \/ (Has("SHUTTING") /\ ~stranded)
         => fed \/ "out" \in pevents
    /\ completed # << >> => fed
    /\ "in" \in pevents => Has("ACTIVE")

\* uv_shutdown "waits for pending write requests to complete" (docs/src/stream.rst):
\* when shutdown(2) succeeds, the requests made before uv_shutdown are reported.
ShutdownWaits ==
  [][Has("SHUT")' /\ ~Has("SHUT") => \A r \in before : state[r] = "done"]_vars

\* A close in whichever callback: uv__write is not called without an fd (its first
\* assertion), every request is called back before close_cb is, and nothing remains
\* of write_queue_size (the last assertion of uv__stream_destroy).
CloseReports ==
  /\ At("write") => Open
  /\ Closed => size = 0 /\ \A r \in Writes : state[r] # "queued"

\* Every write is called back, also when the kernel takes it in pieces, fails it, or
\* the stream is closed.
WritesReported ==
  (\E r \in Writes : state[r] = "queued") ~> (\A r \in Writes : state[r] # "queued")

=============================================================================
