---------------------------- MODULE UvThreadPool ----------------------------
(***************************************************************************)
(* libuv's thread pool (src/threadpool.c) with the async handle through    *)
(* which its workers wake the event loop (src/unix/async.c): uv_queue_work,*)
(* uv_cancel, the workers, uv__work_done and the destructor that joins     *)
(* them.  shark runs every file system call and uv.queue_work through it.  *)
(*                                                                         *)
(* A section under one mutex is one step.  A mutex is state only where it  *)
(* is held over several steps: `mutex` by uv_cancel while it waits for the *)
(* loop's wq_mutex, and wq_mutex over uv_async_send.                       *)
(***************************************************************************)
EXTENDS Naturals, Sequences, FiniteSets

CONSTANTS
  Workers,  \* threads of the pool
  Reqs,     \* work requests
  Exit,     \* exit_message
  Recancel  \* may a request be cancelled that was cancelled before?

ASSUME PoolAssumption ==
  /\ Workers # {} /\ Recancel \in BOOLEAN
  /\ Exit \notin Reqs

None == "none"
Loop == "loop"

ASSUME NameAssumption == {None, Loop} \cap (Workers \cup Reqs) = {}

VARIABLES
  wq,       \* requests no worker has taken yet
  mutex,    \* does uv_cancel hold the mutex of wq?
  pc,       \* where a worker is
  cur,      \* w of a worker
  work,     \* w->work of a request
  linked,   \* requests with !QUEUE_EMPTY(&w->wq), also by stale pointers
  loop_wq,  \* loop->wq: requests to report
  wq_mutex, \* owner of loop->wq_mutex over uv_async_send
  pending,  \* wq_async.pending
  eventfd,  \* is the eventfd of the loop readable?
  lpc,      \* where the loop's thread is
  target,   \* the request uv_cancel works on
  in_done,  \* does uv__work_done run?
  wd,       \* its local wq
  active,   \* loop->active_reqs
  ran,      \* history: requests whose work_cb was called
  done      \* history: statuses after_work_cb of a request got

vars == <<wq, mutex, pc, cur, work, linked, loop_wq, wq_mutex, pending,
          eventfd, lpc, target, in_done, wd, active, ran, done>>

Init ==
  /\ wq = << >> /\ mutex = FALSE
  /\ pc = [w \in Workers |-> "none"] /\ cur = [w \in Workers |-> None]
  /\ work = [r \in Reqs |-> "unset"] /\ linked = {}
  /\ loop_wq = << >> /\ wq_mutex = None
  /\ pending = 0 /\ eventfd = FALSE
  /\ lpc = "run" /\ target = None /\ in_done = FALSE /\ wd = << >>
  /\ active = {}
  /\ ran = {} /\ done = [r \in Reqs |-> << >>]

Elems(s) == {s[i] : i \in DOMAIN s}

\* QUEUE_REMOVE of an element that may be linked into queue s.
Without(s, r) ==
  IF r \notin Elems(s) THEN s
  ELSE LET i == CHOOSE i \in DOMAIN s : s[i] = r
       IN  [j \in 1 .. Len(s) - 1 |-> IF j < i THEN s[j] ELSE s[j + 1]]

-----------------------------------------------------------------------------
(* The condition variable and the wakeup of the loop.                      *)

\* uv_cond_signal, on workers in state p: wakes a worker that waits.
Signalled(p, q) ==
  IF \E w \in Workers : p[w] = "wait"
  THEN \E w \in Workers : p[w] = "wait" /\ q = [p EXCEPT ![w] = "take"]
  ELSE q = p

\* Mutant: nobody is told of the exit message.
NotSignalled(p, q) == q = p

\* The signal of a worker that leaves: exit_message stays in the queue.
PassOn(p, q) == Signalled(p, q)

\* Mutant: the eventfd is written only by the one who finds pending set.
SendIfPending(claimed, quiet) ==
  IF pending # 0 THEN pending' = 0 /\ claimed ELSE quiet /\ UNCHANGED pending

\* uv_async_send up to the write: `claimed` when the caller has to write,
\* `quiet` when somebody else did.
uv_async_send(claimed, quiet) ==
  IF pending # 0 THEN quiet /\ UNCHANGED pending ELSE pending' = 1 /\ claimed

-----------------------------------------------------------------------------
(* worker, one action per section.                                         *)

\* QUEUE_INIT of the request a worker takes.
Unlink(r) == linked \ {r}

ExitFirst == Head(wq) = Exit

Take(w) ==
  /\ pc[w] = "take" /\ ~mutex
  /\ \/ /\ wq = << >>
        /\ pc' = [pc EXCEPT ![w] = "wait"]
        /\ UNCHANGED <<wq, cur, linked>>
     \/ /\ wq # << >> /\ ExitFirst
        /\ PassOn([pc EXCEPT ![w] = "gone"], pc')
        /\ UNCHANGED <<wq, cur, linked>>
     \/ /\ wq # << >> /\ ~ExitFirst
        /\ wq' = Tail(wq)
        /\ cur' = [cur EXCEPT ![w] = Head(wq)]
        /\ linked' = Unlink(Head(wq))
        /\ pc' = [pc EXCEPT ![w] = "work"]
  /\ UNCHANGED <<mutex, work, loop_wq, wq_mutex, pending, eventfd, lpc, target,
                 in_done, wd, active, ran, done>>

\* uv_cond_wait returns without a signal.
Spurious(w) ==
  /\ pc[w] = "wait"
  /\ pc' = [pc EXCEPT ![w] = "take"]
  /\ UNCHANGED <<wq, mutex, cur, work, linked, loop_wq, wq_mutex, pending,
                 eventfd, lpc, target, in_done, wd, active, ran, done>>

\* w->work(w): uv__queue_work.
Work(w) ==
  /\ pc[w] = "work"
  /\ ran' = ran \cup {cur[w]}
  /\ pc' = [pc EXCEPT ![w] = "post"]
  /\ UNCHANGED <<wq, mutex, cur, work, linked, loop_wq, wq_mutex, pending,
                 eventfd, lpc, target, in_done, wd, active, done>>

\* Mutant: work is left in place when it is done.
KeepWork(r) == work

\* What a worker leaves in w->work.
Worked(r) == [work EXCEPT ![r] = "null"]

Post(w) ==
  /\ pc[w] = "post" /\ wq_mutex = None
  /\ wq_mutex' = w
  /\ work' = Worked(cur[w])
  /\ loop_wq' = Append(loop_wq, cur[w])
  /\ linked' = linked \cup {cur[w]}
  /\ cur' = [cur EXCEPT ![w] = None]
  /\ pc' = [pc EXCEPT ![w] = "send"]
  /\ UNCHANGED <<wq, mutex, pending, eventfd, lpc, target, in_done, wd, active,
                 ran, done>>

Send(w) ==
  /\ pc[w] = "send"
  /\ uv_async_send(pc' = [pc EXCEPT ![w] = "write"] /\ UNCHANGED wq_mutex,
                   pc' = [pc EXCEPT ![w] = "take"] /\ wq_mutex' = None)
  /\ UNCHANGED <<wq, mutex, cur, work, linked, loop_wq, eventfd, lpc, target,
                 in_done, wd, active, ran, done>>

\* uv__async_send and the unlock.
Write(w) ==
  /\ pc[w] = "write"
  /\ eventfd' = TRUE
  /\ wq_mutex' = None
  /\ pc' = [pc EXCEPT ![w] = "take"]
  /\ UNCHANGED <<wq, mutex, cur, work, linked, loop_wq, pending, lpc, target,
                 in_done, wd, active, ran, done>>

-----------------------------------------------------------------------------
(* The thread of the loop: the script's calls, possible whenever it runs a *)
(* callback, also one that uv__work_done calls.                            *)

\* init_once and post: the first request starts the workers.
PostReq(q) ==
  /\ wq' = Append(wq, q)
  /\ IF \A w \in Workers : pc[w] = "none"
     THEN pc' = [w \in Workers |-> "take"]
     ELSE Signalled(pc, pc')

uv_queue_work(r) ==
  /\ lpc = "run" /\ work[r] = "unset"
  /\ active' = active \cup {r}
  /\ work' = [work EXCEPT ![r] = "work"]
  /\ linked' = linked \cup {r}
  /\ PostReq(r)
  /\ UNCHANGED <<mutex, cur, loop_wq, wq_mutex, pending, eventfd, lpc, target,
                 in_done, wd, ran, done>>

\* uv_cancel up to the second lock of uv__work_cancel.
uv_cancel(r) ==
  /\ lpc = "run" /\ work[r] # "unset"
  /\ work[r] = "cancelled" => Recancel
  /\ mutex' = TRUE /\ target' = r /\ lpc' = "cancel"
  /\ UNCHANGED <<wq, pc, cur, work, linked, loop_wq, wq_mutex, pending,
                 eventfd, in_done, wd, active, ran, done>>

Cancellable(r) == r \in linked /\ work[r] # "null"

uv__work_cancel ==
  /\ lpc = "cancel" /\ wq_mutex = None
  /\ mutex' = FALSE
  /\ IF Cancellable(target)
     THEN /\ wq' = Without(wq, target)
          /\ loop_wq' = Without(loop_wq, target)
          /\ wd' = Without(wd, target)
          /\ work' = [work EXCEPT ![target] = "cancelled"]
          /\ lpc' = "repost"
          /\ UNCHANGED target
     ELSE /\ lpc' = "run"
          /\ target' = None
          /\ UNCHANGED <<wq, loop_wq, wd, work>>
  /\ UNCHANGED <<pc, cur, linked, wq_mutex, pending, eventfd, in_done, active,
                 ran, done>>

\* A cancelled request is reported like one that was done.
Repost ==
  /\ lpc = "repost" /\ wq_mutex = None
  /\ wq_mutex' = Loop
  /\ loop_wq' = Append(loop_wq, target)
  /\ target' = None
  /\ lpc' = "send"
  /\ UNCHANGED <<wq, mutex, pc, cur, work, linked, pending, eventfd, in_done,
                 wd, active, ran, done>>

LoopSend ==
  /\ lpc = "send"
  /\ uv_async_send(lpc' = "write" /\ UNCHANGED wq_mutex,
                   lpc' = "run" /\ wq_mutex' = None)
  /\ UNCHANGED <<wq, mutex, pc, cur, work, linked, loop_wq, eventfd, target,
                 in_done, wd, active, ran, done>>

LoopWrite ==
  /\ lpc = "write"
  /\ eventfd' = TRUE
  /\ wq_mutex' = None
  /\ lpc' = "run"
  /\ UNCHANGED <<wq, mutex, pc, cur, work, linked, loop_wq, pending, target,
                 in_done, wd, active, ran, done>>

-----------------------------------------------------------------------------
(* The loop: poll, uv__async_io, uv__async_event and uv__work_done.        *)

Poll ==
  /\ lpc = "run" /\ ~in_done /\ active # {}
  /\ lpc' = "poll"
  /\ UNCHANGED <<wq, mutex, pc, cur, work, linked, loop_wq, wq_mutex, pending,
                 eventfd, target, in_done, wd, active, ran, done>>

\* Another watcher or timer of the loop calls the script.
Callback ==
  /\ lpc = "poll"
  /\ lpc' = "run"
  /\ UNCHANGED <<wq, mutex, pc, cur, work, linked, loop_wq, wq_mutex, pending,
                 eventfd, target, in_done, wd, active, ran, done>>

\* Another async handle of the loop is sent: they share the eventfd.
OtherSend ==
  /\ ~eventfd /\ lpc # "exited"
  /\ eventfd' = TRUE
  /\ UNCHANGED <<wq, mutex, pc, cur, work, linked, loop_wq, wq_mutex, pending,
                 lpc, target, in_done, wd, active, ran, done>>

uv__async_io ==
  /\ lpc = "poll" /\ eventfd
  /\ eventfd' = FALSE
  /\ lpc' = "event"
  /\ UNCHANGED <<wq, mutex, pc, cur, work, linked, loop_wq, wq_mutex, pending,
                 target, in_done, wd, active, ran, done>>

uv__async_event ==
  /\ lpc = "event"
  /\ pending' = 0
  /\ lpc' = IF pending = 0 THEN "run" ELSE "split"
  /\ UNCHANGED <<wq, mutex, pc, cur, work, linked, loop_wq, wq_mutex, eventfd,
                 target, in_done, wd, active, ran, done>>

\* uv__work_done up to its loop.
Split ==
  /\ lpc = "split" /\ wq_mutex = None
  /\ in_done' = TRUE /\ wd' = loop_wq
  /\ loop_wq' = << >>
  /\ lpc' = "run"
  /\ UNCHANGED <<wq, mutex, pc, cur, work, linked, wq_mutex, pending, eventfd,
                 target, active, ran, done>>

Status(r) == IF work[r] = "cancelled" THEN "ECANCELED" ELSE "ok"

\* The loop of uv__work_done: uv__queue_done of the next request.
NextDone ==
  /\ lpc = "run" /\ wd # << >>
  /\ wd' = Tail(wd)
  /\ active' = active \ {Head(wd)}
  /\ done' = [done EXCEPT ![Head(wd)] = Append(@, Status(Head(wd)))]
  /\ UNCHANGED <<wq, mutex, pc, cur, work, linked, loop_wq, wq_mutex, pending,
                 eventfd, lpc, target, in_done, ran>>

EndDone ==
  /\ lpc = "run" /\ in_done /\ wd = << >>
  /\ in_done' = FALSE
  /\ UNCHANGED <<wq, mutex, pc, cur, work, linked, loop_wq, wq_mutex, pending,
                 eventfd, lpc, target, wd, active, ran, done>>

-----------------------------------------------------------------------------
(* The end of the process, by exit() in a callback or after uv_run.        *)

\* Mutant: the exit message overtakes the queue.
Overtake == wq' = <<Exit>> \o wq /\ Signalled(pc, pc')

PostExit == PostReq(Exit)

cleanup ==
  /\ lpc = "run"
  /\ IF \A w \in Workers : pc[w] = "none"
     THEN lpc' = "exited" /\ UNCHANGED <<wq, pc>>
     ELSE lpc' = "join" /\ PostExit
  /\ UNCHANGED <<mutex, cur, work, linked, loop_wq, wq_mutex, pending, eventfd,
                 target, in_done, wd, active, ran, done>>

\* uv_thread_join of every worker.
Join ==
  /\ lpc = "join" /\ \A w \in Workers : pc[w] = "gone"
  /\ lpc' = "exited"
  /\ UNCHANGED <<wq, mutex, pc, cur, work, linked, loop_wq, wq_mutex, pending,
                 eventfd, target, in_done, wd, active, ran, done>>

\* The process is gone.
Ended == lpc = "exited" /\ UNCHANGED vars

-----------------------------------------------------------------------------

WorkerStep(w) == Take(w) \/ Work(w) \/ Post(w) \/ Send(w) \/ Write(w)

CallStep == uv__work_cancel \/ Repost \/ LoopSend \/ LoopWrite
LoopStep ==
  uv__async_io \/ uv__async_event \/ Split \/ NextDone \/ EndDone \/ Join

Next ==
  \/ \E w \in Workers : WorkerStep(w) \/ Spurious(w)
  \/ \E r \in Reqs : uv_queue_work(r) \/ uv_cancel(r)
  \/ CallStep
  \/ Poll \/ Callback \/ OtherSend \/ uv__async_io \/ uv__async_event
  \/ Split \/ NextDone \/ EndDone
  \/ cleanup \/ Join \/ Ended

Spec == Init /\ [][Next]_vars

\* Threads are scheduled and get the mutexes they wait for, callbacks return,
\* and epoll reports a readable eventfd even if other watchers never rest.
Fairness ==
  /\ \A w \in Workers : SF_vars(WorkerStep(w))
  /\ SF_vars(CallStep) /\ SF_vars(Poll) /\ SF_vars(LoopStep)

LiveSpec == Spec /\ Fairness

-----------------------------------------------------------------------------
(* Properties.                                                             *)

WorkerPc == {"none", "take", "wait", "work", "post", "send", "write", "gone"}

\* Every variable has the type of the code's field.
TypeOK ==
  /\ wq \in Seq(Reqs \cup {Exit}) /\ loop_wq \in Seq(Reqs)
  /\ wd \in Seq(Reqs) /\ in_done \in BOOLEAN
  /\ mutex \in BOOLEAN /\ eventfd \in BOOLEAN /\ pending \in {0, 1}
  /\ pc \in [Workers -> WorkerPc]
  /\ cur \in [Workers -> Reqs \cup {None}]
  /\ work \in [Reqs -> {"unset", "work", "null", "cancelled"}]
  /\ linked \in SUBSET Reqs /\ active \in SUBSET Reqs /\ ran \in SUBSET Reqs
  /\ wq_mutex \in Workers \cup {Loop, None}
  /\ lpc \in {"run", "cancel", "repost", "send", "write", "poll", "event",
              "split", "join", "exited"}
  /\ target \in Reqs \cup {None}
  /\ done \in [Reqs -> Seq({"ok", "ECANCELED"})]

At(s, r) == {i \in DOMAIN s : s[i] = r}

\* Where a request is held: a queue, a worker, or uv_cancel's hands.
Places(r) ==
  ({"wq"} \X At(wq, r)) \cup ({"loop"} \X At(loop_wq, r))
  \cup ({"done"} \X At(wd, r))
  \cup ({"worker"} \X {w \in Workers : cur[w] = r})
  \cup ({"cancel"} \X (IF lpc = "repost" /\ target = r THEN {r} ELSE {}))

\* A request that was queued and not yet reported is in exactly one place, and
\* no other request is anywhere: QUEUE links, workers and uv_cancel never lose
\* a request, run it twice or report it twice (threadpool.c, all of it).
Accounted ==
  \A r \in Reqs : IF r \in active THEN \E p \in Places(r) : Places(r) = {p}
                  ELSE Places(r) = {}

\* after_work_cb is called at most once for a request, with UV_ECANCELED just
\* when the work was never run and never will be (uv__work_done, uv_cancel).
ReportedTruly ==
  \A r \in Reqs :
    /\ Len(done[r]) <= 1
    /\ done[r] = <<"ECANCELED">> => r \notin ran
    /\ done[r] = <<"ok">> => r \in ran

\* A request waiting in loop->wq wakes the loop: unless a sender still holds
\* wq_mutex, uv__work_done is about to run, or pending is set and the eventfd
\* is readable or was just read (uv_async_send against uv__async_event).
NoLostWakeup ==
  loop_wq # << >> /\ wq_mutex = None =>
    \/ lpc = "split"
    \/ pending = 1 /\ (eventfd \/ lpc = "event")

\* While something is queued some worker is awake to take it, and when the
\* workers have left nothing but the exit message is queued (worker, post).
NotAllAsleep ==
  /\ wq # << >> => \/ \E w \in Workers : pc[w] \notin {"wait", "gone"}
                   \/ \A w \in Workers : pc[w] = "gone"
  /\ (\E w \in Workers : pc[w] = "gone") => wq = <<Exit>>

\* When the destructor returns, every request that was queued has been run or
\* cancelled: the exit message waits behind them (cleanup).
ExitDrains ==
  lpc = "exited" => \A r \in active : r \in ran \/ work[r] = "cancelled"

\* uv_cancel "fails if the request is executing or has finished executing"
\* (docs/src/request.rst): what it takes out of a queue was not reported yet,
\* is run by no worker and never was.
CancelStep ==
  uv__work_cancel /\ lpc' = "repost" =>
    /\ target \notin ran /\ done[target] = << >>
    /\ \A w \in Workers : cur[w] # target
CancelFails == [][CancelStep]_vars

\* Every request is reported in the end, unless the process exits before.
AllReported ==
  \A r \in Reqs : r \in active ~> r \notin active \/ lpc \in {"join", "exited"}

\* The destructor's join returns: every worker sees the exit message, though
\* each is signalled by the one before it only (worker, cleanup).
JoinReturns == lpc = "join" ~> lpc = "exited"

\* The phase of a request in the abstract specification.
Phase(r) ==
  IF done[r] # << >> THEN Head(done[r])
  ELSE IF work[r] = "unset" THEN "new"
  ELSE IF work[r] = "cancelled" THEN "cancelled"
  ELSE IF r \in ran THEN "ran"
  ELSE IF \E w \in Workers : cur[w] = r THEN "running"
  ELSE "queued"

Abstract == INSTANCE WorkRequests WITH phase <- [r \in Reqs |-> Phase(r)]

\* The pool implements the life of a work request.
Implements == Abstract!Spec

=============================================================================
