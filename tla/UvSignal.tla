------------------------------ MODULE UvSignal ------------------------------
(***************************************************************************)
(* libuv's signal watchers (src/unix/signal.c), which shark.on_end uses:   *)
(* the handler that runs on whichever thread the kernel picks, the lock it *)
(* shares with uv_signal_start, uv_signal_stop and uv_close, the pipe that *)
(* carries messages to the loop, and the close that waits for them.        *)
(***************************************************************************)
EXTENDS Naturals, Sequences, FiniteSets

CONSTANTS
  Handles, Signums,
  Invalid,     \* the signals sigaction refuses
  Threads,     \* threads the kernel may run the handler on
  Loop,        \* the one of them that runs the loop
  PipeSize,    \* messages the pipe holds
  BufSize,     \* messages uv__signal_event reads at a time
  MaxSignals,  \* bound on signals delivered
  MaxCalls     \* bound on the script's calls

None == "none"
Section == "section"

VARIABLES
  signum,     \* handle->signum, or None for 0
  tree,       \* handles in uv__signal_tree
  caught,     \* handle->caught_signals
  dispatched, \* handle->dispatched_signals
  state,      \* of a handle: "open", "closing", "pending" or "closed"
  registered, \* signals with uv__signal_handler as their action
  pipe,       \* messages in loop->signal_pipefd
  lock,       \* a handler's thread, or Section, that took the lock
  masked,     \* are signals blocked on the loop's thread?
  handler,    \* where a handler on a thread is, its signal and handles to come
  lpc,        \* where the loop's thread is within a section
  todo,       \* what remains of the script's call, and its arguments
  buf,        \* messages read and not dispatched
  in_cb,      \* does signal_cb run?
  signals,    \* signals delivered
  calls       \* calls made

vars == <<signum, tree, caught, dispatched, state, registered, pipe, lock,
          masked, handler, lpc, todo, buf, in_cb, signals, calls>>

NoHandler == [pc |-> "none", signum |-> None, rest |-> {}]
NoCall == [steps |-> << >>, handle |-> None, signum |-> None]

Init ==
  /\ signum = [h \in Handles |-> None] /\ tree = {}
  /\ caught = [h \in Handles |-> 0] /\ dispatched = [h \in Handles |-> 0]
  /\ state = [h \in Handles |-> "open"]
  /\ registered = {} /\ pipe = << >> /\ lock = None /\ masked = FALSE
  /\ handler = [t \in Threads |-> NoHandler]
  /\ lpc = "run" /\ todo = NoCall
  /\ buf = << >> /\ in_cb = FALSE
  /\ signals = 0 /\ calls = 0

Watching(s) == {h \in tree : signum[h] = s}

-----------------------------------------------------------------------------
(* uv__signal_handler.                                                     *)

\* The kernel delivers a signal to a thread that does not block it.
Deliver(t, s) ==
  /\ s \in registered /\ signals < MaxSignals
  /\ handler[t].pc = "none" /\ (t = Loop => ~masked)
  /\ handler' = [handler EXCEPT ![t] = [pc |-> "lock", signum |-> s, rest |-> {}]]
  /\ signals' = signals + 1
  /\ UNCHANGED <<signum, tree, caught, dispatched, state, registered, pipe, lock,
                 masked, lpc, todo, buf, in_cb, calls>>

HandlerLock(t) ==
  /\ handler[t].pc = "lock" /\ lock = None
  /\ lock' = t
  /\ handler' = [handler EXCEPT ![t].pc = "write",
                                ![t].rest = Watching(handler[t].signum)]
  /\ UNCHANGED <<signum, tree, caught, dispatched, state, registered, pipe,
                 masked, lpc, todo, buf, in_cb, signals, calls>>

\* Mutant: a message that found the pipe full is counted too.
CountAll(h) == caught' = [caught EXCEPT ![h] = @ + 1]

CountWritten(h) ==
  caught' = IF Len(pipe) < PipeSize THEN [caught EXCEPT ![h] = @ + 1] ELSE caught

\* write() to a pipe that may be full.
HandlerWrite(t, h) ==
  /\ handler[t].pc = "write" /\ h \in handler[t].rest
  /\ pipe' = IF Len(pipe) < PipeSize
             THEN Append(pipe, [handle |-> h, signum |-> handler[t].signum])
             ELSE pipe
  /\ CountWritten(h)
  /\ handler' = [handler EXCEPT ![t].rest = @ \ {h}]
  /\ UNCHANGED <<signum, tree, dispatched, state, registered, lock, masked, lpc,
                 todo, buf, in_cb, signals, calls>>

HandlerReturns(t) ==
  /\ handler[t].pc = "write" /\ handler[t].rest = {}
  /\ lock' = None
  /\ handler' = [handler EXCEPT ![t] = NoHandler]
  /\ UNCHANGED <<signum, tree, caught, dispatched, state, registered, pipe,
                 masked, lpc, todo, buf, in_cb, signals, calls>>

-----------------------------------------------------------------------------
(* The script's calls.  The loop's thread stands still while a handler     *)
(* interrupts it.                                                          *)

Running == handler[Loop].pc = "none"

\* The script runs, in a callback of a signal or in another one.
Script == Running /\ todo = NoCall /\ (in_cb \/ buf = << >>) /\ calls < MaxCalls

Call(h, steps, s) ==
  /\ Script /\ state[h] = "open"
  /\ todo' = [steps |-> steps, handle |-> h, signum |-> s]
  /\ calls' = calls + 1
  /\ UNCHANGED <<signum, tree, caught, dispatched, registered, pipe, lock,
                 masked, handler, lpc, buf, in_cb, signals>>

uv_signal_start(h, s) ==
  /\ signum[h] # s
  /\ Call(h, <<"stop", "start">>, s)
  /\ UNCHANGED state

uv_signal_stop(h) == Call(h, <<"stop">>, None) /\ UNCHANGED state

\* uv_close marks the handle before it calls uv__signal_close.
uv_close(h) ==
  /\ Call(h, <<"stop", "close">>, None)
  /\ state' = [state EXCEPT ![h] = "closing"]

At(step) == Running /\ todo # NoCall /\ Head(todo.steps) = step

NextStep ==
  IF Len(todo.steps) = 1 THEN NoCall ELSE [todo EXCEPT !.steps = Tail(@)]

\* uv__signal_stop of a watcher that was not started.
SkipStop ==
  /\ At("stop") /\ signum[todo.handle] = None
  /\ todo' = NextStep
  /\ UNCHANGED <<signum, tree, caught, dispatched, state, registered, pipe, lock,
                 masked, handler, lpc, buf, in_cb, signals, calls>>

\* sigfillset, before the lock is taken.
Block ==
  /\ lpc = "run"
  /\ At("start") \/ (At("stop") /\ signum[todo.handle] # None)
  /\ masked' = TRUE /\ lpc' = "lock"
  /\ UNCHANGED <<signum, tree, caught, dispatched, state, registered, pipe, lock,
                 handler, todo, buf, in_cb, signals, calls>>

uv__signal_lock ==
  /\ Running /\ lpc = "lock" /\ lock = None
  /\ lock' = Section /\ lpc' = "locked"
  /\ UNCHANGED <<signum, tree, caught, dispatched, state, registered, pipe,
                 masked, handler, todo, buf, in_cb, signals, calls>>

\* Mutant: the handler goes with the first watcher that stops.
UnregisterAlways(s, watchers) == registered \ {s}

\* The action of s when its remaining watchers are these.
Unregister(s, watchers) == IF watchers = {} THEN registered \ {s} ELSE registered

Insert ==
  LET h == todo.handle
      s == todo.signum
  IN  /\ At("start") /\ lpc = "locked" /\ s \notin Invalid
      /\ lpc' = "unlock"
      /\ registered' = registered \cup {s}
      /\ signum' = [signum EXCEPT ![h] = s]
      /\ tree' = tree \cup {h}
      /\ UNCHANGED <<caught, dispatched, state, pipe, lock, masked, handler, todo,
                     buf, in_cb, signals, calls>>

\* uv__signal_register_handler fails, and the old signal is watched no more.
RegisterFails ==
  /\ At("start") /\ lpc = "locked" /\ todo.signum \in Invalid
  /\ lpc' = "unlock"
  /\ UNCHANGED <<signum, tree, caught, dispatched, state, registered, pipe, lock,
                 masked, handler, todo, buf, in_cb, signals, calls>>

Remove ==
  LET h == todo.handle
  IN  /\ At("stop") /\ lpc = "locked" /\ lpc' = "unlock"
      /\ tree' = tree \ {h}
      /\ registered' = Unregister(signum[h], Watching(signum[h]) \ {h})
      /\ UNCHANGED <<signum, caught, dispatched, state, pipe, lock, masked, handler,
                     todo, buf, in_cb, signals, calls>>

uv__signal_unlock_and_unblock ==
  /\ Running /\ lpc = "unlock"
  /\ lock' = None /\ masked' = FALSE
  /\ lpc' = "unlocked"
  /\ UNCHANGED <<signum, tree, caught, dispatched, state, registered, pipe,
                 handler, todo, buf, in_cb, signals, calls>>

\* What follows the section in uv__signal_stop and uv_signal_start.
EndSection ==
  /\ Running /\ lpc = "unlocked" /\ lpc' = "run"
  /\ signum' = IF Head(todo.steps) = "stop"
               THEN [signum EXCEPT ![todo.handle] = None]
               ELSE signum
  /\ todo' = NextStep
  /\ UNCHANGED <<tree, caught, dispatched, state, registered, pipe, lock, masked,
                 handler, buf, in_cb, signals, calls>>

\* Mutant: the close is never deferred.
CloseAtOnce(h, n) == TRUE

\* No message of the handle is trapped in the pipe: caught equals dispatched.
NoneTrapped(h, n) == caught[h] = n

uv__signal_close ==
  LET h == todo.handle
  IN  /\ At("close")
      /\ state' = IF NoneTrapped(h, dispatched[h])
                  THEN [state EXCEPT ![h] = "pending"] ELSE state
      /\ todo' = NextStep
      /\ UNCHANGED <<signum, tree, caught, dispatched, registered, pipe, lock,
                     masked, handler, lpc, buf, in_cb, signals, calls>>

-----------------------------------------------------------------------------
(* The loop: uv__signal_event, and the closing handles.                    *)

Idle == Running /\ todo = NoCall /\ ~in_cb /\ buf = << >>

ReadPipe ==
  /\ Idle /\ pipe # << >>
  /\ LET n == IF Len(pipe) < BufSize THEN Len(pipe) ELSE BufSize
     IN  buf' = SubSeq(pipe, 1, n) /\ pipe' = SubSeq(pipe, n + 1, Len(pipe))
  /\ UNCHANGED <<signum, tree, caught, dispatched, state, registered, lock, masked,
                 handler, lpc, todo, in_cb, signals, calls>>

\* The message is for the signal the handle watches.
Dispatch ==
  /\ Running /\ buf # << >> /\ ~in_cb
  /\ Head(buf).signum = signum[Head(buf).handle]
  /\ in_cb' = TRUE
  /\ UNCHANGED <<signum, tree, caught, dispatched, state, registered, pipe, lock,
                 masked, handler, lpc, todo, buf, signals, calls>>

\* signal_cb returned, or was not called.
Dispatched ==
  LET h == Head(buf).handle
      n == dispatched[h] + 1
  IN  /\ Running /\ buf # << >> /\ todo = NoCall
      /\ in_cb \/ Head(buf).signum # signum[h]
      /\ in_cb' = FALSE
      /\ dispatched' = [dispatched EXCEPT ![h] = n]
      /\ state' = IF state[h] # "open" /\ NoneTrapped(h, n)
                  THEN [state EXCEPT ![h] = "pending"] ELSE state
      /\ buf' = Tail(buf)
      /\ UNCHANGED <<signum, tree, caught, registered, pipe, lock, masked, handler,
                     lpc, todo, signals, calls>>

\* uv__finish_close: close_cb frees what the handle points to.
FinishClose(h) ==
  /\ Idle /\ state[h] = "pending"
  /\ state' = [state EXCEPT ![h] = "closed"]
  /\ UNCHANGED <<signum, tree, caught, dispatched, registered, pipe, lock, masked,
                 handler, lpc, todo, buf, in_cb, signals, calls>>

\* The loop waits for a signal that does not come.
Wait == Idle /\ pipe = << >> /\ UNCHANGED vars

HandlerStep(t) ==
  HandlerLock(t) \/ (\E h \in Handles : HandlerWrite(t, h)) \/ HandlerReturns(t)

LoopStep ==
  \/ SkipStop \/ Block \/ uv__signal_lock
  \/ Insert \/ RegisterFails \/ Remove
  \/ uv__signal_unlock_and_unblock \/ EndSection \/ uv__signal_close
  \/ ReadPipe \/ Dispatch \/ Dispatched \/ \E h \in Handles : FinishClose(h)

Next ==
  \/ \E t \in Threads : HandlerStep(t) \/ \E s \in Signums : Deliver(t, s)
  \/ \E h \in Handles :
       uv_signal_stop(h) \/ uv_close(h) \/ \E s \in Signums : uv_signal_start(h, s)
  \/ LoopStep \/ Wait

Spec == Init /\ [][Next]_vars

\* Threads are scheduled and the pipe that is the lock is fair; the loop keeps
\* running, and callbacks return.
Fairness ==
  /\ \A t \in Threads : SF_vars(HandlerStep(t))
  /\ SF_vars(LoopStep)

LiveSpec == Spec /\ Fairness

-----------------------------------------------------------------------------
(* Properties.                                                             *)

\* A handler never waits for a lock that the code it interrupted holds: the
\* sections block all signals first (uv__signal_block_and_lock).
NoSelfDeadlock == handler[Loop].pc = "lock" => lock # Section

\* A message that was caught and not dispatched names the handle.
InFlight(h) ==
  \/ \E n \in DOMAIN pipe : pipe[n].handle = h
  \/ \E n \in DOMAIN buf : buf[n].handle = h

\* A handle whose close is pending or done is named by no message, looked at by
\* no handler and watches nothing: its memory can be freed (uv__signal_close,
\* the deferred close of uv__signal_event).
CloseSafe ==
  \A h \in Handles : state[h] \in {"pending", "closed"} =>
    /\ ~InFlight(h) /\ h \notin tree /\ signum[h] = None
    /\ \A t \in Threads : h \notin handler[t].rest

\* The handler is installed just while some handle watches the signal
\* (uv_signal_start, uv__signal_stop, with several handles on one signal).
HandlerInstalled == registered = {signum[h] : h \in tree}

\* A closed handle gets its close callback, also when the close was deferred.
CloseCompletes == \A h \in Handles : state[h] = "closing" ~> state[h] = "closed"

=============================================================================
