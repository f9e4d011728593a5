------------------------------- MODULE MCLive -------------------------------
(***************************************************************************)
(* What must eventually happen, for parts that share no state: a behaviour *)
(* is one of PerfSched, UvThreadPool, UvSignal or UvStream, under the      *)
(* fairness of that part.                                                  *)
(***************************************************************************)
EXTENDS PerfSched, Sequences

VARIABLES
  part,
  wq, mutex, wpc, wcur, work, linked, loop_wq, wq_mutex, pending, eventfd, lpc,
  target, in_done, wd, reqs, ran, done,
  signum, tree, caught, dispatched, state, registered, pipe, lock, masked,
  handler, spc, todo, buf, in_cb, signals, calls,
  bytes, connect, flags, pevents, fed, queue, completed, left, error, size,
  iosteps, count, dead, rstate, asked, wire, before, stranded

poolVars == <<wq, mutex, wpc, wcur, work, linked, loop_wq, wq_mutex, pending,
  eventfd, lpc, target, in_done, wd, reqs, ran, done>>
signalVars == <<signum, tree, caught, dispatched, state, registered, pipe, lock,
  masked, handler, spc, todo, buf, in_cb, signals, calls>>
streamVars == <<bytes, connect, flags, pevents, fed, queue, completed, left, error, size,
  iosteps, count, dead, rstate, asked, wire, before, stranded>>
liveVars == <<part, vars, poolVars, signalVars, streamVars>>

-----------------------------------------------------------------------------

Pool == INSTANCE UvThreadPool WITH
  Workers <- {"w1", "w2"}, Reqs <- {"r1", "r2"}, Exit <- "exit", Recancel <- FALSE,
  pc <- wpc, cur <- wcur, active <- reqs

Signal == INSTANCE UvSignal WITH
  Handles <- {"h1", "h2"}, Signums <- {"SIGINT"}, Invalid <- {},
  Threads <- {"loop", "worker"}, Loop <- "loop",
  PipeSize <- 2, BufSize <- 1, MaxSignals <- 2, MaxCalls <- 3, lpc <- spc

\* A stream that is only written to, once with nothing.
Stream == INSTANCE UvStream WITH
  Writes <- {"r1", "r2"}, Sizes <- {[r1 |-> 0, r2 |-> 1]}, ReadCount <- 0,
  todo <- iosteps, state <- rstate

-----------------------------------------------------------------------------

LiveInit ==
  /\ part \in {"sched", "pool", "signal", "stream"}
  /\ Init /\ Pool!Init /\ Signal!Init /\ Stream!Init

SchedStep(A) == part = "sched" /\ A /\ UNCHANGED <<part, poolVars, signalVars, streamVars>>
PoolStep(A) == part = "pool" /\ A /\ UNCHANGED <<part, vars, signalVars, streamVars>>
SignalStep(A) == part = "signal" /\ A /\ UNCHANGED <<part, vars, poolVars, streamVars>>
StreamStep(A) == part = "stream" /\ A /\ UNCHANGED <<part, vars, poolVars, signalVars>>

LiveNext ==
  \/ SchedStep(Next) \/ PoolStep(Pool!Next) \/ SignalStep(Signal!Next)
  \/ StreamStep(Stream!Next)

\* The fairness of the parts, as in their modules.  Only one part takes steps in
\* a behaviour, so that conditions of different parts can share a formula.
LiveFairness ==
  /\ WF_liveVars(SchedStep(Process) \/ StreamStep(Stream!LoopStep))
  /\ SF_liveVars(\/ PoolStep(Pool!WorkerStep("w1"))
                 \/ SignalStep(Signal!HandlerStep("loop"))
                 \/ StreamStep(Stream!Pending))
  /\ SF_liveVars(\/ PoolStep(Pool!WorkerStep("w2"))
                 \/ SignalStep(Signal!HandlerStep("worker"))
                 \/ StreamStep(Stream!Writable))
  /\ SF_liveVars(\/ PoolStep(Pool!CallStep)
                 \/ SignalStep(Signal!LoopStep)
                 \/ StreamStep(Stream!Progress))
  /\ SF_liveVars(PoolStep(Pool!Poll))
  /\ SF_liveVars(PoolStep(Pool!LoopStep))

LiveSpec == LiveInit /\ [][LiveNext]_liveVars /\ LiveFairness

-----------------------------------------------------------------------------
(* The properties of the parts; those of PerfSched have their own names.   *)

\* Every request of the thread pool is reported, unless the process exits.
AllReported == Pool!AllReported

\* The destructor of the thread pool joins every worker.
JoinReturns == Pool!JoinReturns

\* A closed signal watcher gets its close callback.
CloseCompletes == Signal!CloseCompletes

\* Every write of a stream is called back.
WritesReported == Stream!WritesReported

=============================================================================
