------------------------- MODULE PerfPipelineProofs -------------------------
(***************************************************************************)
(* Proofs about PerfPipeline, for every number of handles and rings, every *)
(* capacity and every read_events_rate: types, what a step may do to the   *)
(* rings, that the reader neither leaks ring space nor gives back a record *)
(* while its callback runs, and the refinement of PerfSched.  Then which   *)
(* records reach the callbacks, how often and in which order; and that     *)
(* nothing is forgotten: no wakeup is lost while the loop runs, and the    *)
(* flush of the end notification leaves nothing behind.                    *)
(***************************************************************************)
EXTENDS PerfImplements, TLAPS

Reading == {"while", "scan", "callback", "consume"}

\* What the control points say about the locals of mmap_read_consume: it
\* reads an evlist, and top_event is a record of one of the rings passed.
Control ==
  /\ pc \in Reading => cur \in Handles
  /\ pc \in {"callback", "consume"} => idx # 0
  /\ pc = "scan" /\ idx # 0 =>
       /\ idx < i
       /\ prev[<<cur, idx>>] < Len(data[<<cur, idx>>])
       /\ Front(<<cur, idx>>).kind # "notime"
  /\ pc \notin {"scan", "callback", "consume", "exited"} => idx = 0 /\ i = 1
  /\ prev_samples_num <= samples_num

TypeInv == TypeOK /\ Control

\* The initial state is well typed.
LEMMA InitType == Init => TypeInv
<1> SUFFICES ASSUME Init PROVE TypeInv
  OBVIOUS
<1>1. /\ data \in [Rings -> Seq(Record)] /\ log \in [Rings -> Seq(Nat \ {0})]
      /\ prev \in [Rings -> Nat] /\ tail \in [Rings -> Nat]
      /\ lost \in [Rings -> Nat] /\ poll \in [Rings -> BOOLEAN]
  BY DEF Init
<1>2. /\ evlist \in [Handles -> EvlistState]
      /\ stop \in [Handles -> {"none", "empty", "budget", "bad"}]
      /\ i \in 1 .. NrMmaps + 1 /\ idx \in 0 .. NrMmaps
      /\ seen \in [Mmaps -> Nat]
  BY PipelineAssumption DEF Init, EvlistState
<1>3. TypeOK
  BY Zenon, <1>1, <1>2 DEF Init, TypeOK
<1>4. Control
  BY DEF Init, Control, Reading
<1> QED
  BY Zenon, <1>3, <1>4 DEF TypeInv

\* The types of what belongs to one ring.
LEMMA RingTypes ==
  ASSUME TypeOK, NEW r \in Rings
  PROVE  /\ data[r] \in Seq(Record)
         /\ Len(data[r]) \in Nat /\ prev[r] \in Nat /\ tail[r] \in Nat
         /\ lost[r] \in Nat
<1>1. data[r] \in Seq(Record)
  BY Zenon DEF TypeOK
<1>2. Len(data[r]) \in Nat
  BY <1>1
<1> QED
  BY Zenon, <1>1, <1>2 DEF TypeOK

\* What the kernel appends to a ring: one record, or a LOST record and one.
LEMMA ReserveType ==
  ASSUME TypeOK, NEW r \in Rings, NEW k \in Kinds, NEW t \in Nat,
         Reserve(r, k, t)
  PROVE  /\ data' \in [Rings -> Seq(Record)]
         /\ lost' \in [Rings -> Nat]
         /\ poll' \in [Rings -> BOOLEAN]
         /\ \A q \in Rings : Len(data[q]) <= Len(data'[q])
         /\ \A q \in Rings : \A n \in 1 .. Len(data[q]) :
              data'[q][n] = data[q][n]
<1> DEFINE new == (IF lost[r] = 0 THEN << >>
                   ELSE <<[kind |-> "lost", time |-> t, n |-> lost[r]]>>)
                  \o <<[kind |-> k, time |-> t, n |-> 0]>>
<1>1. k \in {"sample", "other", "bad", "notime", "lost"}
  BY Zenon, PipelineAssumption
<1>2. new \in Seq(Record)
  <2>1. /\ [kind |-> "lost", time |-> t, n |-> lost[r]] \in Record
        /\ [kind |-> k, time |-> t, n |-> 0] \in Record
    BY Zenon, <1>1 DEF TypeOK, Record
  <2> QED
    BY <2>1
<1>3. data' = [data EXCEPT ![r] = @ \o new]
  BY Zenon DEF Reserve
<1> HIDE DEF new
<1>4. data' \in [Rings -> Seq(Record)]
  BY <1>2, <1>3 DEF TypeOK
<1>5. \A q \in Rings : /\ Len(data[q]) <= Len(data'[q])
                       /\ \A n \in 1 .. Len(data[q]) : data'[q][n] = data[q][n]
  <2>1. ASSUME NEW q \in Rings, q # r PROVE data'[q] = data[q]
    BY Zenon, <1>3, <2>1 DEF TypeOK
  <2>2. data'[r] = data[r] \o new /\ data[r] \in Seq(Record)
    BY Zenon, <1>3 DEF TypeOK
  <2>3. /\ Len(data[r]) <= Len(data'[r])
        /\ \A n \in 1 .. Len(data[r]) : data'[r][n] = data[r][n]
    BY <1>2, <2>2
  <2>4. \A q \in Rings : Len(data[q]) \in Nat
    BY DEF TypeOK
  <2>5. \A q \in Rings : Len(data[q]) <= Len(data[q])
    BY <2>4
  <2> QED
    BY Zenon, <2>1, <2>3, <2>5
<1>6. lost' \in [Rings -> Nat] /\ poll' \in [Rings -> BOOLEAN]
  BY Zenon DEF TypeOK, Reserve
<1> QED
  BY Zenon, <1>4, <1>5, <1>6

\* The kernel writes records.
LEMMA KernelWriteType ==
  ASSUME TypeInv, NEW r \in Rings, KernelWrite(r)
  PROVE  TypeInv'
<1>1. PICK t \in {now, now + 1}, k \in Kinds :
        now' = t /\ (Reserve(r, k, t) \/ Drop(r))
  BY Zenon DEF KernelWrite
<1>2. t \in Nat
  BY DEF TypeInv, TypeOK
<1>3. CASE Reserve(r, k, t)
  <2>1. /\ data' \in [Rings -> Seq(Record)]
        /\ lost' \in [Rings -> Nat]
        /\ poll' \in [Rings -> BOOLEAN]
        /\ \A q \in Rings : Len(data[q]) <= Len(data'[q])
        /\ \A q \in Rings : \A n \in 1 .. Len(data[q]) :
             data'[q][n] = data[q][n]
    BY Zenon, <1>2, <1>3, ReserveType DEF TypeInv
  <2>2. dropped' = dropped
    BY Zenon, <1>3 DEF Reserve
  <2>3. TypeOK'
    BY <1>1, <1>2, <2>1, <2>2, SMTT(30)
       DEF TypeInv, TypeOK, KernelWrite, readVars, statVars, loopVars
  <2>4. ASSUME pc = "scan", idx # 0
        PROVE  /\ Len(data[<<cur, idx>>]) <= Len(data'[<<cur, idx>>])
               /\ data'[<<cur, idx>>][prev[<<cur, idx>>] + 1] =
                  Front(<<cur, idx>>)
    <3>1. <<cur, idx>> \in Rings
      BY <2>4 DEF TypeInv, TypeOK, Control, Rings, Mmaps, Reading
    <3>2. prev[<<cur, idx>>] + 1 \in 1 .. Len(data[<<cur, idx>>])
      BY <2>4, <3>1 DEF TypeInv, TypeOK, Control
    <3> QED
      BY Zenon, <2>1, <3>1, <3>2 DEF Front
  <2>5. /\ UNCHANGED <<pc, cur, idx, i, prev>>
    BY Zenon DEF KernelWrite, readVars, loopVars
  <2>6. Control'
    <3>1. ASSUME pc = "scan", idx # 0
          PROVE  prev[<<cur, idx>>] < Len(data'[<<cur, idx>>])
      <4>1. <<cur, idx>> \in Rings
        BY <3>1 DEF TypeInv, TypeOK, Control, Rings, Mmaps, Reading
      <4>2. /\ Len(data[<<cur, idx>>]) \in Nat
            /\ prev[<<cur, idx>>] \in Nat
        BY Zenon, <4>1, RingTypes DEF TypeInv
      <4>4. Len(data'[<<cur, idx>>]) \in Nat
        <5>1. data'[<<cur, idx>>] \in Seq(Record)
          BY Zenon, <2>1, <4>1
        <5> QED
          BY <5>1
      <4>3. prev[<<cur, idx>>] < Len(data[<<cur, idx>>])
        BY Zenon, <3>1 DEF TypeInv, Control
      <4> QED
        BY <2>4, <3>1, <4>2, <4>3, <4>4
    <3> QED
      BY Zenon, <2>4, <2>5, <3>1
         DEF TypeInv, Control, Front, KernelWrite, statVars
  <2> QED
    BY Zenon, <2>3, <2>6 DEF TypeInv
<1>4. CASE Drop(r)
  <2>1. TypeOK'
    BY <1>1, <1>2, <1>4, SMTT(30)
       DEF TypeInv, TypeOK, KernelWrite, Drop, readVars, statVars, loopVars
  <2>2. Control'
    BY Zenon, <1>4 DEF TypeInv, Control, KernelWrite, Drop, readVars, statVars,
                loopVars, Front
  <2> QED
    BY Zenon, <2>1, <2>2 DEF TypeInv
<1> QED
  BY Zenon, <1>1, <1>3, <1>4

\* The steps of the event loop and of the end notification.
LEMMA LoopType ==
  ASSUME TypeInv,
         \/ \E r \in Rings : PollCallback(r)
         \/ \E h \in Handles : Open(h) \/ Enable(h) \/ Flush(h)
         \/ Interrupt \/ OpenFails \/ StartLoop \/ Register \/ EpollWait
         \/ BatchDone \/ CallEnd \/ Exit
  PROVE  TypeInv'
<1> USE DEF TypeInv, TypeOK, Control, Reading, kernelVars, readVars, statVars,
            loopVars
<1>1. ASSUME NEW r \in Rings, PollCallback(r) PROVE TypeInv'
  <2>1. r[1] \in Handles
    BY Zenon DEF Rings
  <2> QED
    BY Zenon, <1>1, <2>1 DEF PollCallback, EvlistOf
<1>2. ASSUME NEW h \in Handles, Open(h) PROVE TypeInv'
  BY <1>2 DEF Open, EvlistState, Front
<1>3. ASSUME NEW h \in Handles, Enable(h) PROVE TypeInv'
  BY <1>3 DEF Enable, EvlistState
<1>4. ASSUME NEW h \in Handles, Flush(h) PROVE TypeInv'
  BY <1>4 DEF Flush, Disabled, EvlistState
<1>5. ASSUME Interrupt PROVE TypeInv'
  BY <1>5 DEF Interrupt, Front
<1>6. ASSUME OpenFails \/ StartLoop \/ BatchDone \/ Exit PROVE TypeInv'
  BY Zenon, <1>6 DEF OpenFails, StartLoop, BatchDone, Exit
<1>7. ASSUME Register PROVE TypeInv'
  BY Zenon, <1>7 DEF Register, EvlistState
<1>8. ASSUME EpollWait PROVE TypeInv'
  <2>1. poll' \in [Rings -> BOOLEAN]
    BY Zenon, <1>8 DEF EpollWait
  <2>2. batch' \in SUBSET Rings /\ sig' \in {"none", "pending", "reported"}
    BY Zenon, <1>8 DEF EpollWait, Readable
  <2> QED
    BY Zenon, <1>8, <2>1, <2>2 DEF EpollWait
<1>9. ASSUME CallEnd PROVE TypeInv'
  BY Zenon, <1>9 DEF CallEnd
<1> QED
  BY Zenon, <1>1, <1>2, <1>3, <1>4, <1>5, <1>6, <1>7, <1>8, <1>9

\* mmap_read_consume returns to the loop or to the notification.
LEMMA ReturnType ==
  ASSUME TypeInv, NEW why \in {"budget", "empty", "bad"}, Return(why)
  PROVE  /\ stop' \in [Handles -> {"none", "empty", "budget", "bad"}]
         /\ nr_read' = 0 /\ i' = 1 /\ idx' = 0
         /\ i' \in 1 .. NrMmaps + 1 /\ idx' \in 0 .. NrMmaps
         /\ seen' \in [Mmaps -> Nat]
         /\ pc' \in {"notify", "batch"}
         /\ flush_num' \in Nat
<1>1. flush_num + samples_num - prev_samples_num \in Nat
  BY DEF TypeInv, TypeOK, Control
<1>2. flush_num' \in Nat
  BY Zenon, <1>1 DEF Return, TypeInv, TypeOK
<1>3. stop' \in [Handles -> {"none", "empty", "budget", "bad"}]
  BY Zenon DEF Return, TypeInv, TypeOK
<1> QED
  BY <1>2, <1>3, PipelineAssumption DEF Return

\* The steps of mmap_read_consume and perf_evlist__mmap_read_top.
LEMMA ReaderType ==
  ASSUME TypeInv, Reader
  PROVE  TypeInv'
<1> USE DEF TypeInv, Control, Reading
<1>2. CASE While
  <2>1. CASE BelowLimit
    BY <1>2, <2>1 DEF While, TypeOK, kernelVars
  <2>2. CASE ~BelowLimit
    <3>1. Return("budget")
      BY Zenon, <1>2, <2>2 DEF While
    <3>2. /\ stop' \in [Handles -> {"none", "empty", "budget", "bad"}]
          /\ nr_read' = 0 /\ i' = 1 /\ idx' = 0
          /\ i' \in 1 .. NrMmaps + 1 /\ idx' \in 0 .. NrMmaps
          /\ seen' \in [Mmaps -> Nat]
          /\ pc' \in {"notify", "batch"}
          /\ flush_num' \in Nat
      BY Zenon, <3>1, ReturnType
    <3> QED
      BY Zenon, <1>2, <3>2 DEF While, TypeOK, kernelVars
  <2> QED
    BY Zenon, <2>1, <2>2
<1>3. CASE ScanMmap
  <2> DEFINE r == <<cur, i>>
  <2>1. r \in Rings /\ pc = "scan" /\ i \in Mmaps /\ i + 1 \in 1 .. NrMmaps + 1
    <3>1. pc = "scan" /\ cur \in Handles /\ i <= NrMmaps
      BY Zenon, <1>3 DEF ScanMmap
    <3>2. i \in 1 .. NrMmaps /\ i + 1 \in 1 .. NrMmaps + 1
      BY <3>1, PipelineAssumption DEF TypeOK
    <3> QED
      BY Zenon, <3>1, <3>2 DEF Rings, Mmaps
  <2>2. idx' \in {i, idx} /\ i' = i + 1
    BY Zenon, <1>3 DEF ScanMmap, NextMmap
  <2>3. idx' \in 0 .. NrMmaps /\ i' \in 1 .. NrMmaps + 1
    BY <2>1, <2>2 DEF TypeOK, Mmaps
  <2>4. Len(data[r]) \in Nat /\ prev[r] \in Nat
    BY <2>1 DEF TypeOK
  <2>5. seen' \in [Mmaps -> Nat]
    BY Zenon, <1>3, <2>1, <2>4 DEF ScanMmap, TypeOK
  <2>6. tail' \in [Rings -> Nat]
    BY Zenon, <1>3, <2>1, <2>4 DEF ScanMmap, TypeOK
  <2>7. UNCHANGED <<kernelVars, prev, evlist, pc, nr_read, statVars, loopVars>>
    BY Zenon, <1>3 DEF ScanMmap
  <2>8. TypeOK'
    BY <2>3, <2>5, <2>6, <2>7 DEF TypeOK, kernelVars, statVars, loopVars
  <2>9. idx' # idx => /\ prev[r] < Len(data[r])
                      /\ Front(r).kind # "notime"
                      /\ idx' = i
    BY Zenon, <1>3 DEF ScanMmap
  <2>10. Control'
    <3>1. UNCHANGED <<pc, cur, prev, data, samples_num, prev_samples_num>>
      BY Zenon, <2>7 DEF kernelVars, statVars, loopVars
    <3>2. CASE idx' = idx
      BY <2>1, <2>2, <2>3, <3>1, <3>2 DEF TypeOK, Front
    <3>3. CASE idx' # idx
      BY <2>1, <2>2, <2>3, <2>9, <3>1, <3>3 DEF TypeOK, Front
    <3> QED
      BY Zenon, <3>2, <3>3
  <2> QED
    BY Zenon, <2>8, <2>10
<1>4. CASE ReadNothing
  <2>1. Return("empty")
    BY Zenon, <1>4 DEF ReadNothing
  <2>2. /\ stop' \in [Handles -> {"none", "empty", "budget", "bad"}]
        /\ nr_read' = 0 /\ i' = 1 /\ idx' = 0
        /\ i' \in 1 .. NrMmaps + 1 /\ idx' \in 0 .. NrMmaps
        /\ seen' \in [Mmaps -> Nat]
        /\ pc' \in {"notify", "batch"}
        /\ flush_num' \in Nat
    BY Zenon, <2>1, ReturnType
  <2> QED
    BY Zenon, <1>4, <2>2 DEF ReadNothing, TypeOK, kernelVars
<1>5. CASE ReadTop
  <2> DEFINE r == <<cur, idx>>
             e == Front(r)
  <2>1. r \in Rings /\ pc = "scan" /\ prev[r] < Len(data[r]) /\ idx # 0
    BY <1>5 DEF ReadTop, TypeOK, Rings, Mmaps
  <2>2. prev[r] + 1 \in 1 .. Len(data[r])
    BY <2>1 DEF TypeOK
  <2>3. e \in Record
    BY <2>1, <2>2 DEF TypeOK, Front
  <2>4. /\ prev' \in [Rings -> Nat]
        /\ tail' \in [Rings -> Nat]
    <3>1. prev' = Advanced(r) /\ tail' = TailAtDispatch(r)
      BY Zenon, <1>5 DEF ReadTop
    <3>2. prev[r] + 1 \in Nat
      BY <2>1, RingTypes
    <3> HIDE DEF r
    <3>3. [prev EXCEPT ![r] = @ + 1] \in [Rings -> Nat]
      BY Zenon, <2>1, <3>2 DEF TypeOK
    <3>4. [tail EXCEPT ![r] = prev[r] + 1] \in [Rings -> Nat]
      BY Zenon, <2>1, <3>2 DEF TypeOK
    <3> QED
      BY Zenon, <3>1, <3>3, <3>4 DEF TypeOK, Advanced, TailAtDispatch
  <2>5. UNCHANGED <<kernelVars, evlist, prev_samples_num, handle, sig, batch,
                    drain, flushing, cur, sampleHandle>>
    BY Zenon, <1>5 DEF ReadTop
  <2>6. CASE e.kind = "bad"
    <3>1. /\ Return("bad")
          /\ UNCHANGED <<log, polled_num, samples_num, lost_num>>
      BY Zenon, <1>5, <2>6 DEF ReadTop
    <3>2. /\ stop' \in [Handles -> {"none", "empty", "budget", "bad"}]
          /\ nr_read' = 0 /\ i' = 1 /\ idx' = 0
          /\ i' \in 1 .. NrMmaps + 1 /\ idx' \in 0 .. NrMmaps
          /\ seen' \in [Mmaps -> Nat]
          /\ pc' \in {"notify", "batch"}
          /\ flush_num' \in Nat
      BY Zenon, <3>1, ReturnType
    <3> QED
      BY Zenon, <2>4, <2>5, <3>1, <3>2 DEF TypeOK, kernelVars
  <2>7. CASE e.kind = "sample"
    <3>1. /\ samples_num' = samples_num + 1
          /\ polled_num' \in {polled_num, polled_num + 1}
          /\ pc' = "callback"
          /\ log' = [log EXCEPT ![r] = Append(@, prev[r] + 1)]
          /\ UNCHANGED <<lost_num, stop, flush_num, readVars>>
      BY Zenon, <1>5, <2>7 DEF ReadTop
    <3>2. log' \in [Rings -> Seq(Nat \ {0})]
      BY <2>1, <2>2, <3>1 DEF TypeOK
    <3>3. /\ samples_num' \in Nat /\ polled_num' \in Nat
          /\ prev_samples_num' <= samples_num'
      BY <2>5, <3>1 DEF TypeOK
    <3>4. TypeOK'
      BY Zenon, <2>4, <2>5, <3>1, <3>2, <3>3 DEF TypeOK, kernelVars, readVars
    <3> QED
      BY Zenon, <2>1, <2>5, <3>1, <3>3, <3>4 DEF readVars
  <2>8. CASE e.kind \in {"other", "lost"}
    <3>1. /\ lost_num' = lost_num + e.n
          /\ pc' = "consume"
          /\ UNCHANGED <<log, polled_num, samples_num, stop, flush_num, readVars>>
      BY Zenon, <1>5, <2>8 DEF ReadTop, LostOf
    <3>2. lost_num' \in Nat
      BY <2>3, <3>1 DEF TypeOK, Record
    <3> QED
      BY Zenon, <2>1, <2>4, <2>5, <3>1, <3>2 DEF TypeOK, kernelVars, readVars
  <2> QED
    BY Zenon, <1>5, <2>6, <2>7, <2>8 DEF ReadTop
<1>6. CASE CallbackReturns \/ CallbackRaises
  BY Zenon, <1>6 DEF CallbackReturns, CallbackRaises, TypeOK, kernelVars, readVars,
              statVars, loopVars
<1>7. CASE Consume
  <2>1. seen' \in [Mmaps -> Nat] /\ i' \in 1 .. NrMmaps + 1
    BY <1>7, PipelineAssumption DEF Consume
  <2>2. <<cur, idx>> \in Rings
    BY <1>7 DEF Consume, TypeOK, Rings, Mmaps
  <2>3. tail' \in [Rings -> Nat]
    BY Zenon, <1>7, <2>2 DEF Consume, TypeOK
  <2> QED
    BY <1>7, <2>1, <2>3, PipelineAssumption, SMTT(30)
       DEF Consume, TypeOK, kernelVars, statVars, loopVars
<1> QED
  BY Zenon, <1>2, <1>3, <1>4, <1>5, <1>6, <1>7 DEF Reader

\* Every step keeps the types.
LEMMA TypeInductive == TypeInv /\ [Next]_vars => TypeInv'
<1> SUFFICES ASSUME TypeInv, [Next]_vars PROVE TypeInv'
  OBVIOUS
<1>1. CASE UNCHANGED vars
  <2>1. TypeOK'
    BY <1>1 DEF vars, TypeInv, TypeOK, kernelVars, readVars, statVars, loopVars
  <2>2. Control'
    BY Zenon, <1>1 DEF vars, TypeInv, Control, Front, kernelVars, readVars, statVars,
                loopVars
  <2> QED
    BY Zenon, <2>1, <2>2 DEF TypeInv
<1>2. CASE Next
  BY Zenon, <1>1, <1>2, KernelWriteType, LoopType, ReaderType DEF Next, Exited
<1> QED
  BY Zenon, <1>1, <1>2

\* Every variable keeps its type in every state of every instance.
THEOREM TypeCorrect == Spec => []TypeOK
<1>1. TypeInv => TypeOK
  BY Zenon DEF TypeInv
<1> QED
  BY <1>1, InitType, TypeInductive, PTL DEF Spec

-----------------------------------------------------------------------------
(* What the steps do to the rings.                                         *)

\* The records a reservation appends: all of the time of the reservation,
\* the last of the kind reserved, and at most a LOST record before it.
LEMMA ReserveAppends ==
  ASSUME TypeOK, NEW r \in Rings, NEW k \in Kinds, NEW t \in Nat,
         Reserve(r, k, t)
  PROVE  /\ \A q \in Rings : q # r => data'[q] = data[q]
         /\ Len(data'[r]) \in Nat
         /\ Len(data[r]) < Len(data'[r])
         /\ Len(data'[r]) - tail[r] <= Capacity
         /\ \A n \in 1 .. Len(data[r]) : data'[r][n] = data[r][n]
         /\ \A n \in Len(data[r]) + 1 .. Len(data'[r]) :
              /\ data'[r][n].time = t
              /\ data'[r][n].kind \in {"lost", k}
         /\ \A q \in Rings : poll[q] => poll'[q]
         /\ k # "other" => poll'[r]
<1> DEFINE lrec == [kind |-> "lost", time |-> t, n |-> lost[r]]
           rec == [kind |-> k, time |-> t, n |-> 0]
           new == (IF lost[r] = 0 THEN << >> ELSE <<lrec>>) \o <<rec>>
<1>1. k \in {"sample", "other", "bad", "notime", "lost"}
  BY Zenon, PipelineAssumption
<1>2. lrec \in Record /\ rec \in Record
  BY Zenon, <1>1, RingTypes DEF Record
<1>3. /\ data' = [data EXCEPT ![r] = @ \o new]
      /\ Len(data[r]) + Len(new) - tail[r] <= Capacity
      /\ poll' = [poll EXCEPT ![r] = @ \/ k # "other"]
  BY Zenon DEF Reserve
<1>4. data[r] \in Seq(Record) /\ Len(data[r]) \in Nat /\ tail[r] \in Nat
  BY Zenon, RingTypes
<1>5. /\ new \in Seq(Record)
      /\ Len(new) \in {1, 2}
      /\ \A n \in 1 .. Len(new) : new[n] \in {lrec, rec}
  <2> HIDE DEF lrec, rec
  <2>1. CASE lost[r] = 0
    <3>1. new = <<rec>>
      BY <1>2, <2>1
    <3> QED
      BY <1>2, <3>1
  <2>2. CASE lost[r] # 0
    <3>1. new = <<lrec>> \o <<rec>>
      BY Zenon, <2>2
    <3>2. /\ <<lrec>> \in Seq(Record) /\ Len(<<lrec>>) = 1
          /\ <<rec>> \in Seq(Record) /\ Len(<<rec>>) = 1
      BY <1>2
    <3>3. /\ new \in Seq(Record)
          /\ Len(new) = 2 /\ new[1] = lrec /\ new[2] = rec
      <4>1. new \in Seq(Record)
        BY <3>1, <3>2
      <4>2. Len(new) = 2
        BY <3>1, <3>2
      <4>3. new[1] = lrec
        BY <3>1, <3>2
      <4>4. new[2] = rec
        BY <3>1, <3>2
      <4> QED
        BY Zenon, <4>1, <4>2, <4>3, <4>4
    <3>4. \A n \in 1 .. 2 : n = 1 \/ n = 2
      OBVIOUS
    <3> HIDE DEF new
    <3> QED
      BY Zenon, <3>3, <3>4
  <2> QED
    BY Zenon, <2>1, <2>2
<1>6. /\ lrec.time = t /\ lrec.kind = "lost"
      /\ rec.time = t /\ rec.kind = k
  OBVIOUS
<1> HIDE DEF new, lrec, rec
<1>7. data'[r] = data[r] \o new
  BY Zenon, <1>3 DEF TypeOK
<1>8. /\ Len(data'[r]) = Len(data[r]) + Len(new)
      /\ \A n \in 1 .. Len(data[r]) : data'[r][n] = data[r][n]
      /\ \A n \in Len(data[r]) + 1 .. Len(data'[r]) :
           data'[r][n] = new[n - Len(data[r])]
  BY <1>4, <1>5, <1>7
<1>9. \A n \in Len(data[r]) + 1 .. Len(data'[r]) :
        data'[r][n] \in {lrec, rec}
  <2> SUFFICES ASSUME NEW n \in Len(data[r]) + 1 .. Len(data'[r])
               PROVE  data'[r][n] \in {lrec, rec}
    OBVIOUS
  <2>1. n - Len(data[r]) \in 1 .. Len(new)
    BY <1>4, <1>5, <1>8
  <2> QED
    BY Zenon, <1>5, <1>8, <2>1
<1>10. \A q \in Rings : q # r => data'[q] = data[q]
  BY Zenon, <1>3 DEF TypeOK
<1>11. (\A q \in Rings : poll[q] => poll'[q]) /\ (k # "other" => poll'[r])
  BY Zenon, <1>3 DEF TypeOK
<1>12. /\ Len(data'[r]) \in Nat
       /\ Len(data[r]) < Len(data'[r])
       /\ Len(data'[r]) - tail[r] <= Capacity
  <2>1. Len(data[r]) + Len(new) - tail[r] <= Capacity
    BY Zenon, <1>3
  <2>2. Len(new) \in Nat /\ Len(new) > 0
    BY <1>5
  <2> QED
    BY <1>4, <1>8, <2>1, <2>2
<1>13. \A n \in Len(data[r]) + 1 .. Len(data'[r]) :
         data'[r][n].time = t /\ data'[r][n].kind \in {"lost", k}
  BY Zenon, <1>6, <1>9
<1> QED
  BY Zenon, <1>8, <1>10, <1>11, <1>12, <1>13

\* A write of the kernel: it appends to one ring of an enabled evlist, never
\* past the capacity, records that are not older than any before them, and
\* makes the ring readable unless they are all records other than samples.
KernelEffect(r) ==
  /\ evlist[r[1]] = "enabled" /\ pc # "exited"
  /\ UNCHANGED <<prev, tail, evlist, pc, readVars, statVars, loopVars>>
  /\ now' \in {now, now + 1}
  /\ \A q \in Rings : q # r => data'[q] = data[q]
  /\ Len(data'[r]) \in Nat
  /\ \A n \in 1 .. Len(data[r]) : data'[r][n] = data[r][n]
  /\ \A q \in Rings : poll[q] => poll'[q]
  /\ \/ data'[r] = data[r]
     \/ /\ Len(data[r]) < Len(data'[r])
        /\ Len(data'[r]) - tail[r] <= Capacity
        /\ \A n \in Len(data[r]) + 1 .. Len(data'[r]) :
             /\ data'[r][n].time = now'
             /\ poll'[r] \/ data'[r][n].kind \in {"lost", "other"}

\* What perf.lua can see of a write of the kernel.
LEMMA KernelWriteEffect ==
  ASSUME TypeInv, NEW r \in Rings, KernelWrite(r)
  PROVE  KernelEffect(r)
<1>1. PICK t \in {now, now + 1}, k \in Kinds :
        now' = t /\ (Reserve(r, k, t) \/ Drop(r))
  BY Zenon DEF KernelWrite
<1>2. t \in Nat /\ TypeOK
  BY DEF TypeInv, TypeOK
<1>3. /\ evlist[r[1]] = "enabled" /\ pc # "exited"
      /\ UNCHANGED <<prev, tail, evlist, pc, readVars, statVars, loopVars>>
      /\ now' \in {now, now + 1}
  BY Zenon, <1>1 DEF KernelWrite
<1>4. CASE Reserve(r, k, t)
  <2>1. /\ \A q \in Rings : q # r => data'[q] = data[q]
        /\ Len(data'[r]) \in Nat
        /\ Len(data[r]) < Len(data'[r])
        /\ Len(data'[r]) - tail[r] <= Capacity
        /\ \A n \in 1 .. Len(data[r]) : data'[r][n] = data[r][n]
        /\ \A n \in Len(data[r]) + 1 .. Len(data'[r]) :
             /\ data'[r][n].time = t
             /\ data'[r][n].kind \in {"lost", k}
        /\ \A q \in Rings : poll[q] => poll'[q]
        /\ k # "other" => poll'[r]
    BY Zenon, <1>2, <1>4, ReserveAppends
  <2>2. \A n \in Len(data[r]) + 1 .. Len(data'[r]) :
             /\ data'[r][n].time = now'
             /\ poll'[r] \/ data'[r][n].kind \in {"lost", "other"}
    BY Zenon, <1>1, <2>1
  <2> QED
    BY Zenon, <1>3, <2>1, <2>2 DEF KernelEffect
<1>5. CASE Drop(r)
  <2>1. UNCHANGED <<data, poll>>
    BY Zenon, <1>5 DEF Drop
  <2>2. Len(data'[r]) \in Nat
    BY Zenon, <1>2, <2>1, RingTypes
  <2> QED
    BY Zenon, <1>3, <2>1, <2>2 DEF KernelEffect
<1> QED
  BY Zenon, <1>1, <1>4, <1>5

\* The steps that leave the rings alone.
Quiet ==
  \/ \E r \in Rings : PollCallback(r)
  \/ \E h \in Handles : Open(h) \/ Enable(h) \/ Flush(h)
  \/ Interrupt \/ OpenFails \/ StartLoop \/ Register \/ EpollWait
  \/ BatchDone \/ CallEnd \/ Exit
  \/ While \/ ReadNothing \/ CallbackReturns \/ CallbackRaises
  \/ UNCHANGED vars

\* Every step writes a ring, reads one, gives space back, or leaves both ends
\* alone.
LEMMA NextCases ==
  [Next]_vars <=> \/ \E r \in Rings : KernelWrite(r)
                  \/ ScanMmap \/ ReadTop \/ Consume \/ Quiet
BY Zenon DEF Next, Reader, Exited, Quiet

Processing == {"callback", "consume"}

\* A quiet step neither takes a record up nor puts it down, unless it ends
\* the process.
LEMMA QuietEffect ==
  ASSUME Quiet
  PROVE  /\ UNCHANGED <<data, prev, tail>>
         /\ \/ pc' = "exited"
            \/ pc \notin Processing /\ pc' \notin Processing /\ pc # "exited"
            \/ /\ UNCHANGED <<cur, idx>>
               /\ pc' = pc \/ (pc = "callback" /\ pc' = "consume")
<1> USE DEF kernelVars, readVars, loopVars, Processing
<1>1. ASSUME NEW r \in Rings, PollCallback(r)
      PROVE  UNCHANGED <<data, prev, tail>> /\ pc = "batch" /\ pc' = "while"
  BY Zenon, <1>1 DEF PollCallback
<1>2. ASSUME NEW h \in Handles, Open(h) \/ Enable(h)
      PROVE  UNCHANGED <<data, prev, tail, pc, cur, idx>>
  BY Zenon, <1>2 DEF Open, Enable
<1>3. ASSUME NEW h \in Handles, Flush(h)
      PROVE  UNCHANGED <<data, prev, tail>> /\ pc = "notify" /\ pc' = "while"
  BY Zenon, <1>3 DEF Flush
<1>4. ASSUME Interrupt \/ Register
      PROVE  UNCHANGED <<data, prev, tail, pc, cur, idx>>
  BY Zenon, <1>4 DEF Interrupt, Register
<1>5. ASSUME OpenFails \/ Exit \/ CallbackRaises
      PROVE  UNCHANGED <<data, prev, tail>> /\ pc' = "exited"
  BY Zenon, <1>5 DEF OpenFails, Exit, CallbackRaises
<1>6. ASSUME StartLoop \/ EpollWait \/ BatchDone \/ CallEnd
      PROVE  /\ UNCHANGED <<data, prev, tail>>
             /\ pc \in {"script", "idle", "batch"}
             /\ pc' \in {"idle", "batch", "notify"}
  BY Zenon, <1>6 DEF StartLoop, EpollWait, BatchDone, CallEnd
<1>7. ASSUME While \/ ReadNothing
      PROVE  /\ UNCHANGED <<data, prev, tail>>
             /\ pc \in {"while", "scan"}
             /\ pc' \in {"scan", "notify", "batch"}
  BY Zenon, <1>7 DEF While, ReadNothing, Return
<1>8. ASSUME CallbackReturns
      PROVE  /\ UNCHANGED <<data, prev, tail, cur, idx>>
             /\ pc = "callback" /\ pc' = "consume"
  BY Zenon, <1>8 DEF CallbackReturns
<1>9. ASSUME UNCHANGED vars
      PROVE  UNCHANGED <<data, prev, tail, pc, cur, idx>>
  BY Zenon, <1>9 DEF vars
<1> QED
  BY Zenon, <1>1, <1>2, <1>3, <1>4, <1>5, <1>6, <1>7, <1>8, <1>9 DEF Quiet

-----------------------------------------------------------------------------
(* The space of a ring.                                                    *)

\* A ring never holds more than its capacity, the reader stays behind the
\* kernel, and what it has read it has given back but for the record being
\* processed.
RingInv ==
  /\ \A r \in Rings : prev[r] <= Len(data[r]) /\ Len(data[r]) - tail[r] <= Capacity
  /\ SpaceReturned

\* The rings start empty.
LEMMA InitRing == Init => RingInv
<1> SUFFICES ASSUME Init PROVE RingInv
  OBVIOUS
<1>1. ASSUME NEW r \in Rings
      PROVE  data[r] = << >> /\ prev[r] = 0 /\ tail[r] = 0 /\ Len(data[r]) = 0
  BY Zenon DEF Init
<1> QED
  BY <1>1, PipelineAssumption DEF RingInv, SpaceReturned, Init

\* The kernel appends a record only where there is room.
LEMMA KernelRing ==
  ASSUME TypeInv, RingInv, NEW r \in Rings, KernelWrite(r)
  PROVE  RingInv'
<1>1. KernelEffect(r)
  BY Zenon, KernelWriteEffect
<1>2. UNCHANGED <<prev, tail, pc, cur, idx>>
  BY Zenon, <1>1 DEF KernelEffect, readVars, loopVars
<1>3. ASSUME NEW q \in Rings
      PROVE  prev[q] <= Len(data'[q]) /\ Len(data'[q]) - tail[q] <= Capacity
  <2>1. prev[q] <= Len(data[q]) /\ Len(data[q]) - tail[q] <= Capacity
    BY Zenon DEF RingInv
  <2>2. prev[q] \in Nat /\ Len(data[q]) \in Nat /\ tail[q] \in Nat
    BY Zenon, RingTypes DEF TypeInv
  <2>3. CASE data'[q] = data[q]
    BY Zenon, <2>1, <2>3
  <2>4. CASE data'[q] # data[q]
    <3>1. q = r
      BY Zenon, <1>1, <2>4 DEF KernelEffect
    <3>2. /\ Len(data[q]) < Len(data'[q])
          /\ Len(data'[q]) - tail[q] <= Capacity
          /\ Len(data'[q]) \in Nat
      BY Zenon, <1>1, <2>4, <3>1 DEF KernelEffect
    <3> QED
      BY <2>1, <2>2, <3>2
  <2> QED
    BY Zenon, <2>3, <2>4
<1> QED
  BY Zenon, <1>2, <1>3 DEF RingInv, SpaceReturned

\* mmap_read_top consumes a record without a time after putting md->prev
\* back, so nothing is given back that was not before.
LEMMA ScanEffect ==
  ASSUME TypeInv, RingInv, ScanMmap
  PROVE  /\ UNCHANGED <<data, prev, tail, pc, cur>>
         /\ pc = "scan" /\ i \in Mmaps /\ <<cur, i>> \in Rings
<1> DEFINE r == <<cur, i>>
<1>1. /\ pc = "scan" /\ i <= NrMmaps
      /\ UNCHANGED <<data, prev, pc, cur>>
      /\ tail' = tail \/ tail' = [tail EXCEPT ![r] = prev[r]]
  BY Zenon DEF ScanMmap, kernelVars, loopVars
<1>2. cur \in Handles /\ i \in Mmaps
  BY <1>1, PipelineAssumption DEF TypeInv, TypeOK, Control, Reading, Mmaps
<1>3. r \in Rings
  BY Zenon, <1>2 DEF Rings
<1> HIDE DEF r
<1>4. prev[r] - tail[r] = 0 /\ prev[r] \in Nat /\ tail[r] \in Nat
  BY Zenon, <1>1, <1>3, RingTypes DEF RingInv, SpaceReturned, TypeInv
<1>5. prev[r] = tail[r]
  BY <1>4
<1>6. [tail EXCEPT ![r] = prev[r]] = tail
  BY Zenon, <1>3, <1>5 DEF TypeInv, TypeOK
<1> QED
  BY Zenon, <1>1, <1>2, <1>3, <1>6 DEF r

\* mmap_read_top returns a record of the ring it chose: md->prev moves by
\* one, and the record stays in the ring unless it did not parse.
ReadEffect ==
  LET r == <<cur, idx>>
  IN  /\ r \in Rings /\ pc = "scan" /\ i = NrMmaps + 1 /\ idx \in Mmaps
      /\ prev[r] < Len(data[r])
      /\ prev' = [prev EXCEPT ![r] = prev[r] + 1]
      /\ UNCHANGED <<kernelVars, evlist, sig, batch, drain, flushing, cur>>
      /\ \/ /\ tail' = tail
            /\ pc' \in Processing /\ UNCHANGED <<idx, stop>>
            /\ Front(r).kind # "bad"
         \/ /\ tail' = [tail EXCEPT ![r] = prev[r] + 1]
            /\ Front(r).kind = "bad"
            /\ Return("bad")

\* What mmap_read_top and the dispatch do to the ends of the ring.
LEMMA ReadTopEffect ==
  ASSUME TypeInv, ReadTop
  PROVE  ReadEffect
<1> DEFINE r == <<cur, idx>>
<1>1. /\ pc = "scan" /\ idx # 0 /\ i > NrMmaps
      /\ prev' = Advanced(r)
      /\ tail' = TailAtDispatch(r)
      /\ UNCHANGED <<kernelVars, evlist, sig, batch, drain, flushing, cur>>
  BY Zenon DEF ReadTop
<1>2. \/ Front(r).kind = "bad" /\ Return("bad")
      \/ /\ Front(r).kind # "bad" /\ UNCHANGED <<idx, stop>>
         /\ pc' \in Processing
  BY Zenon DEF ReadTop, readVars, Processing
<1>3. cur \in Handles /\ idx \in Mmaps /\ i = NrMmaps + 1
  BY <1>1, PipelineAssumption DEF TypeInv, TypeOK, Control, Reading, Mmaps
<1>4. r \in Rings
  BY Zenon, <1>3 DEF Rings
<1>5. prev[r] < Len(data[r])
  BY Zenon, <1>1 DEF TypeInv, Control
<1>6. tail' = IF Front(r).kind = "bad" THEN [tail EXCEPT ![r] = prev[r] + 1]
              ELSE tail
  BY Zenon, <1>1 DEF TailAtDispatch
<1>7. prev' = [prev EXCEPT ![r] = prev[r] + 1]
  BY Zenon, <1>1, <1>4 DEF Advanced, TypeInv, TypeOK
<1> QED
  BY Zenon, <1>1, <1>2, <1>3, <1>4, <1>5, <1>6, <1>7 DEF ReadEffect

\* Reading a record leaves at most that record to be given back.
LEMMA ReadTopRing ==
  ASSUME TypeInv, RingInv, ReadTop
  PROVE  RingInv'
<1> DEFINE r == <<cur, idx>>
<1>1. ReadEffect
  BY Zenon, ReadTopEffect
<1>2. /\ r \in Rings /\ pc = "scan" /\ prev[r] < Len(data[r])
      /\ prev' = [prev EXCEPT ![r] = prev[r] + 1]
      /\ UNCHANGED <<data, cur>>
  BY Zenon, <1>1 DEF ReadEffect, kernelVars
<1>3. ASSUME NEW q \in Rings
      PROVE  /\ prev[q] \in Nat /\ Len(data[q]) \in Nat /\ tail[q] \in Nat
             /\ prev[q] <= Len(data[q]) /\ Len(data[q]) - tail[q] <= Capacity
             /\ prev[q] = tail[q]
  <2>1. prev[q] \in Nat /\ Len(data[q]) \in Nat /\ tail[q] \in Nat
    BY Zenon, RingTypes DEF TypeInv
  <2>2. /\ prev[q] <= Len(data[q]) /\ Len(data[q]) - tail[q] <= Capacity
        /\ prev[q] - tail[q] = 0
    BY Zenon, <1>2 DEF RingInv, SpaceReturned
  <2> QED
    BY <2>1, <2>2
<1>4. prev \in [Rings -> Nat] /\ tail \in [Rings -> Nat] /\ Capacity \in Nat
  BY Zenon, PipelineAssumption DEF TypeInv, TypeOK
<1>5. \A q \in Rings : prev'[q] = IF q = r THEN prev[q] + 1 ELSE prev[q]
  BY Zenon, <1>2, <1>4
<1>6. \A q \in Rings : prev'[q] <= Len(data'[q])
  BY <1>2, <1>3, <1>5
<1>7. CASE tail' = tail /\ pc' \in Processing /\ idx' = idx
  <2>1. \A q \in Rings : prev'[q] - tail'[q] = IF q = r THEN 1 ELSE 0
    BY <1>3, <1>5, <1>7
  <2> QED
    BY Zenon, <1>2, <1>3, <1>6, <1>7, <2>1 DEF RingInv, SpaceReturned, Processing
<1>8. CASE tail' = [tail EXCEPT ![r] = prev[r] + 1] /\ Return("bad")
  <2>1. \A q \in Rings : tail'[q] = IF q = r THEN prev[q] + 1 ELSE tail[q]
    BY Zenon, <1>4, <1>8
  <2>2. \A q \in Rings : prev'[q] - tail'[q] = 0
    BY <1>3, <1>5, <2>1
  <2>3. \A q \in Rings : Len(data'[q]) - tail'[q] <= Capacity
    <3> SUFFICES ASSUME NEW q \in Rings
                 PROVE  Len(data'[q]) - tail'[q] <= Capacity
      OBVIOUS
    <3>1. tail'[q] \in {tail[q], tail[q] + 1}
      BY Zenon, <1>3, <2>1
    <3> QED
      BY <1>2, <1>3, <1>4, <3>1
  <2>4. pc' \notin {"callback", "consume"}
    BY Zenon, <1>8 DEF Return
  <2> QED
    BY Zenon, <1>6, <2>2, <2>3, <2>4 DEF RingInv, SpaceReturned
<1> QED
  BY Zenon, <1>1, <1>7, <1>8 DEF ReadEffect

\* What mmap_consume does to the ends of the ring.
LEMMA ConsumeEffect ==
  ASSUME TypeInv, RingInv, Consume
  PROVE  /\ UNCHANGED <<data, prev, cur>> /\ pc = "consume" /\ pc' = "while"
         /\ <<cur, idx>> \in Rings
         /\ \A q \in Rings : tail'[q] = prev[q]
<1> DEFINE r == <<cur, idx>>
<1>1. /\ UNCHANGED <<data, prev, cur>> /\ pc = "consume" /\ pc' = "while"
      /\ tail' = [tail EXCEPT ![r] = prev[r]]
  BY Zenon DEF Consume, kernelVars, loopVars
<1>2. r \in Rings
  BY <1>1 DEF TypeInv, TypeOK, Control, Reading, Rings, Mmaps
<1>3. ASSUME NEW q \in Rings PROVE tail'[q] = prev[q]
  <2>1. prev[q] \in Nat /\ tail[q] \in Nat
    BY Zenon, RingTypes DEF TypeInv
  <2>2. q # r => prev[q] - tail[q] = 0
    BY Zenon, <1>1 DEF RingInv, SpaceReturned
  <2>3. q # r => tail[q] = prev[q]
    BY <2>1, <2>2
  <2> QED
    BY Zenon, <1>1, <1>2, <2>3 DEF TypeInv, TypeOK
<1> QED
  BY Zenon, <1>1, <1>2, <1>3

\* mmap_consume gives back exactly what was read.
LEMMA ConsumeRing ==
  ASSUME TypeInv, RingInv, Consume
  PROVE  RingInv'
<1>1. /\ UNCHANGED <<data, prev, cur>> /\ pc' = "while"
      /\ \A q \in Rings : tail'[q] = prev[q]
  BY Zenon, ConsumeEffect
<1>2. ASSUME NEW q \in Rings
      PROVE  /\ prev[q] <= Len(data[q]) /\ Len(data[q]) - prev[q] <= Capacity
             /\ prev[q] - prev[q] = 0
  <2>1. prev[q] \in Nat /\ Len(data[q]) \in Nat /\ tail[q] \in Nat
    BY Zenon, RingTypes DEF TypeInv
  <2>2. prev[q] <= Len(data[q]) /\ Len(data[q]) - tail[q] <= Capacity
    BY Zenon DEF RingInv
  <2>3. pc = "consume"
    BY Zenon DEF Consume
  <2>4. prev[q] - tail[q] \in {0, 1}
    BY Zenon, <2>3 DEF RingInv, SpaceReturned
  <2> QED
    BY <2>1, <2>2, <2>4, PipelineAssumption
<1> QED
  BY Zenon, <1>1, <1>2 DEF RingInv, SpaceReturned

\* The other steps do not move the ends of a ring.
LEMMA QuietRing ==
  ASSUME RingInv, Quiet
  PROVE  RingInv'
BY Zenon, QuietEffect DEF RingInv, SpaceReturned, Processing

\* Every step keeps the ends of the rings in order.
LEMMA RingInductive == TypeInv /\ RingInv /\ [Next]_vars => RingInv'
<1> SUFFICES ASSUME TypeInv, RingInv, [Next]_vars PROVE RingInv'
  OBVIOUS
<1>1. CASE ScanMmap
  BY Zenon, <1>1, ScanEffect DEF RingInv, SpaceReturned
<1> QED
  BY Zenon, <1>1, NextCases, KernelRing, ReadTopRing, ConsumeRing, QuietRing

\* The facts about types and rings hold throughout.
LEMMA RingCorrect == Spec => [](TypeInv /\ RingInv)
BY InitType, TypeInductive, InitRing, RingInductive, PTL DEF Spec

\* Ring space is never leaked, on any path through mmap_read_consume and
\* mmap_read_top.
THEOREM SpaceAlwaysReturned == Spec => []SpaceReturned
<1>1. RingInv => SpaceReturned
  BY Zenon DEF RingInv
<1> QED
  BY <1>1, RingCorrect, PTL

\* The kernel never overwrites the record a callback works on.
THEOREM CallbackSafe == Spec => []CallbackRecordIntact
<1>1. TypeInv /\ RingInv => CallbackRecordIntact
  <2> SUFFICES ASSUME TypeInv, RingInv, pc = "callback"
               PROVE  prev[<<cur, idx>>] > Len(data[<<cur, idx>>]) - Capacity
    BY Zenon DEF CallbackRecordIntact
  <2>1. <<cur, idx>> \in Rings
    BY DEF TypeInv, TypeOK, Control, Reading, Rings, Mmaps
  <2>2. /\ prev[<<cur, idx>>] \in Nat /\ tail[<<cur, idx>>] \in Nat
        /\ Len(data[<<cur, idx>>]) \in Nat
    BY Zenon, <2>1, RingTypes DEF TypeInv
  <2>3. /\ prev[<<cur, idx>>] - tail[<<cur, idx>>] = 1
        /\ Len(data[<<cur, idx>>]) - tail[<<cur, idx>>] <= Capacity
    BY Zenon, <2>1 DEF RingInv, SpaceReturned
  <2> QED
    BY <2>2, <2>3, PipelineAssumption
<1> QED
  BY <1>1, RingCorrect, PTL

-----------------------------------------------------------------------------
(* The pipeline implements its scheduling, for every instance.             *)

\* The counter of mmap_read_consume is a local: it is 0 outside of it.  Only
\* handles that were opened are flushed.
CountInv ==
  /\ pc \notin Reading \cup {"exited"} => nr_read = 0
  /\ \A h \in drain : evlist[h] # "closed"

\* mmap_read_consume resets its counter however it returns.
LEMMA CountInductive ==
  ASSUME TypeInv, CountInv, [Next]_vars
  PROVE  CountInv'
<1> USE DEF CountInv, Reading, TypeInv, TypeOK
<1>1. ASSUME NEW r \in Rings, KernelWrite(r) \/ PollCallback(r)
      PROVE  CountInv'
  BY Zenon, <1>1 DEF KernelWrite, PollCallback, readVars, loopVars
<1>2. ASSUME NEW h \in Handles, Open(h) \/ Enable(h) \/ Flush(h)
      PROVE  CountInv'
  BY Zenon, <1>2 DEF Open, Enable, Flush, Disabled, readVars, loopVars
<1>3. ASSUME Interrupt \/ OpenFails \/ StartLoop \/ EpollWait \/ BatchDone \/ Exit
      PROVE  CountInv'
  BY Zenon, <1>3 DEF Interrupt, OpenFails, StartLoop, EpollWait, BatchDone, Exit,
              readVars, loopVars
<1>4. ASSUME Register \/ CallEnd PROVE CountInv'
  BY Zenon, <1>4 DEF Register, CallEnd, readVars, loopVars
<1>5. ASSUME While \/ ReadNothing \/ ReadTop
      PROVE  CountInv'
  BY Zenon, <1>5 DEF While, ReadNothing, ReadTop, Return, readVars
<1>6. ASSUME ScanMmap \/ CallbackReturns \/ CallbackRaises \/ Consume
      PROVE  CountInv'
  BY Zenon, <1>6 DEF ScanMmap, CallbackReturns, CallbackRaises, Consume, readVars,
              loopVars
<1>7. ASSUME UNCHANGED vars PROVE CountInv'
  BY Zenon, <1>7 DEF vars, readVars, loopVars
<1> QED
  BY Zenon, <1>1, <1>2, <1>3, <1>4, <1>5, <1>6, <1>7 DEF Next, Reader, Exited

MapInv == TypeInv /\ RingInv /\ CountInv

\* Which variables of the pipeline the variables of the schedule depend on.
LEMMA BarFrame ==
  /\ evlist' = evlist => openedBar' = openedBar /\ enabledBar' = enabledBar
  /\ UNCHANGED <<data, prev>> => unreadBar' = unreadBar
  /\ poll' = poll => Readable' = Readable
  /\ UNCHANGED <<pc, idx>> => heldBar' = heldBar
  /\ UNCHANGED <<flushing, nr_read>> => nr_readBar' = nr_readBar
<1>1. evlist' = evlist => openedBar' = openedBar /\ enabledBar' = enabledBar
  BY Zenon DEF openedBar, enabledBar
<1>2. UNCHANGED <<data, prev>> => unreadBar' = unreadBar
  BY Zenon DEF unreadBar
<1>3. poll' = poll => Readable' = Readable
  BY Zenon DEF Readable
<1>4. UNCHANGED <<pc, idx>> => heldBar' = heldBar
  BY Zenon DEF heldBar
<1>5. UNCHANGED <<flushing, nr_read>> => nr_readBar' = nr_readBar
  BY DEF nr_readBar
<1> QED
  BY Zenon, <1>1, <1>2, <1>3, <1>4, <1>5

\* No record is being processed outside of the callback and mmap_consume.
LEMMA BarIdle ==
  /\ pc \notin Processing => heldBar = 0
  /\ pc' \notin Processing => heldBar' = 0
BY Zenon DEF heldBar, Processing

\* The two specifications speak of the same rings.
LEMMA SameParams == Sched!Mmaps = Mmaps /\ Sched!Rings = Rings
BY Zenon DEF Sched!Mmaps, Mmaps, Sched!Rings, Rings

\* The pipeline starts where the schedule starts.
LEMMA InitMaps == Init => Sched!Init
<1> SUFFICES ASSUME Init PROVE Sched!Init
  OBVIOUS
<1>1. openedBar = {} /\ enabledBar = {} /\ Readable = {}
  BY Zenon DEF Init, openedBar, enabledBar, Readable
<1>2. unreadBar = [r \in Rings |-> 0]
  <2>1. \A r \in Rings : Len(data[r]) - prev[r] = 0
    BY DEF Init
  <2> QED
    BY Zenon, <2>1 DEF unreadBar
<1>3. heldBar = 0 /\ nr_readBar = 0
  BY Zenon DEF Init, heldBar, nr_readBar
<1> QED
  BY Zenon, <1>1, <1>2, <1>3, SameParams DEF Init, Sched!Init

\* A write of the kernel: the number of records is 1 or 2, and the room it
\* finds is what the schedule says.
LEMMA KernelMaps ==
  ASSUME MapInv, NEW r \in Rings, KernelWrite(r)
  PROVE  Sched!KernelWrite(r) \/ UNCHANGED Sched!vars
<1>1. PICK t \in {now, now + 1}, k \in Kinds : Reserve(r, k, t) \/ Drop(r)
  BY Zenon DEF KernelWrite
<1>2. /\ evlist[r[1]] = "enabled" /\ pc # "exited"
      /\ UNCHANGED <<prev, tail, evlist, pc, idx, nr_read, sig, batch, drain,
                     flushing, cur>>
  BY Zenon DEF KernelWrite, readVars, loopVars
<1>3. /\ openedBar' = openedBar /\ enabledBar' = enabledBar
      /\ heldBar' = heldBar /\ nr_readBar' = nr_readBar
  BY Zenon, <1>2, BarFrame
<1>4. CASE Drop(r)
  <2>1. unreadBar' = unreadBar /\ Readable' = Readable
    BY Zenon, <1>2, <1>4, BarFrame DEF Drop
  <2> QED
    BY Zenon, <1>2, <1>3, <2>1 DEF Sched!vars
<1>5. CASE Reserve(r, k, t)
  <2> DEFINE new == (IF lost[r] = 0 THEN << >>
                     ELSE <<[kind |-> "lost", time |-> t, n |-> lost[r]]>>)
                    \o <<[kind |-> k, time |-> t, n |-> 0]>>
             n == Len(new)
  <2>1. /\ data' = [data EXCEPT ![r] = @ \o new]
        /\ Len(data[r]) + n - tail[r] <= Capacity
        /\ poll' = [poll EXCEPT ![r] = @ \/ k # "other"]
    BY Zenon, <1>5 DEF Reserve
  <2>2. n \in {1, 2} /\ new \in Seq(Record)
    <3>1. t \in Nat /\ lost[r] \in Nat
          /\ k \in {"sample", "other", "bad", "notime", "lost"}
      BY PipelineAssumption, RingTypes DEF MapInv, TypeInv, TypeOK
    <3> DEFINE a == [kind |-> "lost", time |-> t, n |-> lost[r]]
               b == [kind |-> k, time |-> t, n |-> 0]
    <3>2. a \in Record /\ b \in Record
      BY Zenon, <3>1 DEF Record
    <3> HIDE DEF a, b
    <3>3. /\ <<a>> \in Seq(Record) /\ Len(<<a>>) = 1
          /\ <<b>> \in Seq(Record) /\ Len(<<b>>) = 1
          /\ << >> \in Seq(Record) /\ Len(<< >>) = 0
      BY <3>2
    <3>4. new = (IF lost[r] = 0 THEN << >> ELSE <<a>>) \o <<b>>
      BY Zenon DEF a, b
    <3> HIDE DEF new
    <3>5. CASE lost[r] = 0
      BY <3>3, <3>4, <3>5
    <3>6. CASE lost[r] # 0
      BY <3>3, <3>4, <3>6
    <3> QED
      BY Zenon, <3>5, <3>6
  <2> HIDE DEF new
  <2>3. /\ data[r] \in Seq(Record) /\ Len(data[r]) \in Nat
        /\ prev[r] \in Nat /\ tail[r] \in Nat
    BY Zenon, RingTypes DEF MapInv, TypeInv
  <2>4. Len(data'[r]) = Len(data[r]) + n
    <3>1. data'[r] = data[r] \o new
      BY Zenon, <2>1 DEF MapInv, TypeInv, TypeOK
    <3> QED
      BY <2>2, <2>3, <3>1
  <2>5. \A q \in Rings : q # r => data'[q] = data[q]
    BY Zenon, <2>1 DEF MapInv, TypeInv, TypeOK
  <2>6. unreadBar[r] = Len(data[r]) - prev[r]
    BY Zenon DEF unreadBar
  <2>7. unreadBar' = [unreadBar EXCEPT ![r] = @ + n]
    <3>1. Len(data'[r]) - prev'[r] = unreadBar[r] + n
      <4> PICK l \in Nat, p \in Nat, m \in Nat :
            l = Len(data[r]) /\ p = prev[r] /\ m = n
        BY Zenon, <2>2, <2>3
      <4>1. Len(data'[r]) = l + m /\ prev'[r] = p
        BY Zenon, <1>2, <2>4
      <4>2. unreadBar[r] + n = (l - p) + m
        BY Zenon, <2>6
      <4>3. (l + m) - p = (l - p) + m
        OBVIOUS
      <4> QED
        BY Zenon, <4>1, <4>2, <4>3
    <3>2. \A q \in Rings : q # r => Len(data'[q]) - prev'[q] = Len(data[q]) - prev[q]
      BY Zenon, <1>2, <2>5
    <3>3. \A q \in Rings : Len(data'[q]) - prev'[q] =
            IF q = r THEN unreadBar[r] + n ELSE unreadBar[q]
      BY Zenon, <3>1, <3>2 DEF unreadBar
    <3>4. unreadBar' = [q \in Rings |-> IF q = r THEN unreadBar[r] + n
                                       ELSE unreadBar[q]]
      BY Zenon, <3>3 DEF unreadBar
    <3> QED
      BY Zenon, <3>4 DEF unreadBar
  <2>8. prev[r] - tail[r] =
          IF heldBar # 0 /\ r = <<cur, heldBar>> THEN 1 ELSE 0
    <3>1. pc \in Processing => idx # 0
      BY Zenon DEF MapInv, TypeInv, Control, Processing
    <3> QED
      BY Zenon, <1>2, <3>1 DEF MapInv, RingInv, SpaceReturned, heldBar, Processing
  <2>9. unreadBar[r] + n + (IF heldBar # 0 /\ r = <<cur, heldBar>> THEN 1 ELSE 0)
          <= Capacity
    <3> DEFINE x == IF heldBar # 0 /\ r = <<cur, heldBar>> THEN 1 ELSE 0
    <3> PICK l \in Nat, p \in Nat, t1 \in Nat :
          l = Len(data[r]) /\ p = prev[r] /\ t1 = tail[r]
      BY Zenon, <2>3
    <3>1. p - t1 = x /\ x \in {0, 1}
      BY Zenon, <2>8
    <3>2. unreadBar[r] = l - p
      BY Zenon, <2>6
    <3> HIDE DEF x
    <3>3. l - p + n + x = l - t1 + n
      <4> PICK m \in Nat, y \in {0, 1} : m = n /\ y = x
        BY Zenon, <2>2, <3>1
      <4>1. p - t1 = y
        BY Zenon, <3>1
      <4>2. l - p + m + y = l - t1 + m
        BY ONLY <4>1, l \in Nat, p \in Nat, t1 \in Nat, m \in Nat, y \in {0, 1}
      <4> QED
        BY Zenon, <4>2
    <3>4. l - t1 + n <= Capacity
      <4>1. Capacity \in Nat /\ l + n - t1 <= Capacity
        BY Zenon, <2>1, PipelineAssumption
      <4> QED
        BY ONLY <4>1, <2>2, l \in Nat, t1 \in Nat
    <3> QED
      BY Zenon, <3>2, <3>3, <3>4 DEF x
  <2>10. Readable' \in {Readable, Readable \cup {r}}
    BY Zenon, <2>1 DEF Readable, MapInv, TypeInv, TypeOK
  <2>11. r[1] \in enabledBar
    BY Zenon, <1>2 DEF enabledBar, Rings
  <2> QED
    BY Zenon, <1>2, <1>3, <2>2, <2>7, <2>9, <2>10, <2>11 DEF Sched!KernelWrite
<1> QED
  BY Zenon, <1>1, <1>4, <1>5

\* perf.on, the timers that enable the events, and the end notification.
LEMMA EvlistMaps ==
  ASSUME MapInv, NEW h \in Handles, Open(h) \/ Enable(h) \/ Flush(h)
  PROVE  Sched!Open(h) \/ Sched!Enable(h) \/ Sched!Flush(h)
<1>1. evlist \in [Handles -> EvlistState]
  BY Zenon DEF MapInv, TypeInv, TypeOK
<1>2. CASE Open(h)
  <2>1. /\ pc = "script" \/ (pc = "callback" /\ ~flushing)
        /\ evlist[h] = "closed" /\ evlist' = [evlist EXCEPT ![h] = "open"]
        /\ UNCHANGED <<data, prev, poll, pc, idx, nr_read, sig, batch, drain,
                       flushing, cur>>
    BY Zenon, <1>2 DEF Open, kernelVars, readVars
  <2>2. openedBar' = openedBar \cup {h} /\ h \notin openedBar
    BY Zenon, <1>1, <2>1 DEF openedBar
  <2>3. enabledBar' = enabledBar
    BY Zenon, <1>1, <2>1 DEF enabledBar
  <2> QED
    BY Zenon, <2>1, <2>2, <2>3, BarFrame DEF Sched!Open
<1>3. CASE Enable(h)
  <2>1. /\ pc = "idle"
        /\ evlist[h] = "polled" /\ evlist' = [evlist EXCEPT ![h] = "enabled"]
        /\ UNCHANGED <<data, prev, poll, pc, idx, nr_read, sig, batch, drain,
                       flushing, cur>>
    BY Zenon, <1>3 DEF Enable, kernelVars, readVars, loopVars
  <2>2. enabledBar' = enabledBar \cup {h} /\ h \in openedBar \ enabledBar
    BY Zenon, <1>1, <2>1 DEF enabledBar, openedBar
  <2>3. openedBar' = openedBar
    BY Zenon, <1>1, <2>1 DEF openedBar
  <2> QED
    BY Zenon, <2>1, <2>2, <2>3, BarFrame DEF Sched!Enable
<1>4. CASE Flush(h)
  <2>1. /\ pc = "notify" /\ h \in drain /\ drain' = drain \ {h}
        /\ evlist' = [evlist EXCEPT ![h] = "disabled"]
        /\ cur' = h /\ flushing' = TRUE /\ pc' = "while"
        /\ UNCHANGED <<data, prev, poll, nr_read, sig, batch>>
    BY Zenon, <1>4 DEF Flush, Disabled, kernelVars, readVars
  <2>2. evlist[h] # "closed" /\ nr_read = 0
    BY Zenon, <2>1 DEF MapInv, CountInv, Reading
  <2>3. enabledBar' = enabledBar \ {h} /\ openedBar' = openedBar
    BY Zenon, <1>1, <2>1, <2>2 DEF enabledBar, openedBar
  <2>4. heldBar = 0 /\ heldBar' = 0 /\ nr_readBar = 0 /\ nr_readBar' = 0
    BY Zenon, <2>1, <2>2 DEF heldBar, nr_readBar
  <2>5. Readable' = Readable /\ unreadBar' = unreadBar
    BY Zenon, <2>1, BarFrame
  <2> QED
    BY Zenon, <2>1, <2>3, <2>4, <2>5 DEF Sched!Flush, Sched!Disabled
<1> QED
  BY Zenon, <1>2, <1>3, <1>4

\* The event loop.
LEMMA LoopMaps ==
  ASSUME MapInv,
         \/ \E r \in Rings : PollCallback(r)
         \/ Interrupt \/ OpenFails \/ StartLoop \/ Register \/ EpollWait
         \/ BatchDone \/ CallEnd \/ Exit
  PROVE  Sched!Next \/ UNCHANGED Sched!vars
<1>1. ASSUME NEW r \in Rings, PollCallback(r) PROVE Sched!Next
  <2>1. /\ pc = "batch" /\ r \in batch /\ batch' = batch \ {r}
        /\ cur' = r[1] /\ flushing' = FALSE /\ pc' = "while"
        /\ UNCHANGED <<data, prev, poll, evlist, nr_read, sig, drain>>
    BY Zenon, <1>1 DEF PollCallback, EvlistOf, kernelVars, readVars
  <2>2. nr_read = 0
    BY Zenon, <2>1 DEF MapInv, CountInv, Reading
  <2>3. heldBar = 0 /\ heldBar' = 0 /\ nr_readBar = 0 /\ nr_readBar' = 0
    BY Zenon, <2>1, <2>2 DEF heldBar, nr_readBar
  <2>4. /\ Readable' = Readable /\ unreadBar' = unreadBar
        /\ openedBar' = openedBar /\ enabledBar' = enabledBar
    BY Zenon, <2>1, BarFrame
  <2>5. Sched!PollCallback(r)
    BY Zenon, <2>1, <2>3, <2>4 DEF Sched!PollCallback
  <2> QED
    BY Zenon, <2>5, SameParams DEF Sched!Next, Sched!Process
<1>2. CASE Interrupt
  <2>1. /\ pc \notin {"script", "exited"} /\ sig = "none" /\ sig' = "pending"
        /\ UNCHANGED <<data, prev, poll, evlist, pc, idx, nr_read, batch,
                       drain, flushing, cur>>
    BY Zenon, <1>2 DEF Interrupt, kernelVars, readVars
  <2>2. Sched!Interrupt
    BY Zenon, <2>1, BarFrame DEF Sched!Interrupt
  <2> QED
    BY Zenon, <2>2 DEF Sched!Next
<1>3. CASE OpenFails
  <2>1. /\ pc \in {"script", "callback"} /\ pc' = "exited"
        /\ UNCHANGED <<data, prev, poll, evlist, nr_read, sig, batch,
                       drain, flushing, cur>>
    BY Zenon, <1>3 DEF OpenFails, kernelVars, readVars, loopVars
  <2>2. heldBar' = 0
    BY Zenon, <2>1 DEF heldBar
  <2>3. Sched!Abort
    BY Zenon, <2>1, <2>2, BarFrame DEF Sched!Abort
  <2> QED
    BY Zenon, <2>3 DEF Sched!Next
<1>4. CASE StartLoop \/ BatchDone \/ Exit
  <2>1. /\ \/ pc = "script" /\ pc' = "idle"
           \/ pc = "batch" /\ batch = {} /\ sig # "reported" /\ pc' = "idle"
           \/ pc = "notify" /\ drain = {} /\ pc' = "exited"
        /\ UNCHANGED <<data, prev, poll, evlist, nr_read, sig, batch,
                       drain, flushing, cur>>
    BY Zenon, <1>4 DEF StartLoop, BatchDone, Exit, kernelVars, readVars, loopVars
  <2>2. heldBar = 0 /\ heldBar' = 0
    BY Zenon, <2>1 DEF heldBar
  <2>3. Sched!StartLoop \/ Sched!BatchDone \/ Sched!Exit
    BY Zenon, <2>1, <2>2, BarFrame DEF Sched!StartLoop, Sched!BatchDone, Sched!Exit
  <2> QED
    BY Zenon, <2>3 DEF Sched!Next, Sched!Process
<1>5. CASE Register
  <2>1. UNCHANGED <<data, prev, poll, pc, idx, nr_read, sig, batch, drain,
                    flushing, cur>>
    BY Zenon, <1>5 DEF Register, kernelVars, readVars, loopVars
  <2>2. openedBar' = openedBar /\ enabledBar' = enabledBar
    BY Zenon, <1>5 DEF Register, openedBar, enabledBar
  <2> QED
    BY Zenon, <2>1, <2>2, BarFrame DEF Sched!vars
<1>6. CASE EpollWait
  <2>1. /\ pc = "idle" /\ (Readable # {} \/ sig = "pending")
        /\ batch' = Readable /\ pc' = "batch"
        /\ sig' = IF sig = "pending" THEN "reported" ELSE sig
        /\ UNCHANGED <<data, prev, evlist, nr_read, drain, flushing, cur>>
    BY Zenon, <1>6 DEF EpollWait, readVars
  <2>2. heldBar = 0 /\ heldBar' = 0
    BY Zenon, <2>1 DEF heldBar
  <2>3. Readable' = {}
    BY Zenon, <1>6 DEF EpollWait, Readable
  <2>4. Sched!EpollWait
    BY Zenon, <2>1, <2>2, <2>3, BarFrame DEF Sched!EpollWait
  <2> QED
    BY Zenon, <2>4 DEF Sched!Next, Sched!Process
<1>7. CASE CallEnd
  <2>1. /\ pc = "batch" /\ sig = "reported" /\ drain' = openedBar
        /\ pc' = "notify"
        /\ UNCHANGED <<data, prev, poll, evlist, nr_read, sig, batch,
                       flushing, cur>>
    BY Zenon, <1>7 DEF CallEnd, openedBar, kernelVars, readVars
  <2>2. heldBar = 0 /\ heldBar' = 0
    BY Zenon, <2>1 DEF heldBar
  <2>3. Sched!CallEnd
    BY Zenon, <2>1, <2>2, BarFrame DEF Sched!CallEnd
  <2> QED
    BY Zenon, <2>3 DEF Sched!Next, Sched!Process
<1> QED
  BY Zenon, <1>1, <1>2, <1>3, <1>4, <1>5, <1>6, <1>7

\* mmap_read_consume and mmap_read_top.
LEMMA ReaderMaps ==
  ASSUME MapInv, Reader
  PROVE  Sched!Next \/ UNCHANGED Sched!vars
<1>1. CASE While
  <2>1. /\ pc = "while"
        /\ UNCHANGED <<data, prev, poll, evlist, sig, batch, drain, flushing, cur>>
        /\ \/ BelowLimit /\ nr_read' = nr_read + 1 /\ pc' = "scan"
           \/ /\ ~BelowLimit /\ nr_read' = 0
              /\ pc' = IF flushing THEN "notify" ELSE "batch"
    BY Zenon, <1>1 DEF While, Return, kernelVars
  <2>2. heldBar = 0 /\ heldBar' = 0
    BY Zenon, <2>1 DEF heldBar
  <2>3. Sched!BelowLimit <=> BelowLimit
    BY Zenon DEF Sched!BelowLimit, BelowLimit, nr_readBar
  <2>4. \/ /\ BelowLimit /\ pc' = "scan"
           /\ nr_readBar' = IF flushing THEN 0 ELSE nr_readBar + 1
        \/ /\ ~BelowLimit /\ nr_readBar' = 0
           /\ pc' = IF flushing THEN "notify" ELSE "batch"
    BY Zenon, <2>1 DEF nr_readBar
  <2>5. Sched!While
    BY Zenon, <2>1, <2>2, <2>3, <2>4, BarFrame DEF Sched!While, Sched!Return
  <2> QED
    BY Zenon, <2>5 DEF Sched!Next, Sched!Process
<1>2. CASE ScanMmap
  <2>1. UNCHANGED <<data, prev, pc, cur>> /\ pc = "scan"
    BY Zenon, <1>2, ScanEffect DEF MapInv
  <2>2. UNCHANGED <<poll, evlist, nr_read, sig, batch, drain, flushing>>
    BY Zenon, <1>2 DEF ScanMmap, kernelVars, loopVars
  <2>3. heldBar = 0 /\ heldBar' = 0
    BY Zenon, <2>1 DEF heldBar
  <2> QED
    BY Zenon, <2>1, <2>2, <2>3, BarFrame DEF Sched!vars
<1>3. CASE ReadNothing
  <2>1. /\ pc = "scan" /\ nr_read' = 0
        /\ pc' = IF flushing THEN "notify" ELSE "batch"
        /\ UNCHANGED <<data, prev, poll, evlist, sig, batch, drain, flushing, cur>>
    BY Zenon, <1>3 DEF ReadNothing, Return, kernelVars
  <2>2. heldBar = 0 /\ heldBar' = 0 /\ nr_readBar' = 0
    BY Zenon, <2>1 DEF heldBar, nr_readBar
  <2>3. Sched!ReadNothing
    BY Zenon, <2>1, <2>2, BarFrame DEF Sched!ReadNothing, Sched!Return
  <2> QED
    BY Zenon, <2>3 DEF Sched!Next, Sched!Process
<1>4. CASE ReadTop
  <2> DEFINE r == <<cur, idx>>
  <2>1. ReadEffect
    BY Zenon, <1>4, ReadTopEffect DEF MapInv
  <2>2. /\ r \in Rings /\ pc = "scan" /\ idx \in Mmaps
        /\ prev[r] < Len(data[r])
        /\ prev' = [prev EXCEPT ![r] = prev[r] + 1]
        /\ UNCHANGED <<data, poll, evlist, sig, batch, drain, flushing, cur>>
    BY Zenon, <2>1 DEF ReadEffect, kernelVars
  <2>3. heldBar = 0
    BY Zenon, <2>2 DEF heldBar
  <2>4. prev[r] \in Nat /\ Len(data[r]) \in Nat
    BY Zenon, <2>2, RingTypes DEF MapInv, TypeInv
  <2>5. unreadBar[r] = Len(data[r]) - prev[r] /\ unreadBar[r] > 0
    BY <2>2, <2>4 DEF unreadBar
  <2>6. unreadBar' = [unreadBar EXCEPT ![r] = @ - 1]
    <3>1. prev'[r] = prev[r] + 1 /\ \A q \in Rings : q # r => prev'[q] = prev[q]
      BY Zenon, <2>2 DEF MapInv, TypeInv, TypeOK
    <3>2. Len(data'[r]) - prev'[r] = unreadBar[r] - 1
      <4> PICK l \in Nat, p \in Nat : l = Len(data[r]) /\ p = prev[r]
        BY Zenon, <2>4
      <4>1. Len(data'[r]) = l /\ prev'[r] = p + 1
        BY Zenon, <2>2, <3>1
      <4>2. unreadBar[r] - 1 = (l - p) - 1
        BY Zenon, <2>5
      <4>3. l - (p + 1) = (l - p) - 1
        OBVIOUS
      <4> QED
        BY Zenon, <4>1, <4>2, <4>3
    <3>3. ASSUME NEW q \in Rings
          PROVE  Len(data'[q]) - prev'[q] =
                   IF q = r THEN unreadBar[r] - 1 ELSE unreadBar[q]
      BY <2>2, <3>1, <3>2 DEF unreadBar
    <3>4. unreadBar' = [q \in Rings |-> IF q = r THEN unreadBar[r] - 1
                                       ELSE unreadBar[q]]
      BY Zenon, <3>3 DEF unreadBar
    <3> QED
      BY Zenon, <2>2, <3>4 DEF unreadBar
  <2>7. /\ openedBar' = openedBar /\ enabledBar' = enabledBar
        /\ Readable' = Readable
    BY Zenon, <2>2, BarFrame
  <2>8. \/ Sched!Return /\ heldBar' = heldBar
        \/ /\ heldBar' = idx /\ pc' \in {"callback", "consume"}
           /\ nr_readBar' = nr_readBar
    <3>1. CASE Return("bad")
      BY Zenon, <2>2, <2>3, <3>1 DEF Return, Sched!Return, heldBar, nr_readBar
    <3>2. CASE pc' \in Processing /\ idx' = idx
      <4>1. nr_read' = nr_read
        BY Zenon, <1>4, <3>2 DEF ReadTop, Return, readVars, Processing
      <4> QED
        BY Zenon, <2>2, <3>2, <4>1 DEF heldBar, nr_readBar, Processing
    <3> QED
      BY Zenon, <2>1, <3>1, <3>2 DEF ReadEffect
  <2>9. Sched!ReadTop
    BY Zenon, <2>2, <2>5, <2>6, <2>7, <2>8, SameParams DEF Sched!ReadTop
  <2> QED
    BY Zenon, <2>9 DEF Sched!Next, Sched!Process
<1>5. CASE CallbackReturns \/ CallbackRaises
  <2>1. /\ pc = "callback" /\ pc' \in {"consume", "exited"}
        /\ UNCHANGED <<data, prev, poll, evlist, idx, nr_read, sig, batch,
                       drain, flushing, cur>>
    BY Zenon, <1>5 DEF CallbackReturns, CallbackRaises, kernelVars, readVars, loopVars
  <2>2. heldBar' = IF pc' = "consume" THEN heldBar ELSE 0
    BY Zenon, <2>1 DEF heldBar
  <2>3. Sched!CallbackReturns \/ Sched!Abort
    BY Zenon, <2>1, <2>2, BarFrame DEF Sched!CallbackReturns, Sched!Abort
  <2> QED
    BY Zenon, <2>3 DEF Sched!Next, Sched!Process
<1>6. CASE Consume
  <2>1. /\ pc = "consume" /\ pc' = "while"
        /\ UNCHANGED <<data, prev, poll, evlist, nr_read, sig, batch, drain,
                       flushing, cur>>
    BY Zenon, <1>6 DEF Consume, kernelVars, loopVars
  <2>2. heldBar' = 0
    BY Zenon, <2>1 DEF heldBar
  <2>3. Sched!Consume
    BY Zenon, <2>1, <2>2, BarFrame DEF Sched!Consume
  <2> QED
    BY Zenon, <2>3 DEF Sched!Next, Sched!Process
<1> QED
  BY Zenon, <1>1, <1>2, <1>3, <1>4, <1>5, <1>6 DEF Reader

\* Every step of the pipeline is a step of the schedule or a stutter.
LEMMA StepMaps == MapInv /\ [Next]_vars => [Sched!Next]_(Sched!vars)
<1> SUFFICES ASSUME MapInv, [Next]_vars
             PROVE  Sched!Next \/ UNCHANGED Sched!vars
  OBVIOUS
<1>1. ASSUME UNCHANGED vars PROVE UNCHANGED Sched!vars
  BY Zenon, <1>1, BarFrame DEF vars, kernelVars, readVars, loopVars, Sched!vars
<1>2. ASSUME NEW h \in Handles, Open(h) \/ Enable(h) \/ Flush(h)
      PROVE  Sched!Next
  BY Zenon, <1>2, EvlistMaps DEF Sched!Next, Sched!Process
<1>3. ASSUME NEW r \in Rings, KernelWrite(r)
      PROVE  Sched!Next \/ UNCHANGED Sched!vars
  BY Zenon, <1>3, KernelMaps, SameParams DEF Sched!Next
<1> QED
  BY Zenon, <1>1, <1>2, <1>3, LoopMaps, ReaderMaps DEF Next, Exited

\* Every behaviour of the pipeline is one of the scheduling specification:
\* what the model checker shows of a schedule without records, it shows of
\* the pipeline.
THEOREM PipelineImplementsSched == Spec => ImplementsSched
<1>1. Init => CountInv
  BY Zenon DEF Init, CountInv
<1>2. TypeInv /\ CountInv /\ [Next]_vars => CountInv'
  BY Zenon, CountInductive
<1>3. Spec => []MapInv
  BY <1>1, <1>2, RingCorrect, PTL DEF Spec, MapInv
<1> QED
  BY <1>3, InitMaps, StepMaps, PTL DEF Spec, ImplementsSched, Sched!SafeSpec


-----------------------------------------------------------------------------
(* Every sample that was read was delivered exactly once.                  *)

\* Only a sample returned by mmap_read_top is logged.
LEMMA LogFrame ==
  ASSUME [Next]_vars
  PROVE  ReadTop \/ log' = log
<1>1. ASSUME NEW r \in Rings, KernelWrite(r) \/ PollCallback(r)
      PROVE  log' = log
  BY Zenon, <1>1 DEF KernelWrite, PollCallback, statVars
<1>2. ASSUME NEW h \in Handles, Open(h) \/ Enable(h) \/ Flush(h)
      PROVE  log' = log
  BY Zenon, <1>2 DEF Open, Enable, Flush, statVars
<1>3. ASSUME Interrupt \/ OpenFails \/ StartLoop \/ Register \/ EpollWait
             \/ BatchDone \/ CallEnd \/ Exit
      PROVE  log' = log
  BY Zenon, <1>3 DEF Interrupt, OpenFails, StartLoop, Register, EpollWait, BatchDone,
              CallEnd, Exit, statVars
<1>4. ASSUME While \/ ScanMmap \/ ReadNothing \/ CallbackReturns
             \/ CallbackRaises \/ Consume
      PROVE  log' = log
  BY Zenon, <1>4 DEF While, ScanMmap, ReadNothing, CallbackReturns, CallbackRaises,
              Consume, statVars
<1>5. ASSUME UNCHANGED vars PROVE log' = log
  BY Zenon, <1>5 DEF vars, statVars
<1> QED
  BY Zenon, <1>1, <1>2, <1>3, <1>4, <1>5 DEF Next, Reader, Exited

\* What mmap_read_consume logs: the number of the record, if it is a sample.
LEMMA ReadTopLogs ==
  ASSUME ReadTop
  PROVE  IF Front(<<cur, idx>>).kind = "sample"
         THEN log' = [log EXCEPT ![<<cur, idx>>] =
                        Append(@, prev[<<cur, idx>>] + 1)]
         ELSE log' = log
BY Zenon DEF ReadTop

Logged(r) == {log[r][a] : a \in DOMAIN log[r]}
SamplesRead(r) == {n \in 1 .. prev[r] : data[r][n].kind = "sample"}

LogRing(r) ==
  /\ \A a, b \in DOMAIN log[r] : a < b => log[r][a] < log[r][b]
  /\ Logged(r) = SamplesRead(r)

\* DeliveredExactlyOnce, ring by ring.
LEMMA LogRings == DeliveredExactlyOnce <=> \A r \in Rings : LogRing(r)
BY Zenon DEF DeliveredExactlyOnce, LogRing, Logged, SamplesRead

\* Nothing was read and nothing was delivered.
LEMMA InitLog == Init => DeliveredExactlyOnce
<1> SUFFICES ASSUME Init, NEW r \in Rings PROVE LogRing(r)
  BY Zenon, LogRings
<1>1. log[r] = << >> /\ prev[r] = 0
  BY Zenon DEF Init
<1>2. DOMAIN log[r] = {}
  BY <1>1
<1>3. 1 .. prev[r] = {}
  BY <1>1
<1> QED
  BY Zenon, <1>2, <1>3 DEF LogRing, Logged, SamplesRead

\* A ring that is not read, but may be written, keeps its log.
LEMMA LogKept ==
  ASSUME TypeInv, RingInv, NEW r \in Rings, LogRing(r),
         log'[r] = log[r], prev'[r] = prev[r],
         \A n \in 1 .. Len(data[r]) : data'[r][n] = data[r][n]
  PROVE  LogRing(r)'
<1>1. prev[r] \in Nat /\ Len(data[r]) \in Nat /\ prev[r] <= Len(data[r])
  BY Zenon, RingTypes DEF TypeInv, RingInv
<1>2. \A n \in 1 .. prev[r] : data'[r][n] = data[r][n]
  BY <1>1
<1>3. SamplesRead(r)' = SamplesRead(r)
  BY Zenon, <1>2 DEF SamplesRead
<1> QED
  BY <1>3 DEF LogRing, Logged

\* Reading a record that is not a sample.
LEMMA LogPassed ==
  ASSUME TypeInv, NEW r \in Rings, LogRing(r),
         log'[r] = log[r], data'[r] = data[r],
         prev'[r] = prev[r] + 1, Front(r).kind # "sample"
  PROVE  LogRing(r)'
<1>1. prev[r] \in Nat
  BY Zenon, RingTypes DEF TypeInv
<1>2. \A n : n \in 1 .. prev[r] + 1 <=> n \in 1 .. prev[r] \/ n = prev[r] + 1
  BY <1>1
<1>3. SamplesRead(r)' = SamplesRead(r)
  BY Zenon, <1>2 DEF SamplesRead, Front
<1> QED
  BY Zenon, <1>3 DEF LogRing, Logged

\* Reading a sample appends its number, which is above all numbers logged.
LEMMA LogAppended ==
  ASSUME TypeInv, NEW r \in Rings, LogRing(r),
         log'[r] = Append(log[r], prev[r] + 1), data'[r] = data[r],
         prev'[r] = prev[r] + 1, Front(r).kind = "sample"
  PROVE  LogRing(r)'
<1> DEFINE s == log[r]
           t == log'[r]
           p == prev[r] + 1
<1>1. s \in Seq(Nat \ {0}) /\ Len(s) \in Nat /\ p \in Nat /\ prev[r] \in Nat
  BY RingTypes DEF TypeInv, TypeOK
<1>2. DOMAIN s = 1 .. Len(s)
  BY <1>1
<1>3. /\ DOMAIN t = 1 .. Len(s) + 1
      /\ t[Len(s) + 1] = p
      /\ \A a \in 1 .. Len(s) : t[a] = s[a]
  BY <1>1
<1>4. \A a \in 1 .. Len(s) : s[a] \in 1 .. prev[r]
  BY Zenon, <1>2 DEF LogRing, Logged, SamplesRead
<1>5. \A a \in 1 .. Len(s) : s[a] < p /\ s[a] \in Nat
  BY <1>1, <1>4
<1>6. \A a \in 1 .. Len(s) + 1 : a \in 1 .. Len(s) \/ a = Len(s) + 1
  BY <1>1
<1>7. ASSUME NEW a \in DOMAIN t, NEW b \in DOMAIN t, a < b
      PROVE  t[a] < t[b]
  <2>1. a \in 1 .. Len(s)
    BY <1>1, <1>3, <1>7
  <2>2. CASE b \in 1 .. Len(s)
    BY Zenon, <1>2, <1>3, <1>7, <2>1, <2>2 DEF LogRing
  <2>3. CASE b = Len(s) + 1
    BY Zenon, <1>3, <1>5, <2>1, <2>3
  <2> QED
    BY Zenon, <1>3, <1>6, <2>2, <2>3
<1>8. Logged(r)' = Logged(r) \cup {p}
  <2>1. Logged(r)' = {t[a] : a \in 1 .. Len(s) + 1}
    BY Zenon, <1>3 DEF Logged
  <2>2. Logged(r) = {s[a] : a \in 1 .. Len(s)}
    BY Zenon, <1>2 DEF Logged
  <2>3. \A a \in 1 .. Len(s) : a \in 1 .. Len(s) + 1
    BY <1>1
  <2>4. Len(s) + 1 \in 1 .. Len(s) + 1
    BY <1>1
  <2> HIDE DEF s, t, p
  <2> QED
    BY Zenon, <1>3, <1>6, <2>1, <2>2, <2>3, <2>4
<1>9. SamplesRead(r)' = SamplesRead(r) \cup {p}
  <2>1. \A n : n \in 1 .. p <=> n \in 1 .. prev[r] \/ n = p
    BY <1>1
  <2> QED
    BY Zenon, <2>1 DEF SamplesRead, Front
<1> QED
  BY Zenon, <1>7, <1>8, <1>9 DEF LogRing

\* mmap_read_consume delivers the sample it reads and no other.
LEMMA LogInductive ==
  ASSUME TypeInv, RingInv, DeliveredExactlyOnce, [Next]_vars
  PROVE  DeliveredExactlyOnce'
<1> SUFFICES ASSUME NEW q \in Rings PROVE LogRing(q)'
  BY Zenon, LogRings DEF DeliveredExactlyOnce, LogRing, Logged, SamplesRead
<1>0. LogRing(q)
  BY Zenon, LogRings
<1>1. ASSUME NEW r \in Rings, KernelWrite(r) PROVE LogRing(q)'
  <2>1. KernelEffect(r)
    BY Zenon, <1>1, KernelWriteEffect
  <2>2. /\ log'[q] = log[q] /\ prev'[q] = prev[q]
        /\ \A n \in 1 .. Len(data[q]) : data'[q][n] = data[q][n]
    BY Zenon, <2>1 DEF KernelEffect, statVars
  <2> QED
    BY Zenon, <1>0, <2>2, LogKept
<1>2. CASE ReadTop
  <2>1. ReadEffect
    BY Zenon, <1>2, ReadTopEffect
  <2> DEFINE r == <<cur, idx>>
  <2>2. /\ r \in Rings
        /\ prev' = [prev EXCEPT ![r] = prev[r] + 1]
        /\ data' = data
    BY Zenon, <2>1 DEF ReadEffect, kernelVars
  <2>3. IF Front(r).kind = "sample"
        THEN log' = [log EXCEPT ![r] = Append(@, prev[r] + 1)]
        ELSE log' = log
    BY Zenon, <1>2, ReadTopLogs
  <2> HIDE DEF r
  <2>4. prev \in [Rings -> Nat] /\ log \in [Rings -> Seq(Nat \ {0})]
    BY Zenon DEF TypeInv, TypeOK
  <2>5. CASE q # r
    BY Zenon, <1>0, <2>2, <2>3, <2>4, <2>5, LogKept
  <2>6. CASE q = r /\ Front(r).kind = "sample"
    <3>1. log'[q] = Append(log[q], prev[q] + 1) /\ prev'[q] = prev[q] + 1
      BY Zenon, <2>2, <2>3, <2>4, <2>6
    <3> QED
      BY Zenon, <1>0, <2>2, <2>6, <3>1, LogAppended
  <2>7. CASE q = r /\ Front(r).kind # "sample"
    <3>1. log'[q] = log[q] /\ prev'[q] = prev[q] + 1
      BY Zenon, <2>2, <2>3, <2>4, <2>7
    <3> QED
      BY Zenon, <1>0, <2>2, <2>7, <3>1, LogPassed
  <2> QED
    BY Zenon, <2>5, <2>6, <2>7
<1>3. CASE UNCHANGED <<data, prev, log>>
  BY Zenon, <1>0, <1>3, LogKept
<1>4. ScanMmap \/ Consume \/ Quiet => UNCHANGED <<data, prev>>
  BY Zenon, ScanEffect, ConsumeEffect, QuietEffect
<1> QED
  BY Zenon, <1>1, <1>2, <1>3, <1>4, LogFrame, NextCases

\* Every sample that is read reaches the callback once, in ring order,
\* across all wakeups, budgets, errors and flushes.
THEOREM ExactlyOnce == Spec => []DeliveredExactlyOnce
<1>1. TypeInv /\ RingInv /\ DeliveredExactlyOnce /\ [Next]_vars
      => DeliveredExactlyOnce'
  BY Zenon, LogInductive
<1> QED
  BY <1>1, InitLog, RingCorrect, PTL DEF Spec

-----------------------------------------------------------------------------
(* The order of the records.                                               *)

\* The records of a ring are in the order of their times, and none is from
\* the future.
TimeInv ==
  \A r \in Rings : \A m, n \in 1 .. Len(data[r]) :
    /\ data[r][m].time <= now
    /\ m <= n => data[r][m].time <= data[r][n].time

\* A record of a ring has a kind and a time.
LEMMA RecordTypes ==
  ASSUME TypeOK, NEW r \in Rings, NEW n \in 1 .. Len(data[r])
  PROVE  data[r][n] \in Record /\ data[r][n].time \in Nat
<1>1. data[r][n] \in Record
  BY RingTypes
<1> QED
  BY Zenon, <1>1 DEF Record

\* Empty rings are sorted.
LEMMA InitTime == Init => TimeInv
<1> SUFFICES ASSUME Init, NEW r \in Rings PROVE 1 .. Len(data[r]) = {}
  BY Zenon DEF TimeInv
<1>1. Len(data[r]) = 0
  BY Zenon DEF Init
<1> QED
  BY <1>1

\* The records of a ring stay sorted by time.
LEMMA TimeInductive ==
  ASSUME TypeInv, RingInv, TimeInv, [Next]_vars
  PROVE  TimeInv'
<1>1. ASSUME NEW r \in Rings, KernelWrite(r) PROVE TimeInv'
  <2>1. KernelEffect(r)
    BY Zenon, <1>1, KernelWriteEffect
  <2>2. now \in Nat /\ now' \in Nat /\ now <= now'
    BY <2>1 DEF KernelEffect, TypeInv, TypeOK
  <2> SUFFICES ASSUME NEW q \in Rings,
                      NEW m \in 1 .. Len(data'[q]), NEW n \in 1 .. Len(data'[q])
               PROVE  /\ data'[q][m].time <= now'
                      /\ m <= n => data'[q][m].time <= data'[q][n].time
    BY Zenon DEF TimeInv
  <2>3. CASE data'[q] = data[q]
    <3>1. /\ data[q][m].time <= now
          /\ m <= n => data[q][m].time <= data[q][n].time
          /\ data[q][m].time \in Nat
      BY Zenon, <2>3, RecordTypes DEF TimeInv, TypeInv
    <3> QED
      BY <2>2, <2>3, <3>1
  <2>4. CASE data'[q] # data[q]
    <3>1. q = r
      BY Zenon, <2>1, <2>4 DEF KernelEffect
    <3>2. /\ Len(data[q]) \in Nat /\ Len(data'[q]) \in Nat
          /\ Len(data[q]) < Len(data'[q])
          /\ \A a \in 1 .. Len(data[q]) : data'[q][a] = data[q][a]
          /\ \A a \in Len(data[q]) + 1 .. Len(data'[q]) : data'[q][a].time = now'
      BY Zenon, <2>1, <2>4, <3>1, RingTypes DEF KernelEffect, TypeInv
    <3>3. \A a \in 1 .. Len(data'[q]) :
             a \in 1 .. Len(data[q]) \/ a \in Len(data[q]) + 1 .. Len(data'[q])
      BY <3>2
    <3>4. ASSUME NEW a \in 1 .. Len(data[q])
          PROVE  data'[q][a].time <= now' /\ data'[q][a].time \in Nat
      <4>1. data[q][a].time <= now /\ data[q][a].time \in Nat
        BY Zenon, RecordTypes DEF TimeInv, TypeInv
      <4>2. PICK t \in Nat : t = data[q][a].time
        BY Zenon, <4>1
      <4>3. data'[q][a].time = t
        BY Zenon, <3>2, <4>2
      <4>4. t <= now
        BY Zenon, <4>1, <4>2
      <4>5. t <= now'
        BY <2>2, <4>4
      <4> QED
        BY Zenon, <4>3, <4>5
    <3>5. CASE n \in 1 .. Len(data[q])
      <4>1. CASE m \in 1 .. Len(data[q])
        BY Zenon, <3>2, <3>4, <3>5, <4>1 DEF TimeInv
      <4>2. CASE m \in Len(data[q]) + 1 .. Len(data'[q])
        <5>1. ~(m <= n)
          BY <3>2, <3>5, <4>2
        <5> QED
          BY <2>2, <3>2, <4>2, <5>1
      <4> QED
        BY Zenon, <3>3, <4>1, <4>2
    <3>6. CASE n \in Len(data[q]) + 1 .. Len(data'[q])
      BY <2>2, <3>2, <3>3, <3>4, <3>6
    <3> QED
      BY Zenon, <3>3, <3>5, <3>6
  <2> QED
    BY Zenon, <2>3, <2>4
<1>2. CASE UNCHANGED <<data, now>>
  BY Zenon, <1>2 DEF TimeInv
<1>3. CASE ScanMmap \/ ReadTop \/ Consume
  BY Zenon, <1>2, <1>3 DEF ScanMmap, ReadTop, Consume, kernelVars
<1>4. CASE Quiet
  <2>1. ASSUME NEW r \in Rings, PollCallback(r) PROVE UNCHANGED <<data, now>>
    BY Zenon, <2>1 DEF PollCallback, kernelVars
  <2>2. ASSUME NEW h \in Handles, Open(h) \/ Enable(h) \/ Flush(h)
        PROVE  UNCHANGED <<data, now>>
    BY Zenon, <2>2 DEF Open, Enable, Flush, kernelVars
  <2>3. ASSUME \/ Interrupt \/ OpenFails \/ StartLoop \/ Register \/ EpollWait
               \/ BatchDone \/ CallEnd \/ Exit
        PROVE  UNCHANGED <<data, now>>
    BY Zenon, <2>3 DEF Interrupt, OpenFails, StartLoop, Register, EpollWait,
                BatchDone, CallEnd, Exit, kernelVars
  <2>4. ASSUME \/ While \/ ReadNothing \/ CallbackReturns \/ CallbackRaises
               \/ UNCHANGED vars
        PROVE  UNCHANGED <<data, now>>
    BY Zenon, <2>4 DEF While, ReadNothing, CallbackReturns, CallbackRaises, vars,
                kernelVars
  <2> QED
    BY Zenon, <1>2, <1>4, <2>1, <2>2, <2>3, <2>4 DEF Quiet
<1> QED
  BY Zenon, <1>1, <1>3, <1>4, NextCases

\* A flush reads an evlist whose events are disabled.
FlushInv == flushing /\ pc \in Reading => evlist[cur] = "disabled"

\* A flush never reads an evlist whose events are enabled.
LEMMA FlushInductive ==
  ASSUME TypeInv, FlushInv, [Next]_vars
  PROVE  FlushInv'
<1> USE DEF FlushInv, Reading, TypeInv, TypeOK, Control
<1>1. ASSUME NEW r \in Rings, KernelWrite(r) \/ PollCallback(r)
      PROVE  FlushInv'
  BY Zenon, <1>1 DEF KernelWrite, PollCallback, loopVars
<1>2. ASSUME NEW h \in Handles, Open(h) \/ Enable(h)
      PROVE  FlushInv'
  BY Zenon, <1>2 DEF Open, Enable, loopVars
<1>3. ASSUME NEW h \in Handles, Flush(h)
      PROVE  FlushInv'
  BY Zenon, <1>3 DEF Flush, Disabled
<1>4. ASSUME \/ Interrupt \/ OpenFails \/ StartLoop \/ Register \/ EpollWait
             \/ BatchDone \/ CallEnd \/ Exit
      PROVE  FlushInv'
  BY Zenon, <1>4 DEF Interrupt, OpenFails, StartLoop, Register, EpollWait, BatchDone,
              CallEnd, Exit, loopVars
<1>5. ASSUME While \/ ReadNothing \/ ReadTop
      PROVE  FlushInv'
  BY Zenon, <1>5 DEF While, ReadNothing, ReadTop, Return
<1>6. ASSUME ScanMmap \/ CallbackReturns \/ CallbackRaises \/ Consume
      PROVE  FlushInv'
  BY Zenon, <1>6 DEF ScanMmap, CallbackReturns, CallbackRaises, Consume, loopVars
<1>7. ASSUME UNCHANGED vars
      PROVE  FlushInv'
  BY Zenon, <1>7 DEF vars, loopVars
<1> QED
  BY Zenon, <1>1, <1>2, <1>3, <1>4, <1>5, <1>6, <1>7 DEF Next, Reader, Exited

\* What the loop of mmap_read_top knows of a ring d it has passed: records
\* may have come since, but not during a flush, and the best record so far
\* is not younger than the record at the front of d if that was there.
Passed(d) ==
  /\ seen[d] <= Len(data[<<cur, d>>])
  /\ flushing => seen[d] = Len(data[<<cur, d>>])
  /\ prev[<<cur, d>>] < seen[d] /\ Front(<<cur, d>>).kind # "notime" =>
       idx # 0 /\ Front(<<cur, idx>>).time <= Front(<<cur, d>>).time

ScanInv == pc = "scan" => \A d \in Mmaps : d < i => Passed(d)

\* The front record of a ring is still there after a write of the kernel.
LEMMA FrontKept ==
  ASSUME TypeInv, NEW r \in Rings, KernelEffect(r),
         NEW q \in Rings, prev[q] < Len(data[q])
  PROVE  data'[q][prev'[q] + 1] = Front(q)
<1>1. prev[q] \in Nat /\ Len(data[q]) \in Nat
  BY Zenon, RingTypes DEF TypeInv
<1>2. prev[q] + 1 \in 1 .. Len(data[q])
  BY <1>1
<1>3. prev'[q] = prev[q] /\ data'[q][prev[q] + 1] = data[q][prev[q] + 1]
  BY Zenon, <1>2 DEF KernelEffect
<1> QED
  BY Zenon, <1>3 DEF Front

\* A record written during a scan is newer than those the scan saw.
LEMMA KernelScan ==
  ASSUME TypeInv, FlushInv, ScanInv, NEW r \in Rings, KernelWrite(r)
  PROVE  ScanInv'
<1>1. KernelEffect(r)
  BY Zenon, KernelWriteEffect
<1>2. UNCHANGED <<prev, pc, cur, i, idx, seen, flushing, evlist>>
  BY Zenon, <1>1 DEF KernelEffect, readVars, loopVars
<1> SUFFICES ASSUME pc = "scan", NEW d \in Mmaps, d < i
             PROVE  Passed(d)'
  BY Zenon, <1>2 DEF ScanInv
<1> DEFINE q == <<cur, d>>
           b == <<cur, idx>>
<1>3. q \in Rings
  BY Zenon DEF TypeInv, Control, Reading, Rings
<1>4. seen[d] \in Nat /\ prev[q] \in Nat /\ Len(data[q]) \in Nat
  BY Zenon, <1>3, RingTypes DEF TypeInv, TypeOK
<1>5. /\ seen[d] <= Len(data[q])
      /\ flushing => seen[d] = Len(data[q])
      /\ prev[q] < seen[d] /\ Front(q).kind # "notime" =>
           idx # 0 /\ Front(b).time <= Front(q).time
  BY Zenon DEF ScanInv, Passed
<1>6. Len(data'[q]) \in Nat /\ Len(data[q]) <= Len(data'[q])
  BY <1>1, <1>3, <1>4, SMTT(30) DEF KernelEffect
<1>7. flushing => data'[q] = data[q]
  <2>1. flushing => evlist[cur] = "disabled"
    BY Zenon DEF FlushInv, Reading
  <2>2. flushing => q # r
    BY <1>1, <2>1, SMTT(30) DEF KernelEffect
  <2> QED
    BY Zenon, <1>1, <1>3, <2>2 DEF KernelEffect
<1>8. prev[q] < seen[d] => data'[q][prev'[q] + 1] = Front(q)
  <2>1. prev[q] < seen[d] => prev[q] < Len(data[q])
    BY <1>4, <1>5, SMTT(30)
  <2> QED
    BY Zenon, <1>1, <1>3, <2>1, FrontKept
<1>9. idx # 0 => data'[b][prev'[b] + 1] = Front(b)
  <2>1. idx # 0 => b \in Rings /\ prev[b] < Len(data[b])
    BY DEF TypeInv, TypeOK, Control, Reading, Rings, Mmaps
  <2> QED
    BY Zenon, <1>1, <2>1, FrontKept
<1>11. /\ seen'[d] <= Len(data'[q])
       /\ flushing' => seen'[d] = Len(data'[q])
  BY <1>2, <1>4, <1>5, <1>6, <1>7, SMTT(30)
<1>12. prev'[q] < seen'[d] /\ data'[q][prev'[q] + 1].kind # "notime" =>
         /\ idx' # 0
         /\ data'[b][prev'[b] + 1].time <= data'[q][prev'[q] + 1].time
  BY Zenon, <1>2, <1>5, <1>8, <1>9
<1> QED
  BY Zenon, <1>2, <1>11, <1>12 DEF Passed, Front

\* One turn of mmap_read_top keeps the oldest front record seen so far.
LEMMA ScanMmapScan ==
  ASSUME TypeInv, RingInv, ScanInv, ScanMmap
  PROVE  ScanInv'
<1> DEFINE r == <<cur, i>>
           b == <<cur, idx>>
<1>1. /\ UNCHANGED <<data, prev, tail, pc, cur>>
      /\ pc = "scan" /\ i \in Mmaps /\ r \in Rings
  BY Zenon, ScanEffect
<1>2. /\ flushing' = flushing
      /\ i' = i + 1
      /\ seen' = [seen EXCEPT ![i] = Len(data[r])]
      /\ idx' = IF prev[r] < Len(data[r]) /\ Front(r).kind # "notime"
                   /\ OlderThanTop(r)
                THEN i ELSE idx
  BY Zenon DEF ScanMmap, NextMmap, loopVars
<1>3. i \in Nat /\ idx \in Nat /\ i # 0
  BY <1>1, PipelineAssumption DEF TypeInv, TypeOK, Mmaps
<1>5. idx # 0 => b \in Rings /\ prev[b] < Len(data[b])
  BY <1>1 DEF TypeInv, TypeOK, Control, Reading, Rings, Mmaps
<1>6. ASSUME NEW q \in Rings, prev[q] < Len(data[q])
      PROVE  Front(q).time \in Nat
  <2>1. prev[q] + 1 \in 1 .. Len(data[q])
    BY <1>6, RingTypes DEF TypeInv
  <2> QED
    BY Zenon, <2>1, RecordTypes DEF Front, TypeInv
<1>7. OlderThanTop(r) <=> idx = 0 \/ Front(r).time < Front(b).time
  BY Zenon DEF OlderThanTop
<1> SUFFICES ASSUME NEW d \in Mmaps, d < i + 1
             PROVE  Passed(d)'
  BY Zenon, <1>1, <1>2 DEF ScanInv
<1> DEFINE q == <<cur, d>>
<1>8. q \in Rings /\ d \in Nat
  BY <1>1, PipelineAssumption, SMTT(30) DEF TypeInv, Control, Reading, Rings, Mmaps
<1>9. idx' # 0 => <<cur, idx'>> \in {r, b}
  BY Zenon, <1>2
<1>10. CASE d = i
  <2>1. seen'[d] = Len(data[r]) /\ q = r /\ Len(data[r]) \in Nat
    BY Zenon, <1>1, <1>2, <1>10, RingTypes DEF TypeInv, TypeOK
  <2>2. ASSUME prev[r] < Len(data[r]), Front(r).kind # "notime"
        PROVE  idx' # 0 /\ Front(<<cur, idx'>>).time <= Front(r).time
    <3>1. CASE OlderThanTop(r)
      <4>1. idx' = i
        BY Zenon, <1>2, <2>2, <3>1
      <4>2. Front(r).time \in Nat
        BY Zenon, <1>1, <1>6, <2>2
      <4> QED
        BY <1>3, <4>1, <4>2
    <3>2. CASE ~OlderThanTop(r)
      <4>1. idx' = idx /\ idx # 0 /\ ~(Front(r).time < Front(b).time)
        BY Zenon, <1>2, <1>7, <3>2
      <4>2. Front(r).time \in Nat /\ Front(b).time \in Nat
        BY Zenon, <1>1, <1>5, <1>6, <2>2, <4>1
      <4> QED
        BY <4>1, <4>2
    <3> QED
      BY Zenon, <3>1, <3>2
  <2>3. seen'[d] = Len(data'[<<cur', d>>]) /\ seen'[d] \in Nat
    BY Zenon, <1>1, <2>1
  <2>4. Front(<<cur, d>>)' = Front(r) /\ prev'[<<cur', d>>] = prev[r]
    BY Zenon, <1>1, <1>10 DEF Front
  <2>5. Front(<<cur, idx>>)' = Front(<<cur, idx'>>)
    BY Zenon, <1>1 DEF Front
  <2> QED
    BY <2>1, <2>2, <2>3, <2>4, <2>5, SMTT(30) DEF Passed
<1>11. CASE d # i
  <2>1. d < i
    BY <1>3, <1>8, <1>11
  <2>2. seen'[d] = seen[d]
    BY Zenon, <1>1, <1>2, <1>11 DEF TypeInv, TypeOK
  <2>3. Passed(d)
    BY Zenon, <1>1, <2>1 DEF ScanInv
  <2>4. ASSUME prev[q] < seen[d], Front(q).kind # "notime"
        PROVE  idx' # 0 /\ Front(<<cur, idx'>>).time <= Front(q).time
    <3>1. idx # 0 /\ Front(b).time <= Front(q).time
      BY Zenon, <2>3, <2>4 DEF Passed
    <3>2. CASE idx' = idx
      BY Zenon, <3>1, <3>2
    <3>3. CASE idx' # idx
      <4>1. /\ idx' = i /\ prev[r] < Len(data[r])
            /\ Front(r).time < Front(b).time
        BY Zenon, <1>2, <1>7, <3>1, <3>3
      <4>2. prev[q] < Len(data[q])
        <5>1. /\ seen[d] <= Len(data[q]) /\ seen[d] \in Nat
              /\ prev[q] \in Nat /\ Len(data[q]) \in Nat
          BY Zenon, <1>8, <2>3, RingTypes DEF Passed, TypeInv, TypeOK
        <5> QED
          BY <2>4, <5>1
      <4>3. /\ Front(r).time \in Nat /\ Front(b).time \in Nat
            /\ Front(q).time \in Nat
        BY Zenon, <1>1, <1>5, <1>6, <1>8, <3>1, <4>1, <4>2
      <4>4. Front(r).time <= Front(q).time
        BY <3>1, <4>1, <4>3
      <4> QED
        BY Zenon, <1>3, <4>1, <4>4
    <3> QED
      BY Zenon, <3>2, <3>3
  <2> QED
    BY Zenon, <1>1, <1>2, <2>2, <2>3, <2>4 DEF Passed, Front
<1> QED
  BY Zenon, <1>10, <1>11

\* The steps outside of mmap_read_top leave its choice alone.
LEMMA QuietScan ==
  ASSUME TypeInv, ScanInv, Quiet
  PROVE  ScanInv'
<1>1. CASE While
  <2>1. i = 1 /\ i' = 1
    BY Zenon, <1>1 DEF While, Return, TypeInv, Control
  <2> QED
    BY <2>1 DEF ScanInv, Mmaps
<1>2. CASE UNCHANGED <<data, prev, pc, cur, i, idx, seen, flushing>>
  BY Zenon, <1>2 DEF ScanInv, Passed, Front
<1>3. CASE pc' # "scan"
  BY Zenon, <1>3 DEF ScanInv
<1>4. ASSUME NEW r \in Rings, PollCallback(r) PROVE pc' # "scan"
  BY Zenon, <1>4 DEF PollCallback
<1>5. ASSUME NEW h \in Handles, Open(h) \/ Enable(h)
      PROVE  UNCHANGED <<data, prev, pc, cur, i, idx, seen, flushing>>
  BY Zenon, <1>5 DEF Open, Enable, kernelVars, readVars, loopVars
<1>6. ASSUME NEW h \in Handles, Flush(h) PROVE pc' # "scan"
  BY Zenon, <1>6 DEF Flush
<1>7. ASSUME \/ OpenFails \/ StartLoop \/ EpollWait \/ BatchDone \/ CallEnd
             \/ Exit \/ ReadNothing \/ CallbackReturns \/ CallbackRaises
      PROVE  pc' # "scan"
  BY Zenon, <1>7 DEF OpenFails, StartLoop, EpollWait, BatchDone, CallEnd, Exit,
              ReadNothing, Return, CallbackReturns, CallbackRaises
<1>8. ASSUME Interrupt \/ Register \/ UNCHANGED vars
      PROVE  UNCHANGED <<data, prev, pc, cur, i, idx, seen, flushing>>
  BY Zenon, <1>8 DEF Interrupt, Register, vars, kernelVars, readVars, loopVars
<1> QED
  BY Zenon, <1>1, <1>2, <1>3, <1>4, <1>5, <1>6, <1>7, <1>8 DEF Quiet

\* The choice of mmap_read_top is right after every step.
LEMMA ScanInductive ==
  ASSUME TypeInv, RingInv, FlushInv, ScanInv, [Next]_vars
  PROVE  ScanInv'
<1>1. CASE ReadTop
  <2>1. pc' # "scan"
    BY Zenon, <1>1 DEF ReadTop, Return
  <2> QED
    BY Zenon, <2>1 DEF ScanInv
<1>2. CASE Consume
  BY Zenon, <1>2 DEF Consume, ScanInv
<1> QED
  BY Zenon, <1>1, <1>2, KernelScan, ScanMmapScan, QuietScan, NextCases

OrderInv == TypeInv /\ RingInv /\ TimeInv /\ FlushInv /\ ScanInv

\* The facts about times and scans hold throughout.
LEMMA OrderCorrect == Spec => []OrderInv
<1>1. Init => TimeInv /\ FlushInv /\ ScanInv
  BY Zenon, InitTime DEF Init, FlushInv, ScanInv
<1>2. TypeInv /\ RingInv /\ TimeInv /\ FlushInv /\ ScanInv /\ [Next]_vars
      => TimeInv' /\ FlushInv' /\ ScanInv'
  BY Zenon, TimeInductive, FlushInductive, ScanInductive
<1> QED
  BY <1>1, <1>2, RingCorrect, PTL DEF Spec, OrderInv

\* At the end of the loop of mmap_read_top the best record is not younger
\* than any record a ring had when the loop passed it.
LEMMA BestOfSeen ==
  ASSUME OrderInv, ReadEffect, NEW d \in Mmaps,
         NEW n \in prev[<<cur, d>>] + 1 .. seen[d],
         Front(<<cur, d>>).kind # "notime"
  PROVE  Front(<<cur, idx>>).time <= data[<<cur, d>>][n].time
<1> DEFINE q == <<cur, d>>
           b == <<cur, idx>>
<1>1. /\ b \in Rings /\ pc = "scan" /\ i = NrMmaps + 1
      /\ prev[b] < Len(data[b])
  BY Zenon DEF ReadEffect
<1>2. q \in Rings /\ d < i
  BY <1>1, PipelineAssumption
     DEF OrderInv, TypeInv, Control, Reading, Rings, Mmaps
<1>3. /\ prev[q] \in Nat /\ Len(data[q]) \in Nat /\ seen[d] \in Nat
      /\ prev[b] \in Nat /\ Len(data[b]) \in Nat
  BY Zenon, <1>1, <1>2, RingTypes DEF OrderInv, TypeInv, TypeOK
<1>4. Passed(d)
  BY Zenon, <1>1, <1>2 DEF OrderInv, ScanInv
<1>5. prev[q] < seen[d] /\ seen[d] <= Len(data[q])
  BY <1>3, <1>4 DEF Passed
<1>6. Front(b).time <= Front(q).time
  BY Zenon, <1>4, <1>5 DEF Passed
<1>7. /\ n \in 1 .. Len(data[q]) /\ prev[q] + 1 \in 1 .. Len(data[q])
      /\ prev[q] + 1 <= n /\ prev[b] + 1 \in 1 .. Len(data[b])
  <2> PICK p \in Nat, l \in Nat, s \in Nat, pb \in Nat, lb \in Nat :
        /\ p = prev[q] /\ l = Len(data[q]) /\ s = seen[d]
        /\ pb = prev[b] /\ lb = Len(data[b])
    BY Zenon, <1>3
  <2>1. p < s /\ s <= l /\ pb < lb
    BY Zenon, <1>1, <1>5
  <2>2. n \in p + 1 .. s
    BY Zenon
  <2> HIDE DEF q, b
  <2>3. n \in 1 .. l /\ p + 1 \in 1 .. l /\ p + 1 <= n /\ pb + 1 \in 1 .. lb
    BY ONLY <2>1, <2>2, p \in Nat, l \in Nat, s \in Nat, pb \in Nat, lb \in Nat
  <2> QED
    BY Zenon, <2>3
<1>8. Front(q).time <= data[q][n].time
  BY Zenon, <1>2, <1>7 DEF OrderInv, TimeInv, Front
<1>9. /\ Front(q).time \in Nat /\ data[q][n].time \in Nat
      /\ Front(b).time \in Nat
  BY Zenon, <1>1, <1>2, <1>7, RecordTypes DEF OrderInv, TypeInv, Front
<1> QED
  BY <1>6, <1>8, <1>9

\* md->prev moves only when mmap_read_top returns a record.
LEMMA PrevFrame ==
  ASSUME OrderInv, [Next]_vars
  PROVE  prev' = prev \/ ReadEffect
<1>1. ASSUME NEW r \in Rings, KernelWrite(r) PROVE prev' = prev
  BY Zenon, <1>1 DEF KernelWrite
<1> QED
  BY Zenon, <1>1, NextCases, ScanEffect, ConsumeEffect, QuietEffect, ReadTopEffect
     DEF OrderInv

\* mmap_read_top merges the rings of an evlist by time, as far as it can
\* know, whatever the kernel writes while it looks.
THEOREM Merged == Spec => MergedByTime
<1>1. OrderInv /\ [Next]_vars => [TakesOldestSeen]_vars
  <2> SUFFICES ASSUME OrderInv, [Next]_vars, NEW c \in Mmaps,
                      cur # NoHandle, prev'[<<cur, c>>] # prev[<<cur, c>>],
                      NEW d \in Mmaps,
                      NEW n \in prev[<<cur, d>>] + 1 .. seen[d],
                      Front(<<cur, d>>).kind # "notime"
               PROVE  Front(<<cur, c>>).time <= data[<<cur, d>>][n].time
    BY Zenon DEF TakesOldestSeen
  <2>1. ReadEffect
    BY Zenon, PrevFrame
  <2>2. <<cur, c>> = <<cur, idx>>
    <3>1. prev' = [prev EXCEPT ![<<cur, idx>>] = prev[<<cur, idx>>] + 1]
      BY Zenon, <2>1 DEF ReadEffect
    <3>2. <<cur, c>> \in Rings
      BY Zenon, <2>1 DEF ReadEffect, OrderInv, TypeInv, Control, Reading, Rings
    <3> QED
      BY Zenon, <3>1, <3>2 DEF OrderInv, TypeInv, TypeOK
  <2>3. Front(<<cur, idx>>).time <= data[<<cur, d>>][n].time
    BY Zenon, <2>1, BestOfSeen
  <2> QED
    BY Zenon, <2>2, <2>3
<1> QED
  BY <1>1, OrderCorrect, PTL DEF Spec, MergedByTime

\* A flush hands over the records of a handle in the order of their times.
THEOREM SortedFlush == Spec => FlushSorted
<1>1. OrderInv /\ [Next]_vars => [TakesOldest]_vars
  <2> SUFFICES ASSUME OrderInv, [Next]_vars, NEW r \in Rings,
                      flushing, prev'[r] # prev[r],
                      NEW d \in Mmaps,
                      NEW n \in prev[<<r[1], d>>] + 1 .. Len(data'[<<r[1], d>>]),
                      Front(<<r[1], d>>).kind # "notime"
               PROVE  Front(r).time <= data'[<<r[1], d>>][n].time
    BY Zenon DEF TakesOldest
  <2>1. ReadEffect
    BY Zenon, PrevFrame
  <2>2. r = <<cur, idx>>
    <3>1. prev' = [prev EXCEPT ![<<cur, idx>>] = prev[<<cur, idx>>] + 1]
      BY Zenon, <2>1 DEF ReadEffect
    <3> QED
      BY Zenon, <3>1 DEF OrderInv, TypeInv, TypeOK
  <2>3. r[1] = cur /\ data' = data
    BY Zenon, <2>1, <2>2 DEF ReadEffect, kernelVars
  <2>4. seen[d] = Len(data[<<cur, d>>])
    <3>1. pc = "scan" /\ d < i
      BY <2>1, PipelineAssumption DEF ReadEffect, Mmaps
    <3> QED
      BY Zenon, <3>1 DEF OrderInv, ScanInv, Passed
  <2>5. Front(<<cur, idx>>).time <= data[<<cur, d>>][n].time
    BY Zenon, <2>1, <2>3, <2>4, BestOfSeen
  <2> QED
    BY Zenon, <2>2, <2>3, <2>5
<1> QED
  BY <1>1, OrderCorrect, PTL DEF Spec, FlushSorted

-----------------------------------------------------------------------------
(* Wakeups.                                                                *)

\* A poll callback for the handle of r is due.
Due(r) ==
  \E d \in Mmaps : poll[<<r[1], d>>] \/ <<r[1], d>> \in batch

Calm(r) == Unread(r) = {} \/ Blocked(r)

\* Ring r is being looked after, or the last read of its handle gave up.
Excused(r) ==
  IF cur = r[1] /\ pc \in Reading
  THEN pc = "scan" => r[2] >= i \/ idx # 0
  ELSE stop[r[1]] \in {"budget", "bad"}

WakeInv ==
  /\ pc \in {"script", "idle"} => batch = {}
  /\ pc # "exited" => \A r \in Rings : Due(r) \/ Calm(r) \/ Excused(r)

\* A ring is a handle and the number of one of its mmaps.
LEMMA RingParts ==
  ASSUME NEW r \in Rings
  PROVE  r[1] \in Handles /\ r[2] \in Mmaps /\ r = <<r[1], r[2]>>
BY DEF Rings

\* Before the script runs there is nothing to wake up for.
LEMMA InitWake == Init => WakeInv
<1> SUFFICES ASSUME Init, NEW r \in Rings PROVE Unread(r) = {}
  BY Zenon DEF WakeInv, Calm, Init
<1>1. prev[r] = 0 /\ Len(data[r]) = 0
  BY Zenon DEF Init
<1>2. prev[r] + 1 .. Len(data[r]) = {}
  BY <1>1
<1> QED
  BY Zenon, <1>2 DEF Unread

\* A record the kernel writes makes its ring readable, or needs no wakeup.
LEMMA KernelWake ==
  ASSUME TypeInv, RingInv, WakeInv, NEW q \in Rings, KernelWrite(q)
  PROVE  WakeInv'
<1>1. KernelEffect(q)
  BY Zenon, KernelWriteEffect
<1>2. UNCHANGED <<prev, pc, cur, i, idx, batch, stop>>
  BY Zenon, <1>1 DEF KernelEffect, readVars, loopVars
<1>3. ASSUME NEW r \in Rings, pc # "exited" PROVE (Due(r) \/ Calm(r) \/ Excused(r))'
  <2>0. r[1] \in Handles /\ r[2] \in Mmaps /\ r = <<r[1], r[2]>>
    BY Zenon, RingParts
  <2>1. CASE Due(r)
    <3>1. \A d \in Mmaps : <<r[1], d>> \in Rings
      BY Zenon, <2>0 DEF Rings
    <3>2. Due(r)'
      BY Zenon, <1>1, <1>2, <2>1, <3>1 DEF Due, KernelEffect
    <3> QED
      BY Zenon, <3>2
  <2>2. CASE Excused(r)
    BY Zenon, <1>2, <2>2 DEF Excused
  <2>3. CASE Calm(r) /\ data'[r] = data[r]
    BY Zenon, <1>2, <2>3 DEF Calm, Unread, Blocked, Front
  <2>4. CASE Calm(r) /\ data'[r] # data[r]
    <3>1. q = r
      BY Zenon, <1>1, <2>4 DEF KernelEffect
    <3>2. /\ Len(data[r]) < Len(data'[r]) /\ Len(data'[r]) \in Nat
          /\ Len(data[r]) \in Nat /\ prev[r] \in Nat /\ prev[r] <= Len(data[r])
          /\ \A n \in 1 .. Len(data[r]) : data'[r][n] = data[r][n]
          /\ \A n \in Len(data[r]) + 1 .. Len(data'[r]) :
               poll'[r] \/ data'[r][n].kind \in {"lost", "other"}
      BY Zenon, <1>1, <2>4, <3>1, RingTypes DEF KernelEffect, TypeInv, RingInv
    <3> PICK a \in Nat : a = Len(data[r])
      BY Zenon, <3>2
    <3> PICK b \in Nat : b = Len(data'[r])
      BY Zenon, <3>2
    <3> PICK p \in Nat : p = prev[r]
      BY Zenon, <3>2
    <3>a. a < b /\ p <= a
      BY Zenon, <3>2
    <3>b. /\ \A n \in 1 .. a : data'[r][n] = data[r][n]
          /\ \A n \in a + 1 .. b :
               poll'[r] \/ data'[r][n].kind \in {"lost", "other"}
      BY Zenon, <3>2
    <3>3. CASE poll'[r]
      <4>1. Due(r)'
        BY Zenon, <2>0, <3>3 DEF Due
      <4> QED
        BY Zenon, <4>1
    <3>4. CASE Blocked(r)
      <4>1. p < a
        BY Zenon, <3>4 DEF Blocked
      <4>2. p + 1 \in 1 .. a /\ p < b
        BY <3>a, <4>1
      <4>3. Front(r)' = Front(r)
        BY Zenon, <1>2, <3>b, <4>2 DEF Front
      <4>4. Blocked(r)'
        BY Zenon, <1>2, <3>4, <4>2, <4>3 DEF Blocked
      <4> QED
        BY Zenon, <4>4 DEF Calm
    <3>5. CASE ~poll'[r] /\ Unread(r) = {}
      <4>1. ASSUME NEW n \in p + 1 .. b
            PROVE  data'[r][n].kind # "sample"
        <5>0. (n \in 1 .. a /\ n \in p + 1 .. a) \/ n \in a + 1 .. b
          BY ONLY <3>a, a \in Nat, b \in Nat, p \in Nat, n \in p + 1 .. b
        <5>1. CASE n \in 1 .. a /\ n \in p + 1 .. a
          <6>1. data[r][n].kind # "sample"
            BY Zenon, <3>5, <5>1 DEF Unread
          <6> QED
            BY Zenon, <3>b, <5>1, <6>1
        <5>2. CASE n \in a + 1 .. b
          BY Zenon, <3>b, <3>5, <5>2
        <5> QED
          BY Zenon, <5>0, <5>1, <5>2
      <4>2. Unread(r)' = {}
        BY Zenon, <1>2, <4>1 DEF Unread
      <4> QED
        BY Zenon, <4>2 DEF Calm
    <3> QED
      BY Zenon, <2>4, <3>3, <3>4, <3>5 DEF Calm
  <2> QED
    BY Zenon, <1>3, <2>1, <2>2, <2>3, <2>4 DEF WakeInv
<1> QED
  BY Zenon, <1>2, <1>3 DEF WakeInv

\* A step that leaves ring r, its wakeups and its excuse alone.
LEMMA WakeKept ==
  ASSUME NEW r \in Rings, Due(r) \/ Calm(r) \/ Excused(r),
         UNCHANGED <<data, prev, poll, batch>>,
         Excused(r) => Excused(r)'
  PROVE  (Due(r) \/ Calm(r) \/ Excused(r))'
BY Zenon DEF Due, Calm, Unread, Blocked, Front

\* mmap_read_top passes over a ring only when it is empty or blocked.
LEMMA ScanWake ==
  ASSUME TypeInv, RingInv, WakeInv, ScanMmap
  PROVE  WakeInv'
<1> DEFINE q == <<cur, i>>
<1>1. /\ UNCHANGED <<data, prev, tail, pc, cur>>
      /\ pc = "scan" /\ i \in Mmaps /\ q \in Rings
  BY Zenon, ScanEffect
<1>2. /\ UNCHANGED <<poll, batch, stop>> /\ i' = i + 1
      /\ idx' = IF prev[q] < Len(data[q]) /\ Front(q).kind # "notime"
                   /\ OlderThanTop(q)
                THEN i ELSE idx
  BY Zenon DEF ScanMmap, NextMmap, kernelVars, loopVars
<1>3. i \in Nat /\ i # 0
  BY <1>1, PipelineAssumption DEF Mmaps
<1>4. ASSUME NEW r \in Rings PROVE (Due(r) \/ Calm(r) \/ Excused(r))'
  <2>0. r[1] \in Handles /\ r[2] \in Mmaps /\ r = <<r[1], r[2]>> /\ r[2] \in Int
    BY RingParts, PipelineAssumption DEF Mmaps
  <2>1. Due(r) \/ Calm(r) \/ Excused(r)
    BY Zenon, <1>1 DEF WakeInv
  <2>2. CASE r # q
    <3>1. Excused(r) => Excused(r)'
      <4>1. CASE cur = r[1]
        <5>1. r[2] # i
          BY Zenon, <2>0, <2>2, <4>1
        <5>2. r[2] >= i => r[2] >= i + 1
          BY <1>3, <2>0, <5>1
        <5>3. idx # 0 => idx' # 0
          BY Zenon, <1>2, <1>3
        <5> QED
          BY Zenon, <1>1, <1>2, <4>1, <5>2, <5>3 DEF Excused
      <4>2. CASE cur # r[1]
        BY Zenon, <1>1, <1>2, <4>2 DEF Excused
      <4> QED
        BY Zenon, <4>1, <4>2
    <3> QED
      BY Zenon, <1>1, <1>2, <2>1, <3>1, WakeKept
  <2>3. CASE r = q /\ idx' # 0
    <3>1. Excused(r)'
      BY Zenon, <1>1, <2>3 DEF Excused, Reading
    <3> QED
      BY Zenon, <3>1
  <2>4. CASE r = q /\ idx' = 0
    <3>1. ~(prev[r] < Len(data[r])) \/ Front(r).kind = "notime"
      BY Zenon, <1>2, <1>3, <2>4 DEF OlderThanTop
    <3>2. prev[r] \in Nat /\ Len(data[r]) \in Nat
      BY Zenon, RingTypes DEF TypeInv
    <3>3. Calm(r)
      <4>1. CASE prev[r] < Len(data[r])
        BY Zenon, <3>1, <4>1 DEF Calm, Blocked
      <4>2. CASE ~(prev[r] < Len(data[r]))
        <5>1. prev[r] + 1 .. Len(data[r]) = {}
          BY <3>2, <4>2
        <5> QED
          BY Zenon, <5>1 DEF Calm, Unread
      <4> QED
        BY Zenon, <4>1, <4>2
    <3>4. Calm(r)'
      BY Zenon, <1>1, <3>3 DEF Calm, Unread, Blocked, Front
    <3> QED
      BY Zenon, <3>4
  <2> QED
    BY Zenon, <2>2, <2>3, <2>4
<1> QED
  BY Zenon, <1>1, <1>4 DEF WakeInv

\* A record that is returned leaves the read going, or ends it as "bad".
LEMMA ReadTopWake ==
  ASSUME TypeInv, WakeInv, ReadTop
  PROVE  WakeInv'
<1> DEFINE q == <<cur, idx>>
<1>1. ReadEffect
  BY Zenon, ReadTopEffect
<1>2. /\ q \in Rings /\ pc = "scan" /\ UNCHANGED <<data, poll, batch, cur>>
      /\ prev' = [prev EXCEPT ![q] = prev[q] + 1]
  BY Zenon, <1>1 DEF ReadEffect, kernelVars
<1>3. \/ pc' \in {"callback", "consume"} /\ stop' = stop
      \/ /\ pc' \in {"notify", "batch"}
         /\ stop' = [stop EXCEPT ![cur] = "bad"]
  BY Zenon, <1>1 DEF ReadEffect, Processing, Return
<1>4. cur \in Handles /\ stop \in [Handles -> {"none", "empty", "budget", "bad"}]
  BY Zenon, <1>2 DEF TypeInv, TypeOK, Control, Reading
<1>5. ASSUME NEW r \in Rings PROVE (Due(r) \/ Calm(r) \/ Excused(r))'
  <2>1. Due(r) \/ Calm(r) \/ Excused(r)
    BY Zenon, <1>2 DEF WakeInv
  <2>2. CASE r[1] = cur
    <3>1. Excused(r)'
      BY Zenon, <1>2, <1>3, <1>4, <2>2 DEF Excused, Reading
    <3> QED
      BY Zenon, <3>1
  <2>3. CASE r[1] # cur
    <3>1. prev'[r] = prev[r]
      BY <1>2, <2>3 DEF TypeInv, TypeOK
    <3>2. stop'[r[1]] = stop[r[1]]
      BY Zenon, <1>3, <1>4, <2>3, RingParts
    <3>3. Excused(r) => Excused(r)'
      BY Zenon, <1>2, <2>3, <3>2 DEF Excused
    <3>4. Calm(r) => Calm(r)'
      BY Zenon, <1>2, <3>1 DEF Calm, Unread, Blocked, Front
    <3>5. Due(r) => Due(r)'
      BY Zenon, <1>2 DEF Due
    <3> QED
      BY Zenon, <2>1, <3>3, <3>4, <3>5
  <2> QED
    BY Zenon, <2>2, <2>3
<1> QED
  BY Zenon, <1>2, <1>3, <1>5 DEF WakeInv

\* After mmap_consume the while loop scans all rings again.
LEMMA ConsumeWake ==
  ASSUME WakeInv, Consume
  PROVE  WakeInv'
<1>1. /\ pc = "consume" /\ pc' = "while"
      /\ UNCHANGED <<data, prev, poll, batch, cur, stop>>
  BY Zenon DEF Consume, kernelVars, loopVars
<1>2. ASSUME NEW r \in Rings PROVE (Due(r) \/ Calm(r) \/ Excused(r))'
  <2>1. Due(r) \/ Calm(r) \/ Excused(r)
    BY Zenon, <1>1 DEF WakeInv
  <2>2. Excused(r) => Excused(r)'
    BY Zenon, <1>1 DEF Excused, Reading
  <2> QED
    BY Zenon, <1>1, <2>1, <2>2, WakeKept
<1> QED
  BY Zenon, <1>1, <1>2 DEF WakeInv

\* Taking an fd up, in a poll callback or for a flush.
LEMMA TakeUpWake ==
  ASSUME WakeInv, NEW h \in Handles, pc \in {"batch", "notify"}, pc' = "while",
         cur' = h, UNCHANGED <<data, prev, poll, stop>>,
         \A r \in Rings : r[1] # h => (r \in batch <=> r \in batch')
  PROVE  WakeInv'
<1> SUFFICES ASSUME NEW r \in Rings PROVE (Due(r) \/ Calm(r) \/ Excused(r))'
  BY Zenon DEF WakeInv
<1>1. Due(r) \/ Calm(r) \/ Excused(r)
  BY Zenon DEF WakeInv
<1>2. CASE r[1] = h
  <2>1. Excused(r)'
    BY Zenon, <1>2 DEF Excused, Reading
  <2> QED
    BY Zenon, <2>1
<1>3. CASE r[1] # h
  <2>1. \A d \in Mmaps : <<r[1], d>> \in Rings /\ <<r[1], d>>[1] = r[1]
    BY Zenon, RingParts DEF Rings
  <2>2. Due(r) => Due(r)'
    BY Zenon, <1>3, <2>1 DEF Due
  <2>3. Calm(r) => Calm(r)'
    BY Zenon DEF Calm, Unread, Blocked, Front
  <2>4. Excused(r) => Excused(r)'
    BY Zenon, <1>3 DEF Excused, Reading
  <2> QED
    BY Zenon, <1>1, <2>2, <2>3, <2>4
<1> QED
  BY Zenon, <1>2, <1>3

\* The head of the while loop, and the return with nothing read.
LEMMA WhileWake ==
  ASSUME TypeInv, WakeInv, While \/ ReadNothing
  PROVE  WakeInv'
<1>1. UNCHANGED <<data, prev, poll, batch, cur>> /\ pc \in {"while", "scan"}
  BY Zenon DEF While, ReadNothing, kernelVars
<1>2. \/ pc = "while" /\ pc' = "scan" /\ i' = i /\ idx' = idx /\ stop' = stop
      \/ /\ pc = "while" /\ pc' \in {"notify", "batch"}
         /\ stop' = [stop EXCEPT ![cur] = "budget"]
      \/ /\ pc = "scan" /\ pc' \in {"notify", "batch"} /\ idx = 0 /\ i > NrMmaps
         /\ stop' = [stop EXCEPT ![cur] = "empty"]
  BY Zenon DEF While, ReadNothing, Return
<1>3. cur \in Handles /\ stop \in [Handles -> {"none", "empty", "budget", "bad"}]
  BY Zenon, <1>1 DEF TypeInv, TypeOK, Control, Reading
<1>4. pc = "while" => i = 1
  BY Zenon DEF TypeInv, Control
<1>5. ASSUME NEW r \in Rings PROVE (Due(r) \/ Calm(r) \/ Excused(r))'
  <2>0. r[1] \in Handles /\ r[2] \in 1 .. NrMmaps
    BY Zenon, RingParts DEF Mmaps
  <2>1. Due(r) \/ Calm(r) \/ Excused(r)
    BY Zenon, <1>1 DEF WakeInv
  <2>2. CASE r[1] # cur
    <3>1. stop'[r[1]] = stop[r[1]]
      BY Zenon, <1>2, <1>3, <2>0, <2>2
    <3>2. Excused(r) => Excused(r)'
      BY Zenon, <1>1, <2>2, <3>1 DEF Excused
    <3> QED
      BY Zenon, <1>1, <2>1, <3>2, WakeKept
  <2>3. CASE r[1] = cur /\ pc = "while"
    <3>1. pc' = "scan" => r[2] >= i'
      BY <1>2, <1>4, <2>0, <2>3
    <3>2. Excused(r)'
      BY Zenon, <1>1, <1>2, <1>3, <2>3, <3>1 DEF Excused, Reading
    <3> QED
      BY Zenon, <3>2
  <2>4. CASE r[1] = cur /\ pc = "scan"
    <3>1. ~(r[2] >= i) /\ idx = 0
      BY <1>2, <2>0, <2>4, PipelineAssumption DEF TypeInv, TypeOK
    <3>2. ~Excused(r)
      BY Zenon, <2>4, <3>1 DEF Excused, Reading
    <3> QED
      BY Zenon, <1>1, <2>1, <3>2, WakeKept
  <2> QED
    BY Zenon, <1>1, <2>2, <2>3, <2>4
<1> QED
  BY Zenon, <1>1, <1>2, <1>5 DEF WakeInv

\* The steps that neither read a ring nor change epoll keep wakeups.
LEMMA QuietWake ==
  ASSUME TypeInv, WakeInv, Quiet
  PROVE  WakeInv'
<1>1. ASSUME NEW r \in Rings, PollCallback(r) PROVE WakeInv'
  <2>1. /\ pc = "batch" /\ pc' = "while" /\ cur' = r[1] /\ batch' = batch \ {r}
        /\ UNCHANGED <<data, prev, poll, stop>>
    BY Zenon, <1>1 DEF PollCallback, EvlistOf, kernelVars
  <2> QED
    BY Zenon, <2>1, RingParts, TakeUpWake
<1>2. ASSUME NEW h \in Handles, Flush(h) PROVE WakeInv'
  <2>1. /\ pc = "notify" /\ pc' = "while" /\ cur' = h
        /\ UNCHANGED <<data, prev, poll, batch, stop>>
    BY Zenon, <1>2 DEF Flush, kernelVars
  <2> QED
    BY Zenon, <2>1, TakeUpWake
<1>3. CASE While \/ ReadNothing
  BY Zenon, <1>3, WhileWake
<1>4. ASSUME UNCHANGED <<data, prev, poll, batch, stop, cur, i, idx>>,
             pc' = "exited" \/ pc' = pc \/ (pc = "callback" /\ pc' = "consume")
             \/ (pc = "script" /\ pc' = "idle")
             \/ (pc = "batch" /\ batch = {} /\ pc' = "idle")
             \/ (pc = "batch" /\ pc' = "notify")
      PROVE  WakeInv'
  <2>1. ASSUME NEW r \in Rings, pc' # "exited"
        PROVE  (Due(r) \/ Calm(r) \/ Excused(r))'
    <3>1. Due(r) \/ Calm(r) \/ Excused(r)
      BY Zenon, <1>4, <2>1 DEF WakeInv
    <3>2. Excused(r) => Excused(r)'
      BY Zenon, <1>4, <2>1 DEF Excused, Reading
    <3> QED
      BY Zenon, <1>4, <3>1, <3>2, WakeKept
  <2> QED
    BY Zenon, <1>4, <2>1 DEF WakeInv
<1>5. ASSUME NEW h \in Handles, Open(h) \/ Enable(h) PROVE WakeInv'
  <2>1. UNCHANGED <<data, prev, poll, batch, stop, cur, i, idx, pc>>
    BY Zenon, <1>5 DEF Open, Enable, kernelVars, readVars, loopVars
  <2> QED
    BY Zenon, <1>4, <2>1
<1>6. CASE \/ Interrupt \/ Register \/ OpenFails \/ StartLoop \/ BatchDone
           \/ CallEnd \/ Exit \/ CallbackReturns \/ CallbackRaises
           \/ UNCHANGED vars
  <2>1. UNCHANGED <<data, prev, poll, batch, stop, cur, i, idx>>
    BY Zenon, <1>6 DEF Interrupt, Register, OpenFails, StartLoop, BatchDone, CallEnd,
                Exit, CallbackReturns, CallbackRaises, vars, kernelVars,
                readVars, loopVars
  <2>2. pc' = "exited" \/ pc' = pc \/ (pc = "callback" /\ pc' = "consume")
        \/ (pc = "script" /\ pc' = "idle")
        \/ (pc = "batch" /\ batch = {} /\ pc' = "idle")
        \/ (pc = "batch" /\ pc' = "notify")
    BY Zenon, <1>6 DEF Interrupt, Register, OpenFails, StartLoop, BatchDone, CallEnd,
                Exit, CallbackReturns, CallbackRaises, vars
  <2> QED
    BY Zenon, <1>4, <2>1, <2>2
<1>7. CASE EpollWait
  <2>1. /\ pc = "idle" /\ pc' = "batch" /\ batch' = Readable
        /\ UNCHANGED <<data, prev, stop, cur>>
    BY Zenon, <1>7 DEF EpollWait
  <2>2. batch = {}
    BY Zenon, <2>1 DEF WakeInv
  <2>3. ASSUME NEW r \in Rings PROVE (Due(r) \/ Calm(r) \/ Excused(r))'
    <3>1. Due(r) \/ Calm(r) \/ Excused(r)
      BY Zenon, <2>1 DEF WakeInv
    <3>2. Due(r) => Due(r)'
      <4>1. \A d \in Mmaps : <<r[1], d>> \in Rings
        BY Zenon, RingParts DEF Rings
      <4> QED
        BY Zenon, <2>1, <2>2, <4>1 DEF Due, Readable
    <3>3. Calm(r) => Calm(r)'
      BY Zenon, <2>1 DEF Calm, Unread, Blocked, Front
    <3>4. Excused(r) => Excused(r)'
      BY Zenon, <2>1 DEF Excused, Reading
    <3> QED
      BY Zenon, <3>1, <3>2, <3>3, <3>4
  <2> QED
    BY Zenon, <2>1, <2>3 DEF WakeInv
<1> QED
  BY Zenon, <1>1, <1>2, <1>3, <1>5, <1>6, <1>7 DEF Quiet

\* No step of the pipeline loses a wakeup.
LEMMA WakeInductive ==
  ASSUME TypeInv, RingInv, WakeInv, [Next]_vars
  PROVE  WakeInv'
BY Zenon, NextCases, KernelWake, ScanWake, ReadTopWake, ConsumeWake, QuietWake

\* No wakeup is lost: a process that waits has left samples unread only
\* where a read gave up or a record without a time is in the way.
THEOREM WakeupsKept == Spec => []NoLostWakeup
<1>1. TypeInv /\ RingInv /\ WakeInv /\ [Next]_vars => WakeInv'
  BY Zenon, WakeInductive
<1>2. WakeInv => NoLostWakeup
  <2> SUFFICES ASSUME WakeInv, pc = "idle", NEW h \in Handles,
                      \A c \in Mmaps : ~poll[<<h, c>>],
                      stop[h] \notin {"budget", "bad"}, NEW c \in Mmaps
               PROVE  Unread(<<h, c>>) = {} \/ Blocked(<<h, c>>)
    BY Zenon DEF NoLostWakeup
  <2>1. <<h, c>> \in Rings /\ <<h, c>>[1] = h
    BY Zenon DEF Rings
  <2>2. ~Due(<<h, c>>) /\ ~Excused(<<h, c>>)
    BY Zenon DEF Due, Excused, WakeInv, Reading
  <2> QED
    BY Zenon, <2>1, <2>2 DEF WakeInv, Calm
<1> QED
  BY <1>1, <1>2, InitWake, RingCorrect, PTL DEF Spec

-----------------------------------------------------------------------------
(* The flush.                                                              *)

Drained(h) ==
  \A c \in Mmaps :
    prev[<<h, c>>] = Len(data[<<h, c>>]) \/ Blocked(<<h, c>>)

\* A handle is disabled when its flush begins.  It is never taken up again,
\* the process only flushes from then on, and the flush of the handle goes
\* on, or met a record it could not parse, or has drained it.
EndRing(h) ==
  evlist[h] = "disabled" =>
    /\ h \notin drain
    /\ pc \in {"notify", "exited"} \cup Reading
    /\ pc \in Reading => flushing
    /\ \/ pc = "exited" \/ (pc \in Reading /\ cur = h)
       \/ stop[h] = "bad" \/ Drained(h)

EndInv == \A h \in Handles : EndRing(h)

\* A step that leaves the rings, the evlists and the returns alone.
LEMMA EndKept ==
  ASSUME NEW h \in Handles, EndRing(h),
         UNCHANGED <<data, prev, evlist, drain, flushing, cur, stop>>,
         \/ pc' = pc \/ pc' = "exited"
         \/ pc \in Reading /\ pc' \in Reading
  PROVE  EndRing(h)'
<1>1. Drained(h)' <=> Drained(h)
  BY Zenon DEF Drained, Blocked, Front
<1> QED
  BY Zenon, <1>1 DEF EndRing, Reading

\* The kernel does not write to the rings of a disabled evlist.
LEMMA KernelEnd ==
  ASSUME TypeInv, EndInv, NEW r \in Rings, KernelWrite(r)
  PROVE  EndInv'
<1>1. KernelEffect(r)
  BY Zenon, KernelWriteEffect
<1>2. UNCHANGED <<prev, evlist, drain, flushing, cur, stop, pc>>
  BY Zenon, <1>1 DEF KernelEffect, loopVars
<1> SUFFICES ASSUME NEW h \in Handles, evlist[h] = "disabled"
             PROVE  EndRing(h)'
  BY Zenon, <1>2 DEF EndInv, EndRing
<1>3. \A c \in Mmaps : <<h, c>> \in Rings /\ <<h, c>>[1] = h
  BY Zenon DEF Rings
<1>4. \A c \in Mmaps : data'[<<h, c>>] = data[<<h, c>>]
  BY Zenon, <1>1, <1>3 DEF KernelEffect
<1>5. Drained(h)' <=> Drained(h)
  BY Zenon, <1>2, <1>4 DEF Drained, Blocked, Front
<1> QED
  BY Zenon, <1>2, <1>5 DEF EndInv, EndRing

\* The return of a read: a flush that found nothing more has drained its
\* handle, and other handles are not concerned.
LEMMA ReadNothingEnd ==
  ASSUME OrderInv, EndInv, ReadNothing
  PROVE  EndInv'
<1>1. /\ pc = "scan" /\ i > NrMmaps /\ idx = 0
      /\ UNCHANGED <<data, prev, evlist, drain, flushing, cur>>
      /\ stop' = [stop EXCEPT ![cur] = "empty"]
      /\ pc' = IF flushing THEN "notify" ELSE "batch"
  BY Zenon DEF ReadNothing, Return, kernelVars
<1>2. cur \in Handles /\ stop \in [Handles -> {"none", "empty", "budget", "bad"}]
  BY Zenon, <1>1 DEF OrderInv, TypeInv, TypeOK, Control, Reading
<1> SUFFICES ASSUME NEW h \in Handles, evlist[h] = "disabled"
             PROVE  EndRing(h)'
  BY Zenon, <1>1 DEF EndInv, EndRing
<1>3. flushing /\ h \notin drain
  BY Zenon, <1>1 DEF EndInv, EndRing, Reading
<1>4. CASE h # cur
  <2>1. stop'[h] = stop[h]
    BY Zenon, <1>1, <1>2, <1>4
  <2>2. Drained(h)' <=> Drained(h)
    BY Zenon, <1>1 DEF Drained, Blocked, Front
  <2> QED
    BY Zenon, <1>1, <1>3, <1>4, <2>1, <2>2 DEF EndInv, EndRing, Reading
<1>5. CASE h = cur
  <2>1. ASSUME NEW c \in Mmaps
        PROVE  prev[<<h, c>>] = Len(data[<<h, c>>]) \/ Blocked(<<h, c>>)
    <3>1. <<h, c>> \in Rings
      BY Zenon DEF Rings
    <3>2. c < i
      BY <1>1, PipelineAssumption DEF Mmaps, OrderInv, TypeInv, TypeOK
    <3>3. Passed(c)
      BY Zenon, <1>1, <3>2 DEF OrderInv, ScanInv
    <3>4. /\ seen[c] = Len(data[<<h, c>>])
          /\ ~(prev[<<h, c>>] < seen[c]) \/ Front(<<h, c>>).kind = "notime"
      BY Zenon, <1>1, <1>3, <1>5, <3>3 DEF Passed
    <3>5. /\ prev[<<h, c>>] \in Nat /\ Len(data[<<h, c>>]) \in Nat
          /\ prev[<<h, c>>] <= Len(data[<<h, c>>])
      BY Zenon, <3>1, RingTypes DEF OrderInv, TypeInv, RingInv
    <3>6. CASE prev[<<h, c>>] < Len(data[<<h, c>>])
      BY Zenon, <3>4, <3>6 DEF Blocked
    <3>7. CASE ~(prev[<<h, c>>] < Len(data[<<h, c>>]))
      BY <3>5, <3>7
    <3> QED
      BY Zenon, <3>6, <3>7
  <2>2. Drained(h)'
    BY Zenon, <1>1, <2>1 DEF Drained, Blocked, Front
  <2> QED
    BY Zenon, <1>1, <1>3, <2>2 DEF EndRing, Reading
<1> QED
  BY Zenon, <1>4, <1>5

\* A flush stops early only at a record that fails to parse.
LEMMA ReadTopEnd ==
  ASSUME OrderInv, EndInv, ReadTop
  PROVE  EndInv'
<1>1. ReadEffect
  BY Zenon, ReadTopEffect DEF OrderInv
<1>2. /\ pc = "scan" /\ <<cur, idx>> \in Rings
      /\ UNCHANGED <<data, evlist, drain, flushing, cur>>
      /\ prev' = [prev EXCEPT ![<<cur, idx>>] = prev[<<cur, idx>>] + 1]
  BY Zenon, <1>1 DEF ReadEffect, kernelVars
<1>3. \/ pc' \in {"callback", "consume"} /\ stop' = stop
      \/ /\ pc' = IF flushing THEN "notify" ELSE "batch"
         /\ stop' = [stop EXCEPT ![cur] = "bad"]
  BY Zenon, <1>1 DEF ReadEffect, Processing, Return
<1>4. cur \in Handles /\ stop \in [Handles -> {"none", "empty", "budget", "bad"}]
  BY Zenon, <1>2 DEF OrderInv, TypeInv, TypeOK, Control, Reading
<1> SUFFICES ASSUME NEW h \in Handles, evlist[h] = "disabled"
             PROVE  EndRing(h)'
  BY Zenon, <1>2 DEF EndInv, EndRing
<1>5. flushing /\ h \notin drain
  BY Zenon, <1>2 DEF EndInv, EndRing, Reading
<1>6. CASE h = cur
  BY Zenon, <1>2, <1>3, <1>4, <1>5, <1>6 DEF EndRing, Reading
<1>7. CASE h # cur
  <2>1. stop'[h] = stop[h]
    BY Zenon, <1>3, <1>4, <1>7
  <2>2. \A c \in Mmaps : prev'[<<h, c>>] = prev[<<h, c>>]
    <3>1. \A c \in Mmaps : <<h, c>> \in Rings /\ <<h, c>> # <<cur, idx>>
      BY Zenon, <1>7 DEF Rings
    <3> QED
      BY Zenon, <1>2, <3>1 DEF OrderInv, TypeInv, TypeOK
  <2>3. Drained(h)' <=> Drained(h)
    BY Zenon, <1>2, <2>2 DEF Drained, Blocked, Front
  <2>4. stop[h] = "bad" \/ Drained(h)
    BY Zenon, <1>2, <1>7 DEF EndInv, EndRing, Reading
  <2> QED
    BY Zenon, <1>2, <1>3, <1>5, <2>1, <2>3, <2>4 DEF EndRing, Reading
<1> QED
  BY Zenon, <1>6, <1>7

\* What the steps of a flush that read no record leave behind.
LEMMA LoopEnd ==
  ASSUME TypeInv, EndInv,
         \/ \E r \in Rings : PollCallback(r)
         \/ \E h \in Handles : Open(h) \/ Enable(h) \/ Flush(h)
         \/ StartLoop \/ Register \/ EpollWait \/ BatchDone \/ CallEnd
  PROVE  EndInv'
<1>1. ASSUME pc \in {"script", "idle", "batch"},
             \A h \in Handles : evlist'[h] # evlist[h] => evlist'[h] # "disabled"
      PROVE  EndInv'
  BY Zenon, <1>1 DEF EndInv, EndRing, Reading
<1>2. ASSUME NEW r \in Rings, PollCallback(r) PROVE EndInv'
  BY Zenon, <1>1, <1>2 DEF PollCallback
<1>3. ASSUME NEW h \in Handles, Enable(h) PROVE EndInv'
  BY Zenon, <1>1, <1>3 DEF Enable, TypeInv, TypeOK
<1>4. CASE StartLoop \/ EpollWait \/ BatchDone \/ CallEnd
  BY Zenon, <1>1, <1>4 DEF StartLoop, EpollWait, BatchDone, CallEnd
<1>5. CASE Register
  BY Zenon, <1>1, <1>5 DEF Register, TypeInv, TypeOK
<1>6. ASSUME NEW h \in Handles, Open(h) PROVE EndInv'
  <2>1. /\ UNCHANGED <<data, prev, drain, flushing, cur, stop, pc>>
        /\ evlist' = [evlist EXCEPT ![h] = "open"] /\ evlist[h] = "closed"
    BY Zenon, <1>6 DEF Open, kernelVars
  <2> SUFFICES ASSUME NEW g \in Handles, evlist'[g] = "disabled"
               PROVE  EndRing(g)'
    BY Zenon DEF EndInv, EndRing
  <2>2. evlist[g] = "disabled"
    BY Zenon, <2>1 DEF TypeInv, TypeOK
  <2>3. Drained(g)' <=> Drained(g)
    BY Zenon, <2>1 DEF Drained, Blocked, Front
  <2> QED
    BY Zenon, <2>1, <2>2, <2>3 DEF EndInv, EndRing
<1>7. ASSUME NEW h \in Handles, Flush(h) PROVE EndInv'
  <2>1. /\ UNCHANGED <<data, prev, stop>> /\ pc = "notify" /\ pc' = "while"
        /\ h \in drain /\ drain' = drain \ {h} /\ cur' = h /\ flushing' = TRUE
        /\ evlist' = [evlist EXCEPT ![h] = "disabled"]
    BY Zenon, <1>7 DEF Flush, Disabled, kernelVars
  <2> SUFFICES ASSUME NEW g \in Handles, evlist'[g] = "disabled"
               PROVE  EndRing(g)'
    BY Zenon DEF EndInv, EndRing
  <2>2. CASE g = h
    BY Zenon, <2>1, <2>2 DEF EndRing, Reading
  <2>3. CASE g # h
    <3>1. evlist[g] = "disabled"
      BY Zenon, <2>1, <2>3 DEF TypeInv, TypeOK
    <3>2. Drained(g)' <=> Drained(g)
      BY Zenon, <2>1 DEF Drained, Blocked, Front
    <3> QED
      BY Zenon, <2>1, <3>1, <3>2 DEF EndInv, EndRing, Reading
  <2> QED
    BY Zenon, <2>2, <2>3
<1> QED
  BY Zenon, <1>2, <1>3, <1>4, <1>5, <1>6, <1>7

\* No step of the pipeline adds to a ring the flush has emptied.
LEMMA EndInductive ==
  ASSUME OrderInv, EndInv, [Next]_vars
  PROVE  EndInv'
<1>0. TypeInv
  BY Zenon DEF OrderInv
<1>1. CASE \/ Interrupt \/ OpenFails \/ Exit \/ ScanMmap
           \/ CallbackReturns \/ CallbackRaises \/ Consume \/ UNCHANGED vars
  <2>1. /\ UNCHANGED <<data, prev, evlist, drain, flushing, cur, stop>>
        /\ \/ pc' = pc \/ pc' = "exited"
           \/ pc \in Reading /\ pc' \in Reading
    BY Zenon, <1>1 DEF Interrupt, OpenFails, Exit, ScanMmap, CallbackReturns,
       CallbackRaises, Consume, vars, kernelVars, loopVars, Reading
  <2> QED
    BY Zenon, <2>1, EndKept DEF EndInv
<1>2. CASE While
  <2>1. CASE ~flushing
    <3>1. \A h \in Handles : evlist[h] # "disabled"
      BY Zenon, <1>2, <2>1 DEF While, EndInv, EndRing, Reading
    <3>2. evlist' = evlist
      BY Zenon, <1>2 DEF While
    <3> QED
      BY Zenon, <3>1, <3>2 DEF EndInv, EndRing
  <2>2. CASE flushing
    <3>1. /\ UNCHANGED <<data, prev, evlist, drain, flushing, cur, stop>>
          /\ pc \in Reading /\ pc' \in Reading
      BY Zenon, <1>2, <2>2 DEF While, BelowLimit, kernelVars, Reading
    <3> QED
      BY Zenon, <3>1, EndKept DEF EndInv
  <2> QED
    BY Zenon, <2>1, <2>2
<1>3. ASSUME NEW r \in Rings, KernelWrite(r) PROVE EndInv'
  BY Zenon, <1>0, <1>3, KernelEnd
<1>4. CASE ReadTop \/ ReadNothing
  BY Zenon, <1>4, ReadTopEnd, ReadNothingEnd
<1>5. CASE \/ \E r \in Rings : PollCallback(r)
           \/ \E h \in Handles : Open(h) \/ Enable(h) \/ Flush(h)
           \/ StartLoop \/ Register \/ EpollWait \/ BatchDone \/ CallEnd
  BY Zenon, <1>0, <1>5, LoopEnd
<1> QED
  BY Zenon, <1>1, <1>2, <1>3, <1>4, <1>5 DEF Next, Reader, Exited

\* The end notification reads the rings of every handle to their end, up to
\* a record without a time, unless a record did not parse.
THEOREM FlushLeavesNothing == Spec => []FlushComplete
<1>1. Init => EndInv
  BY Zenon DEF Init, EndInv, EndRing
<1>2. OrderInv /\ EndInv /\ [Next]_vars => EndInv'
  BY Zenon, EndInductive
<1>3. EndInv => FlushComplete
  BY Zenon DEF EndInv, EndRing, Drained, FlushComplete, Reading
<1> QED
  BY <1>1, <1>2, <1>3, OrderCorrect, PTL DEF Spec

=============================================================================
