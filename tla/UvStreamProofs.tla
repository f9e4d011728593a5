--------------------------- MODULE UvStreamProofs ---------------------------
(***************************************************************************)
(* Proofs about UvStream, for any number of write requests of any sizes:   *)
(* the order of the bytes, the shutdown that waits, the callbacks at the   *)
(* close, and that whatever waits is going to be called for.               *)
(***************************************************************************)
EXTENDS UvStreamQueueProofs

-----------------------------------------------------------------------------
(* The calls of the program.                                               *)

LEMMA ShutdownKeeps ==
  ASSUME Inv, uv_shutdown
  PROVE  Inv'
<1>1. TypeInv /\ CallInv /\ PlanInv /\ AtInv /\ ConnInv /\ StallInv
  BY Zenon DEF Inv
<1>2. /\ Script /\ Open /\ ~Has("SHUT") /\ todo' = todo /\ connect' = connect
      /\ flags' = flags \cup {"SHUTTING"} /\ pevents' = pevents \cup {"out"}
      /\ fed' = fed /\ dead' = dead /\ count' = count /\ stranded' = stranded
      /\ before' = {r \in Writes : state[r] = "queued"}
      /\ UNCHANGED <<bytes, state, asked, queues>> /\ queue' = queue /\ completed' = completed
  BY Zenon DEF uv_shutdown, queues
<1>3. TypeInv' /\ Good(Now, asked)' /\ CallInv'
  <2>1. /\ pevents' \subseteq {"in", "out"} /\ fed' \in BOOLEAN /\ flags' \subseteq Flags
        /\ dead' \in BOOLEAN /\ todo' \in Seq(StepNames) /\ count' \in Nat /\ stranded' \in BOOLEAN
        /\ connect' \in {"none", "inprogress", "delayed", "done"}
    BY Zenon, <1>1, <1>2, Vars DEF TypeInv, Flags
  <2>2. before' \subseteq Writes /\ \A r \in before' : state[r] \in {"queued", "done"}
    BY Zenon, <1>2
  <2>3. flags \cap {"SHUT", "CLOSING"} \subseteq flags' /\ (dead => dead')
    BY Zenon, <1>2
  <2> QED
    BY Zenon, <1>2, <2>1, <2>2, <2>3, RequestsKeep
<1>4. /\ \A f : f # "SHUTTING" => (Has(f)' <=> Has(f))
      /\ Open' = Open /\ \A x : At(x)' = At(x) /\ In(x)' = In(x)
  BY Zenon, <1>2 DEF Has, Open, At, In
<1>5. PlanInv'
  BY Zenon, <1>1, <1>2, <1>4 DEF PlanInv
<1>6. AtInv'
  BY Zenon, <1>1, <1>2, <1>4 DEF AtInv
<1>7. ConnInv'
  BY Zenon, <1>1, <1>2, <1>4 DEF ConnInv, Open
<1>8. StallInv'
  BY Zenon, <1>1, <1>2, <1>4 DEF StallInv
<1>9. ClosingInv'
  BY Zenon, <1>2, <1>4 DEF Inv, ClosingInv, Open
<1> QED
  BY Zenon, <1>3, <1>5, <1>6, <1>7, <1>8, <1>9 DEF Inv

LEMMA ReadStartKeeps ==
  ASSUME Inv, uv_read_start
  PROVE  Inv'
<1>1. TypeInv /\ PlanInv /\ AtInv /\ ConnInv /\ StallInv
  BY Zenon DEF Inv
<1>2. /\ Script /\ Open /\ todo' = todo /\ connect' = connect
      /\ flags' = flags \cup {"READING", "ACTIVE"} /\ pevents' = pevents \cup {"in"}
      /\ fed' = fed /\ dead' = dead /\ count' = count /\ stranded' = stranded
      /\ UNCHANGED <<calls, queues>> /\ queue' = queue /\ completed' = completed
  BY Zenon DEF uv_read_start, queues
<1>3. TypeInv' /\ Good(Now, asked)' /\ CallInv'
  <2>1. /\ pevents' \subseteq {"in", "out"} /\ fed' \in BOOLEAN /\ flags' \subseteq Flags
        /\ dead' \in BOOLEAN /\ todo' \in Seq(StepNames) /\ count' \in Nat /\ stranded' \in BOOLEAN
        /\ connect' \in {"none", "inprogress", "delayed", "done"}
    BY Zenon, <1>1, <1>2, Vars DEF TypeInv, Flags
  <2>2. flags \cap {"SHUT", "CLOSING"} \subseteq flags' /\ (dead => dead')
    BY Zenon, <1>2
  <2> QED
    BY Zenon, <1>2, <2>1, <2>2, FrameKeeps
<1>4. /\ \A f : f \notin {"READING", "ACTIVE"} => (Has(f)' <=> Has(f))
      /\ Has("ACTIVE")' /\ Open' = Open /\ \A x : At(x)' = At(x) /\ In(x)' = In(x)
  BY Zenon, <1>2 DEF Has, Open, At, In
<1>5. PlanInv'
  BY Zenon, <1>1, <1>2, <1>4 DEF PlanInv
<1>6. AtInv'
  BY Zenon, <1>1, <1>2, <1>4 DEF AtInv
<1>7. ConnInv'
  BY Zenon, <1>1, <1>2, <1>4 DEF ConnInv, Open
<1>8. StallInv'
  BY Zenon, <1>1, <1>2, <1>4 DEF StallInv
<1>9. ClosingInv'
  BY Zenon, <1>2, <1>4 DEF Inv, ClosingInv, Open
<1> QED
  BY Zenon, <1>3, <1>5, <1>6, <1>7, <1>8, <1>9 DEF Inv

\* What StopIn leaves.
LEMMA StopInIs ==
  ASSUME NEW set, StopIn(set)
  PROVE  /\ pevents' = pevents \ {"in"}
         /\ \A f : f # "ACTIVE" => (Has(f)' <=> f \in set)
         /\ flags' \subseteq set
  BY Zenon DEF StopIn, Has

LEMMA ReadStopKeeps ==
  ASSUME Inv, uv_read_stop
  PROVE  Inv'
<1>1. TypeInv /\ PlanInv /\ AtInv /\ ConnInv /\ StallInv
  BY Zenon DEF Inv
<1>2. /\ Script /\ Open /\ todo' = todo /\ connect' = connect
      /\ pevents' = pevents \ {"in"} /\ flags' \subseteq flags
      /\ \A f : f \notin {"READING", "ACTIVE"} => (Has(f)' <=> Has(f))
      /\ ~Has("READING")'
      /\ fed' = fed /\ dead' = dead /\ count' = count /\ stranded' = stranded
      /\ UNCHANGED <<calls, queues>> /\ queue' = queue /\ completed' = completed
  <2>1. StopIn(flags \ {"READING"})
    BY Zenon DEF uv_read_stop
  <2>2. /\ pevents' = pevents \ {"in"} /\ flags' \subseteq flags
        /\ \A f : f \notin {"READING", "ACTIVE"} => (Has(f)' <=> Has(f))
        /\ ~Has("READING")'
    BY Zenon, <2>1, StopInIs DEF Has
  <2> QED
    BY Zenon, <2>2 DEF uv_read_stop, queues
<1>3. TypeInv' /\ Good(Now, asked)' /\ CallInv'
  <2>1. /\ pevents' \subseteq {"in", "out"} /\ fed' \in BOOLEAN /\ flags' \subseteq Flags
        /\ dead' \in BOOLEAN /\ todo' \in Seq(StepNames) /\ count' \in Nat /\ stranded' \in BOOLEAN
        /\ connect' \in {"none", "inprogress", "delayed", "done"}
    BY Zenon, <1>1, <1>2, Vars DEF TypeInv
  <2>2. flags \cap {"SHUT", "CLOSING"} \subseteq flags' /\ (dead => dead')
    BY Zenon, <1>2 DEF Has
  <2> QED
    BY Zenon, <1>2, <2>1, <2>2, FrameKeeps
<1>4. Open' = Open /\ \A x : At(x)' = At(x) /\ In(x)' = In(x)
  BY Zenon, <1>2 DEF Open, At, In
<1>5. PlanInv'
  BY Zenon, <1>1, <1>2, <1>4 DEF PlanInv
<1>6. AtInv'
  BY Zenon, <1>1, <1>2, <1>4 DEF AtInv
<1>7. ConnInv'
  BY Zenon, <1>1, <1>2, <1>4 DEF ConnInv, Open
<1>8. StallInv'
  BY Zenon, <1>1, <1>2, <1>4 DEF StallInv
<1>9. ClosingInv'
  BY Zenon, <1>2, <1>4 DEF Inv, ClosingInv, Open
<1> QED
  BY Zenon, <1>3, <1>5, <1>6, <1>7, <1>8, <1>9 DEF Inv

LEMMA CloseKeeps ==
  ASSUME Inv, uv__stream_close
  PROVE  Inv'
<1>1. TypeInv /\ PlanInv /\ AtInv /\ ConnInv /\ StallInv
  BY Zenon DEF Inv
<1>2. /\ Script /\ ~Has("CLOSING") /\ todo' = todo /\ connect' = connect
      /\ flags' = (flags \ {"READING", "ACTIVE"}) \cup {"CLOSING"}
      /\ pevents' = {} /\ fed' = FALSE
      /\ dead' = dead /\ count' = count /\ stranded' = stranded
      /\ UNCHANGED <<calls, queues>> /\ queue' = queue /\ completed' = completed
  BY Zenon DEF uv__stream_close, queues
<1>3. TypeInv' /\ Good(Now, asked)' /\ CallInv'
  <2>1. /\ pevents' \subseteq {"in", "out"} /\ fed' \in BOOLEAN /\ flags' \subseteq Flags
        /\ dead' \in BOOLEAN /\ todo' \in Seq(StepNames) /\ count' \in Nat /\ stranded' \in BOOLEAN
        /\ connect' \in {"none", "inprogress", "delayed", "done"}
    BY Zenon, <1>1, <1>2, Vars DEF TypeInv, Flags
  <2>2. flags \cap {"SHUT", "CLOSING"} \subseteq flags' /\ (dead => dead')
    BY Zenon, <1>2
  <2> QED
    BY Zenon, <1>2, <2>1, <2>2, FrameKeeps
<1>4. /\ \A f : f \notin {"READING", "ACTIVE", "CLOSING"} => (Has(f)' <=> Has(f))
      /\ Has("CLOSING")' /\ ~Open' /\ \A x : At(x)' = At(x) /\ In(x)' = In(x)
      /\ ~Has("CLOSED")
  BY Zenon, <1>1, <1>2 DEF Has, Open, At, In, PlanInv
<1>5. PlanInv'
  BY Zenon, <1>1, <1>2, <1>4 DEF PlanInv
<1>6. AtInv'
  BY Zenon, <1>1, <1>2, <1>4 DEF AtInv, At, Script
<1>7. ConnInv'
  BY Zenon, <1>1, <1>2, <1>4 DEF ConnInv
<1>8. StallInv'
  BY Zenon, <1>1, <1>2, <1>4 DEF StallInv
<1>9. ClosingInv'
  <2>1. ~Has("READING")'
    BY Zenon, <1>2 DEF Has
  <2> QED
    BY Zenon, <1>2, <1>4, <2>1 DEF ClosingInv
<1> QED
  BY Zenon, <1>3, <1>5, <1>6, <1>7, <1>8, <1>9 DEF Inv

\* The request is in the queue, and uv__write may have been called.
LEMMA Write2Is ==
  ASSUME Inv, Open, NEW r \in Writes, state[r] = "new", NEW v \in uv_write2(r)
  PROVE  \E u \in Rec :
           /\ Enters(Now, u, r) /\ u.pevents = pevents /\ u.fed = fed
           /\ v \in Rec /\ Good(v, asked \o Copies(r, bytes[r]))
           /\ SameItems(u, v) /\ CalledFor(u, v)
           /\ Connecting => v = u
<1>1. TypeInv /\ CallInv /\ ConnInv /\ Good(Now, asked)
  BY Zenon DEF Inv
<1>2. PICK w \in Rec : w = Now
  BY Zenon, <1>1 DEF TypeInv
<1>3. /\ w.queue = queue /\ w.size = size /\ w.completed = completed /\ w.left = left
      /\ w.error = error /\ w.wire = wire /\ w.flags = flags /\ w.dead = dead
      /\ w.pevents = pevents /\ w.fed = fed /\ queue \in Seq(Writes) /\ size \in Nat
      /\ asked \in Seq(Writes)
  BY Zenon, <1>1, <1>2, Vars DEF TypeInv
<1>4. Append(queue, r) \in Seq(Writes) /\ bytes[r] \in Nat
  BY Zenon, <1>1, <1>3, AppendIs DEF TypeInv
<1> DEFINE uu == [w EXCEPT !.queue = Append(queue, r), !.size = w.size + bytes[r]]
<1>5. /\ uu \in Rec /\ uu.queue = Append(queue, r) /\ uu.size = size + bytes[r]
      /\ uu.completed = completed /\ uu.left = left /\ uu.error = error
      /\ uu.wire = wire /\ uu.flags = flags /\ uu.dead = dead
      /\ uu.pevents = pevents /\ uu.fed = fed
  <2>1. PICK q \in Seq(Writes) : q = Append(queue, r)
    BY Zenon, <1>4
  <2>2. PICK s \in Nat : s = w.size + bytes[r] /\ s = size + bytes[r]
    BY <1>3, <1>4
  <2>3. uu = [w EXCEPT !.queue = q, !.size = s]
    BY Zenon, <2>1, <2>2
  <2>4. /\ uu \in Rec /\ uu.queue = q /\ uu.size = s
        /\ uu.completed = w.completed /\ uu.left = w.left /\ uu.error = w.error
        /\ uu.wire = w.wire /\ uu.flags = w.flags /\ uu.dead = w.dead
        /\ uu.pevents = w.pevents /\ uu.fed = w.fed
    <3> HIDE DEF uu
    <3> QED
      BY Zenon, <2>3 DEF Rec
  <2> QED
    BY Zenon, <1>3, <2>1, <2>2, <2>4
<1>6. uv_write2(r) = IF Connecting THEN {uu} ELSE IF size = 0 THEN uv__write(uu) ELSE {WatchOut(uu)}
  BY Zenon, <1>2, <1>3 DEF uv_write2, Enqueued, Now
<1> HIDE DEF uu
<1>7. PICK u \in Rec : u = uu
  BY Zenon, <1>5
<1>8. Enters(w, u, r)
  BY Zenon, <1>3, <1>5, <1>7 DEF Enters
<1>9. Good(u, asked \o Copies(r, bytes[r]))
  <2>1. w.left[r] = bytes[r]
    BY Zenon, <1>1, <1>3 DEF CallInv
  <2>2. \A k \in 1 .. Cnt(w) : It(w, k) # r
    BY Zenon, <1>1, <1>2 DEF CallInv
  <2> QED
    BY Zenon, <1>1, <1>2, <1>3, <1>8, <2>1, <2>2, EntersGood
<1>10. asked \o Copies(r, bytes[r]) \in Seq(Writes)
  BY Zenon, <1>3, <1>4, CopiesAre, ConcatIs
<1>11. AsNow(u)
  BY Zenon, <1>5, <1>7 DEF AsNow, Open
<1>12. Len(u.queue) \in Nat /\ u.left \in [Writes -> Nat]
  BY Zenon, Fields
<1>13. CASE Connecting
  <2>1. v = u
    BY Zenon, <1>6, <1>7, <1>13
  <2>2. fed \/ "out" \in pevents
    BY Zenon, <1>1, <1>13 DEF ConnInv, Connecting, Open
  <2>3. SameItems(u, u)
    <3>1. Len(u.queue) <= Len(u.queue)
      BY <1>12
    <3>2. \A x \in Writes : u.left[x] <= u.left[x]
      BY <1>12
    <3> QED
      BY Zenon, <3>1, <3>2 DEF SameItems
  <2>4. CalledFor(u, u)
    BY Zenon, <1>5, <1>7, <2>2 DEF CalledFor
  <2> QED
    BY Zenon, <1>2, <1>5, <1>7, <1>8, <1>9, <2>1, <2>3, <2>4
<1>14. CASE ~Connecting /\ size = 0
  <2>1. v \in uv__write(u)
    BY Zenon, <1>6, <1>7, <1>14
  <2>2. v \in Rec /\ Good(v, asked \o Copies(r, bytes[r])) /\ SameItems(u, v) /\ CalledFor(u, v)
    BY Zenon, <1>9, <1>10, <1>11, <2>1, WriteKeeps
  <2> QED
    BY Zenon, <1>2, <1>5, <1>7, <1>8, <1>14, <2>2
<1>15. CASE ~Connecting /\ size # 0
  <2>1. v = WatchOut(u)
    BY Zenon, <1>6, <1>7, <1>15
  <2>2. WaitsTo(u, v)
    BY Zenon, <2>1, WaitsIs
  <2>3. Good(v, asked \o Copies(r, bytes[r]))
    <3>1. Sending(v) => Sending(u)
      BY Zenon, <2>2 DEF WaitsTo, Sending
    <3> QED
      BY Zenon, <1>9, <2>2, <3>1, SameGood DEF WaitsTo
  <2>4. SameItems(u, v)
    <3>1. Len(v.queue) <= Len(u.queue) /\ \A x \in Writes : v.left[x] <= u.left[x]
      BY <1>12, <2>2 DEF WaitsTo
    <3>2. Cnt(v) = Cnt(u) /\ \A k : It(v, k) = It(u, k)
      BY Zenon, <2>2 DEF WaitsTo, Cnt, It
    <3> QED
      BY Zenon, <2>2, <3>1, <3>2 DEF SameItems, WaitsTo
  <2>5. CalledFor(u, v)
    BY Zenon, <2>2 DEF CalledFor, WaitsTo
  <2> QED
    BY Zenon, <1>2, <1>5, <1>7, <1>8, <1>15, <2>2, <2>3, <2>4, <2>5 DEF WaitsTo
<1> QED
  BY Zenon, <1>13, <1>14, <1>15

LEMMA Becoming ==
  ASSUME NEW v \in Rec, Becomes(v)
  PROVE  /\ Now' = v /\ queue' = v.queue /\ completed' = v.completed
         /\ left' = v.left /\ error' = v.error /\ pevents' = v.pevents /\ fed' = v.fed
         /\ flags' = v.flags /\ dead' = v.dead
  BY Zenon DEF Becomes, Now, Rec

\* What follows for what is called for, when the queues become v.
LEMMA CalledForKeeps ==
  ASSUME Inv, Open, connect' = connect, stranded' = stranded,
         \A x \in {"flush", "callbacks", "drain", "ended"} : In(x)' <=> In(x),
         NEW u \in Rec, NEW v \in Rec, CalledFor(u, v),
         u.pevents = pevents, u.fed = fed, u.flags = flags, u.completed = completed,
         pevents' \subseteq {"in", "out"}, fed' = v.fed, flags' = v.flags,
         "in" \in pevents' <=> "in" \in v.pevents,
         "out" \in pevents /\ "out" \in v.pevents => "out" \in pevents',
         queue' # << >> => \/ fed' \/ "out" \in pevents'
                           \/ In("write")' \/ In("flush")',
         completed' # << >> => v.completed # << >>
  PROVE  StallInv'
<1>1. /\ v.completed # << >> => u.completed # << >> \/ v.fed
      /\ u.fed => v.fed
      /\ "out" \in u.pevents => "out" \in v.pevents \/ v.fed
      /\ "in" \in v.pevents <=> "in" \in u.pevents
      /\ v.flags \subseteq u.flags /\ u.flags \ v.flags \subseteq {"ACTIVE"}
      /\ "in" \in u.pevents => v.flags = u.flags
  BY Zenon DEF CalledFor
<1>2. /\ \A f : f # "ACTIVE" => (Has(f)' <=> Has(f)) /\ ("in" \in pevents' <=> "in" \in pevents)
      /\ "in" \in pevents => (Has("ACTIVE")' <=> Has("ACTIVE"))
      /\ Open' = Open
  BY Zenon, <1>1 DEF Has, Open
<1>3. StallInv
  BY Zenon DEF Inv
<1>4. Has("SHUTTING")' => ~Has("SHUT")'
  BY Zenon, <1>2, <1>3 DEF StallInv
<1>5. completed' # << >> => fed' \/ In("callbacks")'
  BY Zenon, <1>1, <1>2, <1>3 DEF StallInv
<1>6. Has("SHUTTING")' /\ ~stranded' => fed' \/ "out" \in pevents' \/ In("drain")'
  BY Zenon, <1>1, <1>2, <1>3 DEF StallInv
<1>7. /\ "in" \in pevents' => Has("ACTIVE")'
      /\ Has("READING")' /\ ~In("ended")' => Has("ACTIVE")' /\ "in" \in pevents'
  BY Zenon, <1>1, <1>2, <1>3 DEF StallInv
<1> QED
  BY Zenon, <1>2, <1>4, <1>5, <1>6, <1>7 DEF StallInv

\* The requests of the queue, after r entered it and uv__write did something.
LEMMA WriteItems ==
  ASSUME Inv, NEW r \in Writes, state[r] = "new", NEW u \in Rec, NEW v \in Rec,
         Enters(Now, u, r), SameItems(u, v)
  PROVE  /\ Cnt(v) = Cnt(Now) + 1 /\ It(v, Cnt(Now) + 1) = r /\ Cnt(Now) \in Nat
         /\ \A k \in 1 .. Cnt(Now) : It(v, k) = It(Now, k)
         /\ \A x \in Writes : state[x] # "queued" /\ x # r =>
              v.left[x] = left[x] /\ v.error[x] = error[x]
<1>1. TypeInv /\ CallInv
  BY Zenon DEF Inv
<1>2. PICK w \in Rec : w = Now
  BY Zenon, <1>1 DEF TypeInv
<1>3. PICK N \in Nat : N = Cnt(w)
  BY Zenon, Items
<1>4. Cnt(u) = N + 1 /\ It(u, N + 1) = r /\ \A k \in 1 .. N : It(u, k) = It(w, k)
  BY <1>2, <1>3, EntersItems
<1>5. /\ Cnt(v) = N + 1 /\ \A k \in 1 .. N + 1 : It(v, k) = It(u, k)
      /\ \A x \in Writes : (\A k \in 1 .. N + 1 : It(u, k) # x) =>
           v.left[x] = u.left[x] /\ v.error[x] = u.error[x]
  BY Zenon, <1>4 DEF SameItems
<1>6. It(v, N + 1) = r /\ \A k \in 1 .. N : It(v, k) = It(w, k)
  BY <1>4, <1>5
<1>7. ASSUME NEW x \in Writes, state[x] # "queued", x # r
      PROVE  v.left[x] = left[x] /\ v.error[x] = error[x]
  <2>1. \A k \in 1 .. N : It(w, k) # x
    BY Zenon, <1>1, <1>2, <1>3, <1>7 DEF CallInv
  <2>2. \A k \in 1 .. N + 1 : It(u, k) # x
    <3> SUFFICES ASSUME NEW k \in 1 .. N + 1 PROVE It(u, k) # x
      OBVIOUS
    <3>1. k \in 1 .. N \/ k = N + 1
      OBVIOUS
    <3> QED
      BY Zenon, <1>4, <1>7, <2>1, <3>1
  <2>3. u.left = left /\ u.error = error
    BY Zenon, <1>1, Vars DEF Enters
  <2> QED
    BY Zenon, <1>5, <2>2, <2>3
<1> QED
  BY Zenon, <1>2, <1>3, <1>5, <1>6, <1>7

LEMMA WriteCallKeeps ==
  ASSUME Inv, NEW r \in Writes, uv_write(r)
  PROVE  Inv'
<1>1. TypeInv /\ CallInv /\ PlanInv /\ AtInv /\ ConnInv /\ StallInv
  BY Zenon DEF Inv
<1>2. /\ Script /\ Open /\ state[r] = "new" /\ connect' = connect /\ todo' = todo
      /\ count' = count /\ bytes' = bytes /\ before' = before /\ stranded' = stranded
      /\ state' = [state EXCEPT ![r] = "queued"]
      /\ asked' = asked \o Copies(r, bytes[r])
  BY Zenon DEF uv_write
<1>3. PICK v \in uv_write2(r) : Becomes(v)
  BY Zenon DEF uv_write
<1>4. PICK u \in Rec :
        /\ Enters(Now, u, r) /\ u.pevents = pevents /\ u.fed = fed
        /\ v \in Rec /\ Good(v, asked \o Copies(r, bytes[r]))
        /\ SameItems(u, v) /\ CalledFor(u, v)
        /\ Connecting => v = u
  BY Zenon, <1>2, Write2Is
<1>5. /\ Now' = v /\ queue' = v.queue /\ completed' = v.completed
      /\ left' = v.left /\ error' = v.error /\ pevents' = v.pevents /\ fed' = v.fed
      /\ flags' = v.flags /\ dead' = v.dead
  BY Zenon, <1>3, <1>4, Becoming
<1>6. /\ u.flags = flags /\ u.completed = completed /\ u.dead = dead
      /\ u.left = left /\ u.error = error
  BY Zenon, <1>1, <1>4, Vars DEF Enters
<1>7. TypeInv'
  <2>1. asked' \in Seq(Writes)
    BY Zenon, <1>1, <1>2, CopiesAre, ConcatIs DEF TypeInv
  <2>2. state' \in [Writes -> {"new", "queued", "tried", "done"}]
    BY Zenon, <1>1, <1>2 DEF TypeInv
  <2> QED
    BY Zenon, <1>1, <1>2, <1>4, <1>5, <2>1, <2>2 DEF TypeInv
<1>8. Good(Now, asked)'
  BY Zenon, <1>2, <1>4, <1>5
<1>9. CallInv'
  <2>1. /\ Cnt(v) = Cnt(Now) + 1 /\ It(v, Cnt(Now) + 1) = r /\ Cnt(Now) \in Nat
        /\ \A k \in 1 .. Cnt(Now) : It(v, k) = It(Now, k)
        /\ \A x \in Writes : state[x] # "queued" /\ x # r =>
             v.left[x] = left[x] /\ v.error[x] = error[x]
    BY Zenon, <1>2, <1>4, WriteItems
  <2>2. PICK N \in Nat : N = Cnt(Now)
    BY Zenon, <2>1
  <2>3. ASSUME NEW x \in Writes
        PROVE  state'[x] = "queued" <=> \E k \in 1 .. N + 1 : It(v, k) = x
    <3>1. state[x] = "queued" <=> \E k \in 1 .. N : It(v, k) = x
      <4>1. state[x] = "queued" <=> \E k \in 1 .. N : It(Now, k) = x
        BY Zenon, <1>1, <2>2 DEF CallInv
      <4>2. \A k \in 1 .. N : It(v, k) = It(Now, k)
        BY Zenon, <2>1, <2>2
      <4> QED
        BY Zenon, <4>1, <4>2
    <3>2. state'[x] = "queued" <=> state[x] = "queued" \/ x = r
      BY Zenon, <1>1, <1>2 DEF TypeInv
    <3>3. \A k : k \in 1 .. N + 1 <=> k \in 1 .. N \/ k = N + 1
      OBVIOUS
    <3>4. It(v, N + 1) = r
      BY Zenon, <2>1, <2>2
    <3> QED
      BY Zenon, <3>1, <3>2, <3>3, <3>4
  <2>4. ASSUME NEW x \in Writes, state'[x] \in {"new", "done"}
        PROVE  state[x] = state'[x] /\ left'[x] = left[x] /\ error'[x] = error[x]
    <3>1. x # r /\ state[x] = state'[x]
      BY Zenon, <1>1, <1>2, <2>4 DEF TypeInv
    <3>2. state[x] # "queued"
      BY Zenon, <2>4, <3>1
    <3> QED
      BY Zenon, <1>5, <2>1, <3>1, <3>2
  <2>5. \A x \in before' : state'[x] \in {"queued", "done"}
    BY Zenon, <1>1, <1>2 DEF CallInv, TypeInv
  <2>6. \A x \in Writes : state'[x] = "queued" <=> \E k \in 1 .. Cnt(v) : It(v, k) = x
    BY Zenon, <2>1, <2>2, <2>3
  <2>7. \A x \in Writes : state'[x] = "queued" <=> \E k \in 1 .. Cnt(Now') : It(Now', k) = x
    BY Zenon, <1>5, <2>6
  <2>8. \A x \in Writes : state'[x] = "new" => left'[x] = bytes'[x] /\ error'[x] = "ok"
    BY Zenon, <1>1, <1>2, <2>4 DEF CallInv
  <2>9. \A x \in Writes : state'[x] = "done" /\ error'[x] = "ok" => left'[x] = 0
    BY Zenon, <1>1, <2>4 DEF CallInv
  <2> QED
    BY Zenon, <2>5, <2>7, <2>8, <2>9 DEF CallInv, It, Cnt
<1>10. /\ \A f : f # "ACTIVE" => (Has(f)' <=> Has(f))
       /\ Open' = Open /\ \A x : At(x)' = At(x) /\ In(x)' = In(x)
  BY Zenon, <1>2, <1>4, <1>5, <1>6 DEF Has, Open, At, In, CalledFor
<1>11. PlanInv'
  BY Zenon, <1>1, <1>2, <1>10 DEF PlanInv
<1>12. AtInv'
  <2>1. ~At("write") /\ ~At("drain") /\ ~Has("CLOSED")
    BY Zenon, <1>1, <1>2 DEF At, Script, PlanInv, Open
  <2> QED
    BY Zenon, <1>10, <2>1 DEF AtInv
<1>13. ConnInv'
  <2>1. connect # "none" /\ ~Has("CLOSING")
    BY Zenon, <1>2 DEF Open
  <2>2. connect # "done" => /\ dead' = dead /\ completed' = completed
                            /\ pevents' = pevents /\ fed' = fed
    BY Zenon, <1>1, <1>4, <1>5, <1>6, <2>1 DEF Connecting, TypeInv
  <2> QED
    BY <1>1, <1>2, <1>10, <2>1, <2>2 DEF ConnInv
<1>14. StallInv'
  <2>1. queue' # << >> => fed' \/ "out" \in pevents'
    BY Zenon, <1>4, <1>5 DEF CalledFor
  <2>2. pevents' \subseteq {"in", "out"}
    BY Zenon, <1>4, <1>5, Fields
  <2>3. \A x \in {"flush", "callbacks", "drain", "ended"} : In(x)' <=> In(x)
    BY Zenon, <1>10
  <2> QED
    BY Zenon, <1>2, <1>4, <1>5, <1>6, <2>1, <2>2, <2>3, CalledForKeeps
<1>15. ClosingInv'
  BY Zenon, <1>2, <1>4, <1>5, <1>6, <1>10 DEF Inv, ClosingInv, Open, CalledFor
<1> QED
  BY Zenon, <1>7, <1>8, <1>9, <1>11, <1>12, <1>13, <1>14, <1>15 DEF Inv

LEMMA TryWriteKeeps ==
  ASSUME Inv, NEW r \in Writes, uv_try_write(r)
  PROVE  Inv'
<1>1. TypeInv /\ CallInv /\ PlanInv /\ AtInv /\ ConnInv /\ StallInv /\ Good(Now, asked)
  BY Zenon DEF Inv
<1>2. /\ Script /\ Open /\ state[r] = "new" /\ ~Connecting /\ connect' = connect /\ todo' = todo
      /\ count' = count /\ bytes' = bytes /\ before' = before /\ stranded' = stranded
      /\ state' = [state EXCEPT ![r] = "tried"]
  BY Zenon DEF uv_try_write
<1>3. PICK v \in uv_write2(r) :
        Becomes(TakenBack(v, r)) /\ asked' = asked \o Copies(r, bytes[r] - v.left[r])
  BY Zenon DEF uv_try_write
<1>4. PICK u \in Rec :
        /\ Enters(Now, u, r) /\ u.pevents = pevents /\ u.fed = fed
        /\ v \in Rec /\ Good(v, asked \o Copies(r, bytes[r]))
        /\ SameItems(u, v) /\ CalledFor(u, v)
  BY Zenon, <1>2, Write2Is
<1>5. /\ u.flags = flags /\ u.completed = completed /\ u.dead = dead /\ u.wire = wire
      /\ u.left = left /\ u.error = error /\ u.queue = Append(queue, r)
      /\ queue \in Seq(Writes) /\ Len(queue) \in Nat
  BY <1>1, <1>4, Vars DEF Enters
<1>6. /\ Cnt(v) = Cnt(Now) + 1 /\ It(v, Cnt(Now) + 1) = r /\ Cnt(Now) \in Nat
      /\ \A k \in 1 .. Cnt(Now) : It(v, k) = It(Now, k)
      /\ \A x \in Writes : state[x] # "queued" /\ x # r =>
           v.left[x] = left[x] /\ v.error[x] = error[x]
  BY Zenon, <1>2, <1>4, WriteItems
<1>7. PICK N \in Nat : N = Cnt(Now)
  BY Zenon, <1>6
<1>8. Cnt(v) = N + 1 /\ It(v, N + 1) = r /\ \A k \in 1 .. N : It(v, k) = It(Now, k)
  BY Zenon, <1>6, <1>7
<1>9. PICK b, x \in Nat : b = bytes[r] /\ x = v.left[r] /\ b - x \in Nat
  <2>1. bytes[r] \in Nat /\ left[r] = bytes[r]
    BY Zenon, <1>1, <1>2 DEF TypeInv, CallInv
  <2>2. v.left[r] <= left[r] /\ v.left[r] \in Nat
    BY Zenon, <1>4, <1>5, Fields DEF SameItems
  <2>3. bytes[r] - v.left[r] \in Nat
    BY <2>1, <2>2
  <2> QED
    BY Zenon, <2>1, <2>2, <2>3
<1>10. v.left[r] <= v.size /\ Once(v)
  <2>1. N + 1 \in 1 .. Cnt(v)
    BY <1>8
  <2>2. v.left[It(v, N + 1)] <= v.size
    BY Zenon, <1>4, <2>1, ItemFits
  <2> QED
    BY Zenon, <1>4, <1>8, <2>2 DEF Good
<1>11. PICK t : t = TakenBack(v, r)
  OBVIOUS
<1>12. Cnt(v) >= 1 /\ It(v, Cnt(v)) = r
  BY <1>8
<1>13. Leaves(v, t, r)
  BY Zenon, <1>4, <1>10, <1>11, <1>12, TakenBackIs
<1>14. /\ t \in Rec /\ Cnt(t) = N /\ \A k \in 1 .. N : It(t, k) = It(v, k)
       /\ t.left = v.left /\ t.error = v.error /\ t.flags = v.flags /\ t.fed = v.fed
       /\ t.queue # << >> => Len(v.queue) > 1
       /\ t.completed # << >> => v.completed # << >>
       /\ t.pevents = IF "out" \in pevents THEN v.pevents ELSE v.pevents \ {"out"}
  <2>1. Cnt(v) - 1 = N
    BY <1>8
  <2> QED
    BY Zenon, <1>13, <2>1 DEF Leaves
<1>15. /\ Now' = t /\ queue' = t.queue /\ completed' = t.completed
       /\ left' = t.left /\ error' = t.error /\ pevents' = t.pevents /\ fed' = t.fed
       /\ flags' = t.flags /\ dead' = t.dead
  BY Zenon, <1>3, <1>11, <1>14, Becoming
<1>16. PICK ask \in Seq(Writes) :
         ask = asked' /\ Longer(asked \o Copies(r, b), ask, x) /\ Longer(ask, asked, b - x)
  <2>1. asked \in Seq(Writes) /\ asked' = asked \o Copies(r, b - x)
    BY Zenon, <1>1, <1>3, <1>9 DEF TypeInv
  <2>2. /\ Copies(r, b) \in Seq(Writes) /\ Len(Copies(r, b)) = b
        /\ \A k \in 1 .. b : Copies(r, b)[k] = r
        /\ Copies(r, b - x) \in Seq(Writes) /\ Len(Copies(r, b - x)) = b - x
        /\ \A k \in 1 .. b - x : Copies(r, b - x)[k] = r
    BY Zenon, <1>9, CopiesAre
  <2>3. PICK A, L \in Nat : A = Len(asked) /\ L = Len(asked')
    BY <2>1, <2>2, ConcatIs
  <2>4. /\ asked' \in Seq(Writes) /\ L = A + (b - x)
        /\ \A k \in 1 .. A : asked'[k] = asked[k]
        /\ \A k \in 1 .. b - x : asked'[A + k] = r
    <3>1. PICK c \in Seq(Writes) : c = Copies(r, b - x)
      BY Zenon, <2>2
    <3>2. /\ asked' \in Seq(Writes) /\ Len(asked') = Len(asked) + Len(c)
          /\ \A k \in 1 .. Len(asked) : asked'[k] = asked[k]
          /\ \A k \in 1 .. Len(c) : asked'[Len(asked) + k] = c[k]
      BY <2>1, <3>1, ConcatIs
    <3> QED
      BY Zenon, <2>2, <2>3, <3>1, <3>2
  <2>5. PICK asks : /\ asks = asked \o Copies(r, b) /\ Len(asks) = A + b
                    /\ \A k \in 1 .. A : asks[k] = asked[k]
                    /\ \A k \in 1 .. b : asks[A + k] = r
    <3>1. PICK c \in Seq(Writes) : c = Copies(r, b)
      BY Zenon, <2>2
    <3>2. PICK asks : asks = asked \o c
      BY Zenon
    <3>3. /\ Len(asks) = Len(asked) + Len(c)
          /\ \A k \in 1 .. Len(asked) : asks[k] = asked[k]
          /\ \A k \in 1 .. Len(c) : asks[Len(asked) + k] = c[k]
      BY <2>1, <3>2, ConcatIs
    <3>4. Len(asked) = A /\ Len(c) = b /\ \A k \in 1 .. b : c[k] = r
      BY Zenon, <2>2, <2>3, <3>1
    <3>5. /\ Len(asks) = A + b /\ \A k \in 1 .. A : asks[k] = asked[k]
          /\ \A k \in 1 .. b : asks[A + k] = r
      BY Zenon, <3>3, <3>4
    <3> QED
      BY Zenon, <3>1, <3>2, <3>5
  <2>6. Longer(asks, asked', x)
    <3>1. A + b = L + x
      <4>1. L = A + (b - x)
        BY Zenon, <2>4
      <4> QED
        BY <1>9, <4>1
    <3>2. ASSUME NEW k \in 1 .. L
          PROVE  asks[k] = asked'[k]
      <4>1. CASE k <= A
        <5>1. k \in 1 .. A
          BY <2>4, <4>1
        <5> QED
          BY Zenon, <2>4, <2>5, <5>1
      <4>2. CASE k > A
        <5>1. k - A \in 1 .. b - x /\ k - A \in 1 .. b /\ A + (k - A) = k
          BY <1>9, <2>4, <4>2
        <5>2. asked'[A + (k - A)] = r /\ asks[A + (k - A)] = r
          BY Zenon, <2>4, <2>5, <5>1
        <5> QED
          BY Zenon, <5>1, <5>2
      <4> QED
        BY <4>1, <4>2
    <3> QED
      BY Zenon, <2>3, <2>5, <3>1, <3>2 DEF Longer
  <2>7. Longer(asked', asked, b - x)
    BY Zenon, <2>3, <2>4 DEF Longer
  <2> QED
    BY Zenon, <2>4, <2>5, <2>6, <2>7
<1>17. Good(Now, asked)'
  <2>1. Sending(v) \/ Prefix(v.wire, ask)
    <3>1. SUFFICES ASSUME v.wire = wire PROVE Prefix(wire, ask)
      BY Zenon, <1>4, <1>5 DEF SameItems
    <3>2. Prefix(wire, asked) /\ Len(wire) \in Nat /\ Len(asked) \in Nat
      BY <1>1, Vars DEF Good, TypeInv
    <3>3. PICK W, A \in Nat : W = Len(wire) /\ A = Len(asked) /\ W <= A
      BY Zenon, <3>2 DEF Prefix
    <3>4. Len(ask) = A + (b - x) /\ \A k \in 1 .. A : ask[k] = asked[k]
      BY Zenon, <1>16, <3>3 DEF Longer
    <3>5. \A k \in 1 .. W : wire[k] = asked[k]
      BY Zenon, <3>2, <3>3 DEF Prefix
    <3>6. W <= A + (b - x) /\ \A k \in 1 .. W : k \in 1 .. A
      BY <1>9, <3>3
    <3> QED
      BY Zenon, <3>3, <3>4, <3>5, <3>6 DEF Prefix
  <2>2. Good(v, asked \o Copies(r, b)) /\ Longer(asked \o Copies(r, b), ask, v.left[r])
    BY Zenon, <1>4, <1>9, <1>16
  <2>3. Good(t, ask)
    BY Zenon, <1>4, <1>12, <1>13, <2>1, <2>2, TakenBackGood
  <2> QED
    BY Zenon, <1>15, <1>16, <2>3
<1>18. TypeInv'
  <2>1. state' \in [Writes -> {"new", "queued", "tried", "done"}]
    BY Zenon, <1>1, <1>2 DEF TypeInv
  <2> QED
    BY Zenon, <1>1, <1>2, <1>14, <1>15, <1>16, <2>1 DEF TypeInv
<1>19. CallInv'
  <2>1. ASSUME NEW y \in Writes
        PROVE  state'[y] = "queued" <=> \E k \in 1 .. N : It(t, k) = y
    <3>1. state[y] = "queued" <=> \E k \in 1 .. N : It(Now, k) = y
      BY Zenon, <1>1, <1>7 DEF CallInv
    <3>2. state'[y] = "queued" <=> state[y] = "queued"
      BY Zenon, <1>1, <1>2 DEF TypeInv
    <3> QED
      BY Zenon, <1>8, <1>14, <3>1, <3>2
  <2>2. ASSUME NEW y \in Writes, state'[y] \in {"new", "done"}
        PROVE  state[y] = state'[y] /\ left'[y] = left[y] /\ error'[y] = error[y]
    <3>1. y # r /\ state[y] = state'[y]
      BY Zenon, <1>1, <1>2, <2>2 DEF TypeInv
    <3>2. state[y] # "queued"
      BY Zenon, <2>2, <3>1
    <3> QED
      BY Zenon, <1>6, <1>14, <1>15, <3>1, <3>2
  <2>3. \A y \in before' : state'[y] \in {"queued", "done"}
    BY Zenon, <1>1, <1>2 DEF CallInv, TypeInv
  <2>4. \A y \in Writes : state'[y] = "queued" <=> \E k \in 1 .. Cnt(t) : It(t, k) = y
    BY Zenon, <1>14, <2>1
  <2> QED
    BY <1>1, <1>2, <1>15, <2>2, <2>3, <2>4 DEF CallInv
<1>20. /\ \A f : f # "ACTIVE" => (Has(f)' <=> Has(f))
       /\ Open' = Open /\ \A y : At(y)' = At(y) /\ In(y)' = In(y)
  BY Zenon, <1>2, <1>4, <1>5, <1>14, <1>15 DEF Has, Open, At, In, CalledFor
<1>21. PlanInv'
  BY Zenon, <1>1, <1>2, <1>20 DEF PlanInv
<1>22. AtInv'
  <2>1. ~At("write") /\ ~At("drain") /\ ~Has("CLOSED")
    BY Zenon, <1>1, <1>2 DEF At, Script, PlanInv, Open
  <2> QED
    BY Zenon, <1>20, <2>1 DEF AtInv
<1>23. ConnInv'
  <2>1. connect = "done" /\ ~Has("CLOSING")
    BY Zenon, <1>1, <1>2 DEF Open, Connecting, TypeInv
  <2> QED
    BY Zenon, <1>2, <1>20, <2>1 DEF ConnInv
<1>24. StallInv'
  <2>1. queue' # << >> => \/ fed' \/ "out" \in pevents'
                          \/ In("write")' \/ In("flush")'
    <3> SUFFICES ASSUME queue' # << >>, ~fed', ~In("write"), ~In("flush")
                 PROVE  "out" \in pevents'
      BY Zenon, <1>20
    <3>1. Len(v.queue) <= Len(queue) + 1 /\ Len(v.queue) > 1 /\ Len(v.queue) \in Nat
      <4>1. Len(u.queue) = Len(queue) + 1
        BY <1>5, AppendIs
      <4> QED
        BY Zenon, <1>4, <1>14, <1>15, <4>1, Fields DEF SameItems
    <3>2. Len(queue) > 0
      BY <1>5, <3>1
    <3>3. queue # << >>
      BY <1>5, <3>2
    <3>4. ~fed
      BY Zenon, <1>4, <1>14, <1>15 DEF CalledFor
    <3>5. "out" \in pevents
      BY Zenon, <1>1, <1>2, <3>3, <3>4 DEF StallInv
    <3> QED
      BY Zenon, <1>4, <1>14, <1>15, <3>5 DEF CalledFor
  <2>2. /\ pevents' \subseteq {"in", "out"} /\ ("in" \in pevents' <=> "in" \in v.pevents)
        /\ "out" \in pevents /\ "out" \in v.pevents => "out" \in pevents'
    BY Zenon, <1>4, <1>14, <1>15, Fields
  <2>3. \A y \in {"flush", "callbacks", "drain", "ended"} : In(y)' <=> In(y)
    BY Zenon, <1>20
  <2> QED
    BY Zenon, <1>2, <1>4, <1>5, <1>14, <1>15, <2>1, <2>2, <2>3, CalledForKeeps
<1>25. ClosingInv'
  <2>1. dead => dead'
    BY Zenon, <1>4, <1>5, <1>13, <1>15 DEF CalledFor, Leaves
  <2> QED
    BY Zenon, <1>2, <1>20, <2>1 DEF Inv, ClosingInv, Open
<1> QED
  BY Zenon, <1>17, <1>18, <1>19, <1>21, <1>22, <1>23, <1>24, <1>25 DEF Inv

-----------------------------------------------------------------------------
(* The lists of steps that a call from the loop starts with.               *)

LEMMA Lists ==
  /\ << >> \in Seq(StepNames) /\ Plan(<< >>) /\ \A x : ~Among(x, << >>)
  /\ <<"read">> \in Seq(StepNames) /\ Plan(<<"read">>)
  /\ \A x : Among(x, <<"read">>) <=> x = "read"
  /\ <<"open">> \in Seq(StepNames) /\ Plan(<<"open">>)
  /\ \A x : Among(x, <<"open">>) <=> x = "open"
  /\ <<"cb">> \in Seq(StepNames) /\ Plan(<<"cb">>)
  /\ \A x : Among(x, <<"cb">>) <=> x = "cb"
  BY DEF Plan, Among, StepNames

LEMMA SecondStarts ==
  ASSUME NEW S, NEW s \in Seq(S), NEW t \in Seq(S), 1 \in 1 .. Len(t)
  PROVE  (s \o t)[Len(s) + 1] = t[1]
  OBVIOUS

LEMMA OneMore ==
  ASSUME NEW s \in Seq(StepNames), NEW t \in Seq(StepNames), Len(t) = 1
  PROVE  Len(s \o t) = Len(s) + 1 /\ (s \o t)[Len(s) + 1] = t[1]
<1>1. 1 \in 1 .. Len(t)
  OBVIOUS
<1>2. Len(s \o t) = Len(s) + Len(t)
  BY Zenon, ConcatIs
<1>3. (s \o t)[Len(s) + 1] = t[1]
  BY ONLY s \in Seq(StepNames), t \in Seq(StepNames), <1>1, SecondStarts
<1> QED
  BY Zenon, <1>2, <1>3

LEMMA Pairs ==
  /\ <<"open", "eof">> \in Seq(StepNames) /\ Plan(<<"open", "eof">>)
  /\ \A x : Among(x, <<"open", "eof">>) <=> x \in {"open", "eof"}
  /\ \A y \in {"ended", "failed", "partial"} :
       /\ <<"cb", y>> \in Seq(StepNames) /\ Plan(<<"cb", y>>)
       /\ \A x : Among(x, <<"cb", y>>) <=> x \in {"cb", y}
<1>1. /\ <<"open", "eof">> \in Seq(StepNames) /\ Len(<<"open", "eof">>) = 2
      /\ <<"open", "eof">>[1] = "open" /\ <<"open", "eof">>[2] = "eof"
  BY DEF StepNames
<1>2. \A k : k \in 1 .. 2 <=> k \in {1, 2}
  OBVIOUS
<1>3. ASSUME NEW y \in {"ended", "failed", "partial"}
      PROVE  /\ <<"cb", y>> \in Seq(StepNames) /\ Plan(<<"cb", y>>)
             /\ \A x : Among(x, <<"cb", y>>) <=> x \in {"cb", y}
  <2>1. /\ <<"cb", y>> \in Seq(StepNames) /\ Len(<<"cb", y>>) = 2
        /\ <<"cb", y>>[1] = "cb" /\ <<"cb", y>>[2] = y
    BY DEF StepNames
  <2> QED
    BY Zenon, <1>2, <2>1 DEF Plan, Among
<1> QED
  BY <1>1, <1>2, <1>3 DEF Plan, Among

LEMMA Triples ==
  /\ <<"write", "callbacks", "drain">> \in Seq(StepNames)
  /\ Plan(<<"write", "callbacks", "drain">>)
  /\ \A x : Among(x, <<"write", "callbacks", "drain">>) <=> x \in {"write", "callbacks", "drain"}
  /\ <<"open", "flush", "callbacks">> \in Seq(StepNames)
  /\ Plan(<<"open", "flush", "callbacks">>)
  /\ \A x : Among(x, <<"open", "flush", "callbacks">>) <=> x \in {"open", "flush", "callbacks"}
  /\ <<"flush", "callbacks", "cancel">> \in Seq(StepNames)
  /\ Plan(<<"flush", "callbacks", "cancel">>)
  /\ \A x : Among(x, <<"flush", "callbacks", "cancel">>) <=> x \in {"flush", "callbacks", "cancel"}
<1>1. \A k : k \in 1 .. 3 <=> k \in {1, 2, 3}
  OBVIOUS
<1> DEFINE a == <<"write", "callbacks", "drain">>
           b == <<"open", "flush", "callbacks">>
           c == <<"flush", "callbacks", "cancel">>
<1>2. /\ a \in Seq(StepNames) /\ Len(a) = 3 /\ a[1] = "write" /\ a[2] = "callbacks" /\ a[3] = "drain"
      /\ b \in Seq(StepNames) /\ Len(b) = 3 /\ b[1] = "open" /\ b[2] = "flush" /\ b[3] = "callbacks"
      /\ c \in Seq(StepNames) /\ Len(c) = 3 /\ c[1] = "flush" /\ c[2] = "callbacks" /\ c[3] = "cancel"
  BY DEF StepNames
<1> HIDE DEF a, b, c
<1>3. \A x : Among(x, a) <=> x \in {"write", "callbacks", "drain"}
  BY Zenon, <1>1, <1>2 DEF Among
<1>4. \A x : Among(x, b) <=> x \in {"open", "flush", "callbacks"}
  BY Zenon, <1>1, <1>2 DEF Among
<1>5. \A x : Among(x, c) <=> x \in {"flush", "callbacks", "cancel"}
  BY Zenon, <1>1, <1>2 DEF Among
<1>6. Plan(a)
  <2>1. ~Among("read", a)
    BY <1>3
  <2> QED
    BY <1>1, <1>2, <2>1 DEF Plan
<1>7. Plan(b)
  <2>1. ~Among("read", b)
    BY <1>4
  <2> QED
    BY <1>1, <1>2, <2>1 DEF Plan
<1>8. Plan(c)
  <2>1. ~Among("read", c)
    BY <1>5
  <2> QED
    BY <1>1, <1>2, <2>1 DEF Plan
<1> QED
  BY Zenon, <1>2, <1>3, <1>4, <1>5, <1>6, <1>7, <1>8 DEF a, b, c

\* The steps of uv__stream_io.
LEMMA StreamIoIs ==
  ASSUME NEW events, StreamIo(events), TypeInv, Instance
  PROVE  /\ todo' \in Seq(StepNames) /\ Plan(todo') /\ todo' # << >>
         /\ Head(todo') \in {"read", "open"} /\ ~Among("ended", todo')
         /\ ~Among("flush", todo')
         /\ "out" \in events => \A x \in {"write", "callbacks", "drain"} : Among(x, todo')
         /\ count' \in Nat /\ flags' \subseteq flags /\ flags \ flags' \subseteq {"PARTIAL"}
<1> DEFINE R == Steps(<<"read">>, events \cap {"in", "err", "hup"} # {})
           E == Steps(<<"open", "eof">>, "hup" \in events)
           W == Steps(<<"write", "callbacks", "drain">>, events \cap {"out", "err", "hup"} # {})
           o == <<"open">>
<1>1. todo' = ((R \o E) \o o) \o W
  BY Zenon DEF StreamIo
<1>2. /\ R \in Seq(StepNames) /\ Plan(R) /\ \A x : Among(x, R) => x = "read"
      /\ R # << >> => R[1] = "read"
  BY Zenon, Lists DEF Steps
<1>3. /\ E \in Seq(StepNames) /\ Plan(E) /\ \A x : Among(x, E) => x \in {"open", "eof"}
      /\ E # << >> => E[1] = "open"
  BY Zenon, Lists, Pairs DEF Steps
<1>4. /\ W \in Seq(StepNames) /\ Plan(W)
      /\ \A x : Among(x, W) => x \in {"write", "callbacks", "drain"}
      /\ W # << >> => W[1] = "write"
      /\ "out" \in events => \A x \in {"write", "callbacks", "drain"} : Among(x, W)
  BY Zenon, Lists, Triples DEF Steps
<1>5. /\ o \in Seq(StepNames) /\ Plan(o) /\ \A x : Among(x, o) <=> x = "open"
      /\ o[1] = "open" /\ o # << >> /\ Len(o) = 1
  BY Zenon, Lists
<1> HIDE DEF R, E, W, o
<1>6. PICK s : s = R \o E
  BY Zenon
<1>7. /\ s \in Seq(StepNames) /\ Plan(s) /\ \A x : Among(x, s) => x \in {"read", "open", "eof"}
      /\ s # << >> => s[1] \in {"read", "open"}
  <2>1. Fit(R, E)
    BY <1>2, <1>3 DEF Fit
  <2>2. s \in Seq(StepNames) /\ Plan(s) /\ \A x : Among(x, s) <=> Among(x, R) \/ Among(x, E)
    BY Zenon, <1>2, <1>3, <1>6, <2>1, PlansJoin, Joined
  <2>3. s # << >> => s[1] \in {"read", "open"}
    <3>1. CASE R # << >>
      BY Zenon, <1>2, <1>3, <1>6, <3>1, Joined
    <3>2. CASE R = << >>
      <4>1. s = E
        BY <1>3, <1>6, <3>2
      <4> QED
        BY Zenon, <1>3, <4>1
    <3> QED
      BY Zenon, <3>1, <3>2
  <2> QED
    BY Zenon, <1>2, <1>3, <2>2, <2>3
<1>8. PICK z : z = s \o o
  BY Zenon
<1>9. /\ z \in Seq(StepNames) /\ Plan(z) /\ \A x : Among(x, z) => x \in {"read", "open", "eof"}
      /\ z # << >> /\ z[1] \in {"read", "open"} /\ z[Len(z)] = "open"
  <2>1. Fit(s, o)
    BY <1>5, <1>7 DEF Fit
  <2>2. z \in Seq(StepNames) /\ Plan(z) /\ \A x : Among(x, z) <=> Among(x, s) \/ Among(x, o)
    BY Zenon, <1>5, <1>7, <1>8, <2>1, PlansJoin, Joined
  <2>3. Len(z) = Len(s) + 1 /\ z[Len(s) + 1] = o[1] /\ Len(s) \in Nat
    <3>1. Len(s \o o) = Len(s) + 1 /\ (s \o o)[Len(s) + 1] = o[1]
      BY Zenon, <1>5, <1>7, OneMore
    <3>2. Len(s) \in Nat
      BY <1>7
    <3> QED
      BY Zenon, <1>8, <3>1, <3>2
  <2>4. z # << >> /\ z[Len(z)] = "open"
    <3>1. z[Len(z)] = "open"
      BY Zenon, <1>5, <2>3
    <3>2. Len(z) > 0
      BY <2>3
    <3>3. z # << >>
      BY <2>2, <3>2
    <3> QED
      BY Zenon, <3>1, <3>3
  <2>5. z[1] \in {"read", "open"}
    <3>1. CASE s # << >>
      BY Zenon, <1>5, <1>7, <1>8, <3>1, Joined
    <3>2. CASE s = << >>
      <4>1. z = o
        BY <1>5, <1>8, <3>2
      <4> QED
        BY Zenon, <1>5, <4>1
    <3> QED
      BY Zenon, <3>1, <3>2
  <2> QED
    BY Zenon, <1>5, <1>7, <2>2, <2>4, <2>5
<1>10. PICK t : t = z \o W
  BY Zenon
<1>11. todo' = t
  BY Zenon, <1>1, <1>6, <1>8, <1>10
<1>12. /\ t \in Seq(StepNames) /\ Plan(t) /\ t # << >> /\ Head(t) \in {"read", "open"}
       /\ \A x : Among(x, t) <=> Among(x, z) \/ Among(x, W)
  <2>1. Fit(z, W)
    BY <1>4, <1>9 DEF Fit
  <2> QED
    BY Zenon, <1>4, <1>9, <1>10, <2>1, PlansJoin, Joined
<1>13. ~Among("ended", t) /\ ~Among("flush", t)
  BY <1>4, <1>9, <1>12
<1>14. count' \in Nat /\ flags' \subseteq flags /\ flags \ flags' \subseteq {"PARTIAL"}
  BY Zenon DEF StreamIo, Instance, TypeInv
<1> QED
  BY Zenon, <1>4, <1>11, <1>12, <1>13, <1>14

LEMMA ConnectedIs ==
  ASSUME NEW failed \in BOOLEAN, uv__stream_connect(failed)
  PROVE  /\ todo' \in Seq(StepNames) /\ Plan(todo') /\ todo' # << >> /\ Head(todo') = "cb"
         /\ ~Among("ended", todo')
         /\ failed => Among("flush", todo') /\ Among("callbacks", todo')
         /\ Among("flush", todo') => failed
<1> DEFINE F == Steps(<<"open", "flush", "callbacks">>, failed)
           c == <<"cb">>
<1>1. todo' = c \o F
  BY Zenon DEF uv__stream_connect
<1>2. /\ F \in Seq(StepNames) /\ Plan(F) /\ (F # << >> => F[1] = "open")
      /\ \A x : Among(x, F) => x \in {"open", "flush", "callbacks"}
      /\ failed => \A x \in {"flush", "callbacks"} : Among(x, F)
      /\ Among("flush", F) => failed
  BY Zenon, Lists, Triples DEF Steps
<1>3. /\ c \in Seq(StepNames) /\ Plan(c) /\ c # << >> /\ c[1] = "cb"
      /\ \A x : Among(x, c) <=> x = "cb"
  BY Zenon, Lists
<1> HIDE DEF F, c
<1>4. Fit(c, F)
  BY <1>2, <1>3 DEF Fit
<1>5. PICK t : t = c \o F
  BY Zenon
<1>6. /\ t \in Seq(StepNames) /\ Plan(t) /\ t # << >> /\ Head(t) = "cb"
      /\ \A x : Among(x, t) <=> Among(x, c) \/ Among(x, F)
  BY Zenon, <1>2, <1>3, <1>4, <1>5, PlansJoin, Joined
<1>7. todo' = t
  BY Zenon, <1>1, <1>5
<1>8. ~Among("ended", t)
  BY <1>2, <1>3, <1>6
<1>9. failed => Among("flush", t) /\ Among("callbacks", t)
  BY Zenon, <1>2, <1>6
<1>10. Among("flush", t) => failed
  BY <1>2, <1>3, <1>6
<1> QED
  BY Zenon, <1>6, <1>7, <1>8, <1>9, <1>10

\* The steps of uv__finish_close.
Last == {"cb", "flush", "callbacks", "cancel"}

\* A list of steps with a callback put in front.
LEMMA CbFirst ==
  ASSUME NEW b \in Seq(StepNames), Plan(b),
         b # << >> => b[1] \notin {"write", "drain"},
         Among("read", b) => b # << >> /\ b[1] = "read"
  PROVE  /\ <<"cb">> \o b \in Seq(StepNames) /\ Plan(<<"cb">> \o b)
         /\ <<"cb">> \o b # << >> /\ Head(<<"cb">> \o b) = "cb"
         /\ \A x : Among(x, <<"cb">> \o b) <=> x = "cb" \/ Among(x, b)
<1>1. PICK a \in Seq(StepNames) :
        /\ a = <<"cb">> /\ Plan(a) /\ a # << >> /\ a[1] = "cb" /\ Len(a) = 1
        /\ \A x : Among(x, a) <=> x = "cb"
  BY Zenon, Lists
<1>2. ~Among("drain", a) /\ ~Among("ended", a) /\ ~Among("read", a)
  BY <1>1
<1>3. Fit(a, b)
  BY Zenon, <1>1, <1>2 DEF Fit
<1>4. Plan(a \o b)
  BY Zenon, <1>1, <1>3, PlansJoin
<1>5. /\ a \o b \in Seq(StepNames)
      /\ \A x : Among(x, a \o b) <=> Among(x, a) \/ Among(x, b)
      /\ a # << >> => a \o b # << >> /\ (a \o b)[1] = a[1] /\ Head(a \o b) = a[1]
  BY Zenon, Joined
<1> QED
  BY Zenon, <1>1, <1>4, <1>5

\* The same with what uv__read does after the callback.
LEMMA CbThen ==
  ASSUME NEW b \in Seq(StepNames), Plan(b), NEW y \in {"ended", "failed", "partial"},
         b # << >> => b[1] \notin {"write", "drain"}, ~Among("read", b)
  PROVE  /\ <<"cb", y>> \o b \in Seq(StepNames) /\ Plan(<<"cb", y>> \o b)
         /\ <<"cb", y>> \o b # << >> /\ Head(<<"cb", y>> \o b) = "cb"
         /\ \A x : Among(x, <<"cb", y>> \o b) <=> x \in {"cb", y} \/ Among(x, b)
<1>1. PICK a \in Seq(StepNames) :
        /\ a = <<"cb", y>> /\ Plan(a) /\ a # << >> /\ a[1] = "cb"
        /\ \A x : Among(x, a) <=> x \in {"cb", y}
  <2>1. <<"cb", y>> # << >> /\ <<"cb", y>>[1] = "cb"
    OBVIOUS
  <2> QED
    BY Zenon, <2>1, Pairs
<1>2. ~Among("drain", a) /\ ~Among("read", a)
  BY <1>1
<1>3. Fit(a, b)
  BY Zenon, <1>1, <1>2 DEF Fit
<1>4. Plan(a \o b)
  BY Zenon, <1>1, <1>3, PlansJoin
<1>5. /\ a \o b \in Seq(StepNames)
      /\ \A x : Among(x, a \o b) <=> Among(x, a) \/ Among(x, b)
      /\ a # << >> => a \o b # << >> /\ (a \o b)[1] = a[1] /\ Head(a \o b) = a[1]
  BY Zenon, Joined
<1> QED
  BY Zenon, <1>1, <1>4, <1>5

-----------------------------------------------------------------------------
(* The steps of a call from the loop.                                      *)

\* What is known at a step of a call.
LEMMA Running ==
  ASSUME Inv, NEW step, At(step)
  PROVE  /\ todo \in Seq(StepNames) /\ Plan(todo) /\ todo # << >> /\ todo[1] = step
         /\ In(step) /\ connect = "done"
         /\ Has("CLOSED") => Has("CLOSING") /\ \A x : In(x) => x \in Last
<1>1. todo \in Seq(StepNames) /\ todo # << >> /\ Head(todo) = step /\ Plan(todo)
  BY Zenon DEF Inv, TypeInv, PlanInv, At
<1>2. todo[1] = step
  BY Zenon, <1>1, Rest
<1>3. 1 \in 1 .. Len(todo)
  BY <1>1
<1>4. In(step)
  BY Zenon, <1>2, <1>3 DEF In, Among
<1>5. connect = "done"
  BY Zenon, <1>1 DEF Inv, ConnInv
<1>6. Has("CLOSED") => Has("CLOSING") /\ \A x : In(x) => x \in Last
  BY Zenon DEF Inv, PlanInv, In, Among, Last
<1> QED
  BY Zenon, <1>1, <1>2, <1>4, <1>5, <1>6

\* A step that leaves the requests alone and keeps the steps that wait.
LEMMA QuietKeeps ==
  ASSUME Inv, connect = "done", UNCHANGED <<calls, connect, fed, queues, dead, stranded>>,
         todo' \in Seq(StepNames), Plan(todo'), count' \in Nat,
         flags' \subseteq Flags, pevents' \subseteq {"in", "out"},
         \A f \in {"CLOSING", "CLOSED", "SHUT", "SHUTTING"} : Has(f)' <=> Has(f),
         "out" \in pevents' <=> "out" \in pevents,
         Has("CLOSING") => pevents' = {} /\ ~Has("READING")',
         In("flush")' => In("flush"),
         Open \/ Has("CLOSED") =>
           /\ \A x \in {"write", "flush", "drain"} : In(x) => In(x)'
           /\ completed # << >> /\ In("callbacks") => In("callbacks")',
         Has("CLOSED") => \A x : In(x)' => x \in Last,
         At("write")' => ~Has("CLOSING"),
         At("drain")' => completed = << >>,
         Open => /\ "in" \in pevents' => Has("ACTIVE")'
                 /\ Has("READING")' /\ ~In("ended")' => Has("ACTIVE")' /\ "in" \in pevents'
  PROVE  Inv'
<1>1. TypeInv /\ PlanInv /\ AtInv /\ ConnInv /\ StallInv /\ ClosingInv
  BY Zenon DEF Inv
<1>2. /\ connect' = connect /\ fed' = fed /\ dead' = dead /\ stranded' = stranded
      /\ queue' = queue /\ completed' = completed /\ UNCHANGED <<calls, queues>>
      /\ dead \in BOOLEAN /\ fed \in BOOLEAN /\ stranded \in BOOLEAN
  BY Zenon, <1>1, Vars DEF queues, TypeInv
<1>3. TypeInv' /\ Good(Now, asked)' /\ CallInv'
  <2>1. flags \cap {"SHUT", "CLOSING"} \subseteq flags'
    BY Zenon DEF Has
  <2>2. connect' \in {"none", "inprogress", "delayed", "done"}
    BY Zenon, <1>2
  <2>3. fed' \in BOOLEAN /\ dead' \in BOOLEAN /\ stranded' \in BOOLEAN /\ (dead => dead')
    BY <1>2
  <2> QED
    BY Zenon, <1>2, <2>1, <2>2, <2>3, FrameKeeps
<1>4. PlanInv'
  <2>1. Has("CLOSED")' => \A k \in 1 .. Len(todo') : todo'[k] \in Last
    BY Zenon DEF In, Among
  <2> QED
    BY Zenon, <1>1, <2>1 DEF PlanInv, Last
<1>5. Open' <=> Open
  BY Zenon, <1>2 DEF Open
<1>6. AtInv'
  <2>1. At("write")' => Open'
    BY Zenon, <1>2, <1>5 DEF Open
  <2> QED
    BY Zenon, <1>1, <1>2, <2>1 DEF AtInv
<1>7. ConnInv'
  BY Zenon, <1>2 DEF ConnInv
<1>8. StallInv'
  <2>1. (fed' <=> fed) /\ (stranded' <=> stranded)
    BY <1>2
  <2> QED
    BY Zenon, <1>1, <1>2, <1>5, <2>1 DEF StallInv
<1>9. ClosingInv'
  <2>1. (fed' <=> fed) /\ (dead' <=> dead)
    BY <1>2
  <2> QED
    BY Zenon, <1>1, <2>1 DEF ClosingInv
<1> QED
  BY Zenon, <1>3, <1>4, <1>6, <1>7, <1>8, <1>9 DEF Inv

\* What remains to be shown of a step that only takes the next step of the list,
\* or puts callbacks in its place.
LEMMA NextStep ==
  ASSUME Inv, NEW step, At(step), step \notin {"write", "flush", "callbacks", "drain", "open"},
         todo' = Tail(todo)
  PROVE  /\ todo' \in Seq(StepNames) /\ Plan(todo')
         /\ \A x : In(x)' => In(x)
         /\ \A x : In(x) /\ x # step => In(x)'
         /\ ~At("write")' /\ ~At("drain")'
<1>1. /\ todo \in Seq(StepNames) /\ Plan(todo) /\ todo # << >> /\ todo[1] = step
  BY Zenon, Running
<1>2. /\ Tail(todo) \in Seq(StepNames) /\ Plan(Tail(todo))
      /\ \A x : Among(x, Tail(todo)) => Among(x, todo)
      /\ \A x : Among(x, todo) => Among(x, Tail(todo)) \/ todo[1] = x
      /\ Tail(todo) # << >> =>
              /\ Tail(todo)[1] = Head(Tail(todo))
              /\ Tail(todo)[1] = "write" => todo[1] = "open"
              /\ Tail(todo)[1] = "drain" => todo[1] = "callbacks"
  BY Zenon, <1>1, Rest
<1> QED
  BY Zenon, <1>1, <1>2 DEF In, At

LEMMA CallbackReturnsKeeps ==
  ASSUME Inv, CallbackReturns
  PROVE  Inv'
<1>1. /\ At("cb") /\ todo' = Tail(todo) /\ flags' = flags /\ pevents' = pevents
      /\ count' = count /\ UNCHANGED <<calls, connect, fed, queues, dead, stranded>>
  BY Zenon DEF CallbackReturns
<1>2. connect = "done" /\ (Has("CLOSED") => \A x : In(x) => x \in Last)
  BY Zenon, <1>1, Running
<1>3. /\ todo' \in Seq(StepNames) /\ Plan(todo') /\ \A x : In(x)' => In(x)
      /\ \A x : In(x) /\ x # "cb" => In(x)'
      /\ ~At("write")' /\ ~At("drain")'
  BY Zenon, <1>1, NextStep
<1>4. /\ \A x \in {"write", "flush", "drain"} : In(x) => In(x)'
      /\ In("callbacks") => In("callbacks")'
      /\ In("ended") => In("ended")'
  BY Zenon, <1>3
<1>5. \A f : Has(f)' <=> Has(f)
  BY Zenon, <1>1 DEF Has
<1>6. count' \in Nat /\ flags' \subseteq Flags /\ pevents' \subseteq {"in", "out"}
  BY Zenon, <1>1, Vars DEF Inv, TypeInv
<1>7. /\ Has("CLOSING") => pevents' = {} /\ ~Has("READING")'
      /\ Open => /\ "in" \in pevents' => Has("ACTIVE")'
                 /\ Has("READING")' /\ ~In("ended")' => Has("ACTIVE")' /\ "in" \in pevents'
  BY Zenon, <1>1, <1>4, <1>5 DEF Inv, StallInv, ClosingInv
<1> QED
  BY Zenon, <1>1, <1>2, <1>3, <1>4, <1>5, <1>6, <1>7, QuietKeeps

LEMMA CheckOpenKeeps ==
  ASSUME Inv, CheckOpen
  PROVE  Inv'
<1>1. /\ At("open") /\ flags' = flags /\ pevents' = pevents /\ todo' = UnlessClosed
      /\ count' = count /\ UNCHANGED <<calls, connect, fed, queues, dead, stranded>>
  BY Zenon DEF CheckOpen
<1>2. /\ todo \in Seq(StepNames) /\ Plan(todo) /\ todo # << >> /\ todo[1] = "open"
      /\ connect = "done" /\ ~Has("CLOSED")
  <2>1. "open" \notin Last
    BY Zenon DEF Last
  <2> QED
    BY Zenon, <1>1, <2>1, Running
<1>3. \A f : Has(f)' <=> Has(f)
  BY Zenon, <1>1 DEF Has
<1>4. count' \in Nat /\ flags' \subseteq Flags /\ pevents' \subseteq {"in", "out"}
  BY Zenon, <1>1, Vars DEF Inv, TypeInv
<1>5. CASE Has("CLOSING")
  <2>1. todo' = << >>
    BY Zenon, <1>1, <1>5 DEF UnlessClosed
  <2>2. /\ todo' \in Seq(StepNames) /\ Plan(todo') /\ \A x : ~In(x)'
    BY Zenon, <2>1, Lists DEF In
  <2>3. ~At("write")' /\ ~At("drain")' /\ ~Open
    BY Zenon, <1>5, <2>1 DEF At, Open
  <2>4. pevents' = {} /\ ~Has("READING")'
    BY Zenon, <1>1, <1>3, <1>5 DEF Inv, ClosingInv
  <2> QED
    BY Zenon, <1>1, <1>2, <1>3, <1>4, <2>2, <2>3, <2>4, QuietKeeps
<1>6. CASE ~Has("CLOSING")
  <2>1. todo' = Tail(todo)
    BY Zenon, <1>1, <1>6 DEF UnlessClosed
  <2>2. /\ Tail(todo) \in Seq(StepNames) /\ Plan(Tail(todo))
        /\ \A x : Among(x, Tail(todo)) => Among(x, todo)
        /\ \A x : Among(x, todo) => Among(x, Tail(todo)) \/ todo[1] = x
        /\ Tail(todo) # << >> =>
              /\ Tail(todo)[1] = Head(Tail(todo))
              /\ Tail(todo)[1] = "drain" => todo[1] = "callbacks"
    BY Zenon, <1>2, Rest
  <2>3. /\ \A x : In(x)' => In(x)
        /\ \A x \in {"write", "flush", "drain", "callbacks", "ended"} : In(x) => In(x)'
    BY Zenon, <1>2, <2>1, <2>2 DEF In
  <2>4. ~At("drain")'
    BY Zenon, <1>2, <2>1, <2>2 DEF At
  <2>5. Open => /\ "in" \in pevents' => Has("ACTIVE")'
                /\ Has("READING")' /\ ~In("ended")' => Has("ACTIVE")' /\ "in" \in pevents'
    BY Zenon, <1>1, <1>3, <2>3 DEF Inv, StallInv
  <2>6. todo' \in Seq(StepNames) /\ Plan(todo')
    BY Zenon, <2>1, <2>2
  <2> QED
    BY Zenon, <1>1, <1>2, <1>3, <1>4, <1>6, <2>3, <2>4, <2>5, <2>6, QuietKeeps
<1> QED
  BY Zenon, <1>5, <1>6

\* The list of steps when callbacks take the place of the first step.
LEMMA Replaced ==
  ASSUME Inv, NEW step, At(step), step \notin {"write", "flush", "callbacks", "drain", "open", "cb"},
         \/ todo' = <<"cb">> \o Tail(todo)
         \/ \E y \in {"ended", "failed", "partial"} : todo' = <<"cb", y>> \o Tail(todo)
  PROVE  /\ todo' \in Seq(StepNames) /\ Plan(todo')
         /\ In("flush")' => In("flush")
         /\ \A x \in {"write", "flush", "drain", "callbacks"} : In(x) => In(x)'
         /\ ~At("write")' /\ ~At("drain")'
         /\ todo' = <<"cb", "ended">> \o Tail(todo) => In("ended")'
         /\ In("ended") /\ step # "ended" => In("ended")'
         /\ todo' = <<"cb">> \o Tail(todo) => \A x : In(x)' => x = "cb" \/ In(x)
<1>1. /\ todo \in Seq(StepNames) /\ Plan(todo) /\ todo # << >> /\ todo[1] = step
  BY Zenon, Running
<1>2. PICK b : b = Tail(todo)
  BY Zenon
<1>3. /\ b \in Seq(StepNames) /\ Plan(b)
      /\ \A x : Among(x, b) => Among(x, todo)
      /\ \A x : Among(x, todo) => Among(x, b) \/ step = x
      /\ b # << >> => (b[1] = "write" => step = "open") /\ (b[1] = "drain" => step = "callbacks")
      /\ Among("read", b) => step = "cb"
  BY Zenon, <1>1, <1>2, Rest
<1>4. (b # << >> => b[1] \notin {"write", "drain"}) /\ ~Among("read", b)
  BY Zenon, <1>3
<1>5. CASE todo' = <<"cb">> \o b
  <2>1. /\ todo' \in Seq(StepNames) /\ Plan(todo') /\ Head(todo') = "cb"
        /\ \A x : Among(x, todo') <=> x = "cb" \/ Among(x, b)
    BY Zenon, <1>3, <1>4, <1>5, CbFirst
  <2>2. \A x : In(x)' <=> x = "cb" \/ Among(x, b)
    BY Zenon, <2>1 DEF In
  <2>3. \A x : In(x) => Among(x, b) \/ x = step
    BY Zenon, <1>3 DEF In
  <2>4. ~At("write")' /\ ~At("drain")'
    BY Zenon, <2>1 DEF At
  <2>5. \A x : In(x)' => x = "cb" \/ In(x)
    BY Zenon, <1>3, <2>2 DEF In
  <2>6. In("flush")' => In("flush")
    BY Zenon, <2>5
  <2>7. \A x \in {"write", "flush", "drain", "callbacks"} : In(x) => In(x)'
    BY Zenon, <2>2, <2>3
  <2>8. In("ended") /\ step # "ended" => In("ended")'
    BY Zenon, <2>2, <2>3
  <2>9. todo' # <<"cb", "ended">> \o b
    <3>1. Len(<<"cb">> \o b) = 1 + Len(b) /\ Len(<<"cb", "ended">> \o b) = 2 + Len(b) /\ Len(b) \in Nat
      BY <1>3, Lists, Pairs, ConcatIs
    <3> QED
      BY <1>5, <3>1
  <2> QED
    BY Zenon, <1>2, <2>1, <2>4, <2>5, <2>6, <2>7, <2>8, <2>9
<1>6. ASSUME NEW y \in {"ended", "failed", "partial"}, todo' = <<"cb", y>> \o b
      PROVE  /\ todo' \in Seq(StepNames) /\ Plan(todo') /\ Head(todo') = "cb"
             /\ \A x : In(x)' <=> x \in {"cb", y} \/ Among(x, b)
  BY Zenon, <1>3, <1>4, <1>6, CbThen DEF In
<1>7. ASSUME NEW y \in {"ended", "failed", "partial"}, todo' = <<"cb", y>> \o b
      PROVE  /\ todo' \in Seq(StepNames) /\ Plan(todo')
             /\ In("flush")' => In("flush")
             /\ \A x \in {"write", "flush", "drain", "callbacks"} : In(x) => In(x)'
             /\ ~At("write")' /\ ~At("drain")'
             /\ y = "ended" => In("ended")'
             /\ In("ended") /\ step # "ended" => In("ended")'
             /\ todo' # <<"cb">> \o b
  <2>1. \A x : In(x)' <=> x \in {"cb", y} \/ Among(x, b)
    BY Zenon, <1>6, <1>7
  <2>2. \A x : In(x) => Among(x, b) \/ x = step
    BY Zenon, <1>3 DEF In
  <2>3. \A x : Among(x, b) => In(x)
    BY Zenon, <1>3 DEF In
  <2>4. In("flush")' => In("flush")
    BY Zenon, <2>1, <2>3
  <2>5. \A x \in {"write", "flush", "drain", "callbacks"} : In(x) => In(x)'
    BY Zenon, <2>1, <2>2
  <2>6. ~At("write")' /\ ~At("drain")'
    BY Zenon, <1>6, <1>7 DEF At
  <2>7. /\ y = "ended" => In("ended")'
        /\ In("ended") /\ step # "ended" => In("ended")'
    BY Zenon, <2>1, <2>2
  <2>8. todo' # <<"cb">> \o b
    <3>1. Len(<<"cb">> \o b) = 1 + Len(b) /\ Len(<<"cb", y>> \o b) = 2 + Len(b) /\ Len(b) \in Nat
      BY <1>3, Lists, Pairs, ConcatIs
    <3> QED
      BY <1>7, <3>1
  <2> QED
    BY Zenon, <1>6, <1>7, <2>4, <2>5, <2>6, <2>7, <2>8
<1>8. ASSUME NEW y \in {"ended", "failed", "partial"}, todo' = <<"cb", y>> \o b,
             todo' = <<"cb", "ended">> \o b
      PROVE  In("ended")'
  BY Zenon, <1>7, <1>8
<1> QED
  BY Zenon, <1>2, <1>5, <1>7, <1>8

\* The end of the stream, reported at a step of uv__stream_io.
LEMMA EofKeeps ==
  ASSUME Inv, NEW step, At(step), step \in {"read", "eof"},
         uv__stream_eof(Tail(todo)), count' \in Nat, Has("READING"),
         UNCHANGED <<calls, connect, fed, queues, dead, stranded>>
  PROVE  Inv'
<1>1. StopIn(flags \cup {"EOF"}) /\ todo' = <<"cb", "ended">> \o Tail(todo)
  BY Zenon DEF uv__stream_eof
<1>2. step \notin {"write", "flush", "callbacks", "drain", "open", "cb"} /\ step \notin Last
  BY Zenon DEF Last
<1>3. connect = "done" /\ ~Has("CLOSED") /\ ~Has("CLOSING")
  BY Zenon, <1>2, Running DEF Inv, ClosingInv
<1>4. /\ todo' \in Seq(StepNames) /\ Plan(todo') /\ (In("flush")' => In("flush"))
      /\ \A x \in {"write", "flush", "drain", "callbacks"} : In(x) => In(x)'
      /\ ~At("write")' /\ ~At("drain")' /\ In("ended")'
  BY Zenon, <1>1, <1>2, Replaced
<1>5. /\ pevents' = pevents \ {"in"} /\ flags' \subseteq flags \cup {"EOF"}
      /\ \A f : f # "ACTIVE" => (Has(f)' <=> f \in flags \cup {"EOF"})
  BY Zenon, <1>1, StopInIs
<1>6. \A f \in {"CLOSING", "CLOSED", "SHUT", "SHUTTING"} : Has(f)' <=> Has(f)
  BY Zenon, <1>5 DEF Has
<1>7. flags' \subseteq Flags /\ pevents' \subseteq {"in", "out"}
  <2>1. "EOF" \in Flags /\ flags \subseteq Flags /\ pevents \subseteq {"in", "out"}
    BY Zenon, Vars DEF Inv, Flags
  <2> QED
    BY Zenon, <1>5, <2>1
<1>8. ("out" \in pevents' <=> "out" \in pevents) /\ "in" \notin pevents'
  BY Zenon, <1>5
<1> QED
  BY Zenon, <1>3, <1>4, <1>6, <1>7, <1>8, QuietKeeps

LEMMA ReadKeeps ==
  ASSUME Inv, uv__read
  PROVE  Inv'
<1>1. At("read") /\ UNCHANGED <<calls, connect, fed, queues, dead, stranded>>
  BY Zenon DEF uv__read
<1>2. /\ todo \in Seq(StepNames) /\ Plan(todo) /\ todo # << >> /\ todo[1] = "read"
      /\ In("read") /\ connect = "done" /\ ~Has("CLOSED")
  <2>1. "read" \notin Last
    BY Zenon DEF Last
  <2> QED
    BY Zenon, <1>1, <2>1, Running
<1>3. ~In("ended")
  BY Zenon, <1>2 DEF Plan, In
<1>4. /\ count \in Nat /\ flags \subseteq Flags /\ pevents \subseteq {"in", "out"}
  BY Zenon, Vars DEF Inv, TypeInv
<1>5. "read" \notin {"write", "flush", "callbacks", "drain", "open", "cb"}
  OBVIOUS
<1>6. ASSUME flags' = flags
      PROVE  \A f : Has(f)' <=> Has(f)
  BY Zenon, <1>6 DEF Has
<1>7. ASSUME flags' = flags, pevents' = pevents
      PROVE  /\ flags' \subseteq Flags /\ pevents' \subseteq {"in", "out"}
             /\ Has("CLOSING") => pevents' = {} /\ ~Has("READING")'
             /\ Open => /\ "in" \in pevents' => Has("ACTIVE")'
                        /\ Has("READING")' => Has("ACTIVE")' /\ "in" \in pevents'
  BY Zenon, <1>3, <1>4, <1>6, <1>7 DEF Inv, StallInv, ClosingInv
<1>8. CASE /\ count > 0 /\ count' = count - 1
           /\ todo' = <<"cb">> \o todo /\ UNCHANGED <<flags, pevents>>
  <2>1. /\ todo' \in Seq(StepNames) /\ Plan(todo') /\ Head(todo') = "cb"
        /\ \A x : Among(x, todo') <=> x = "cb" \/ Among(x, todo)
    <3>1. todo[1] \notin {"write", "drain"}
      BY Zenon, <1>2
    <3> QED
      BY Zenon, <1>2, <1>8, <3>1, CbFirst
  <2>2. \A x : In(x)' <=> x = "cb" \/ In(x)
    BY Zenon, <2>1 DEF In
  <2>3. In("flush")' => In("flush")
    BY Zenon, <2>2
  <2>4. \A x \in {"write", "flush", "drain", "callbacks"} : In(x) => In(x)'
    BY Zenon, <2>2
  <2>5. ~At("write")' /\ ~At("drain")'
    BY Zenon, <2>1 DEF At
  <2>6. count' \in Nat
    BY <1>4, <1>8
  <2> QED
    BY Zenon, <1>1, <1>2, <1>6, <1>7, <1>8, <2>1, <2>3, <2>4, <2>5, <2>6, QuietKeeps
<1>9. CASE /\ Has("READING") /\ count' = 0
           /\ todo' = <<"cb">> \o Tail(todo)
           /\ pevents' = pevents \cup {"in"} /\ UNCHANGED flags
  <2>1. /\ todo' \in Seq(StepNames) /\ Plan(todo') /\ (In("flush")' => In("flush"))
        /\ \A x \in {"write", "flush", "drain", "callbacks"} : In(x) => In(x)'
        /\ ~At("write")' /\ ~At("drain")'
    BY Zenon, <1>1, <1>5, <1>9, Replaced
  <2>2. Open => Has("ACTIVE")' /\ "in" \in pevents'
    BY Zenon, <1>3, <1>6, <1>9 DEF Inv, StallInv
  <2>3. ~Has("CLOSING")
    BY Zenon, <1>9 DEF Inv, ClosingInv
  <2>4. /\ "out" \in pevents' <=> "out" \in pevents
        /\ flags' \subseteq Flags /\ pevents' \subseteq {"in", "out"} /\ count' \in Nat
    BY Zenon, <1>4, <1>9
  <2> QED
    BY Zenon, <1>1, <1>2, <1>6, <1>9, <2>1, <2>2, <2>3, <2>4, QuietKeeps
<1>10. ASSUME NEW y \in {"failed", "partial"}, count' = 0,
              todo' = <<"cb", y>> \o Tail(todo), UNCHANGED <<flags, pevents>>
       PROVE  Inv'
  <2>0. y \in {"ended", "failed", "partial"}
    OBVIOUS
  <2>1. /\ todo' \in Seq(StepNames) /\ Plan(todo') /\ (In("flush")' => In("flush"))
        /\ \A x \in {"write", "flush", "drain", "callbacks"} : In(x) => In(x)'
        /\ ~At("write")' /\ ~At("drain")'
    BY Zenon, <1>1, <1>5, <1>10, <2>0, Replaced
  <2>2. count' \in Nat
    BY Zenon, <1>10
  <2> QED
    BY Zenon, <1>1, <1>2, <1>6, <1>7, <1>10, <2>1, <2>2, QuietKeeps
<1>11. CASE Has("READING") /\ count' = 0 /\ uv__stream_eof(Tail(todo))
  <2>1. count' \in Nat
    BY Zenon, <1>11
  <2> QED
    BY Zenon, <1>1, <1>11, <2>1, EofKeeps
<1>12. CASE todo' = Tail(todo) /\ count' = 0 /\ UNCHANGED <<flags, pevents>>
  <2>1. /\ todo' \in Seq(StepNames) /\ Plan(todo') /\ \A x : In(x)' => In(x)
        /\ \A x : In(x) /\ x # "read" => In(x)'
        /\ ~At("write")' /\ ~At("drain")'
    BY Zenon, <1>1, <1>12, NextStep
  <2>2. \A x \in {"write", "flush", "drain", "callbacks"} : In(x) => In(x)'
    BY Zenon, <2>1
  <2>3. count' \in Nat
    BY Zenon, <1>12
  <2> QED
    BY Zenon, <1>1, <1>2, <1>6, <1>7, <1>12, <2>1, <2>2, <2>3, QuietKeeps
<1> QED
  BY Zenon, <1>8, <1>9, <1>10, <1>11, <1>12 DEF uv__read

LEMMA AfterReadKeeps ==
  ASSUME Inv, AfterRead
  PROVE  Inv'
<1>1. /\ todo' = Tail(todo) /\ count' = count
      /\ UNCHANGED <<calls, connect, fed, queues, dead, stranded>>
  BY Zenon DEF AfterRead
<1>2. PICK step \in {"failed", "ended", "partial"} : At(step)
  BY Zenon DEF AfterRead
<1>3. step \notin {"write", "flush", "callbacks", "drain", "open"} /\ step \notin Last
  BY Zenon DEF Last
<1>4. connect = "done" /\ ~Has("CLOSED")
  BY Zenon, <1>2, <1>3, Running
<1>5. /\ todo' \in Seq(StepNames) /\ Plan(todo') /\ \A x : In(x)' => In(x)
      /\ \A x : In(x) /\ x # step => In(x)'
      /\ ~At("write")' /\ ~At("drain")'
  BY Zenon, <1>1, <1>2, <1>3, NextStep
<1>6. \A x \in {"write", "flush", "drain", "callbacks"} : In(x) => In(x)'
  BY Zenon, <1>3, <1>5
<1>7. /\ count' \in Nat /\ flags \subseteq Flags /\ pevents \subseteq {"in", "out"}
  BY Zenon, <1>1, Vars DEF Inv, TypeInv
<1>8. ASSUME /\ flags' \subseteq Flags /\ pevents' \subseteq {"in", "out"}
             /\ \A f \in {"CLOSING", "CLOSED", "SHUT", "SHUTTING"} : Has(f)' <=> Has(f)
             /\ "out" \in pevents' <=> "out" \in pevents
             /\ Has("CLOSING") => pevents' = {} /\ ~Has("READING")'
             /\ Open => /\ "in" \in pevents' => Has("ACTIVE")'
                        /\ Has("READING")' /\ ~In("ended")' => Has("ACTIVE")' /\ "in" \in pevents'
      PROVE  Inv'
  BY Zenon, <1>1, <1>4, <1>5, <1>6, <1>7, <1>8, QuietKeeps
<1>9. CASE At("failed") /\ Has("READING") /\ StopIn(flags \ {"READING"})
  <2>1. /\ pevents' = pevents \ {"in"} /\ flags' \subseteq flags \ {"READING"}
        /\ \A f : f # "ACTIVE" => (Has(f)' <=> f \in flags \ {"READING"})
    BY Zenon, <1>9, StopInIs
  <2>2. \A f \in {"CLOSING", "CLOSED", "SHUT", "SHUTTING"} : Has(f)' <=> Has(f)
    BY Zenon, <2>1 DEF Has
  <2>3. ~Has("READING")' /\ ("out" \in pevents' <=> "out" \in pevents) /\ "in" \notin pevents'
        /\ ~Has("CLOSING")
    BY Zenon, <1>9, <2>1 DEF Has, Inv, ClosingInv
  <2>4. flags' \subseteq Flags /\ pevents' \subseteq {"in", "out"}
    BY Zenon, <1>7, <2>1
  <2> QED
    BY Zenon, <1>8, <2>2, <2>3, <2>4
<1>10. CASE At("failed") /\ ~Has("READING") /\ UNCHANGED <<flags, pevents>>
  <2>1. \A f : Has(f)' <=> Has(f)
    BY Zenon, <1>10 DEF Has
  <2>2. /\ Has("CLOSING") => pevents' = {} /\ ~Has("READING")'
        /\ Open => ("in" \in pevents' => Has("ACTIVE")')
    BY Zenon, <1>10, <2>1 DEF Inv, ClosingInv, StallInv
  <2> QED
    BY Zenon, <1>7, <1>8, <1>10, <2>1, <2>2
<1>11. CASE At("ended") /\ flags' = flags \ {"READING"} /\ UNCHANGED pevents
  <2>1. ~Has("READING")' /\ \A f \in Flags \ {"READING"} : Has(f)' <=> Has(f)
    BY Zenon, <1>11 DEF Has
  <2>2. \A f \in {"CLOSING", "CLOSED", "SHUT", "SHUTTING", "ACTIVE"} : Has(f)' <=> Has(f)
    BY Zenon, <2>1 DEF Flags
  <2>3. /\ Has("CLOSING") => pevents' = {}
        /\ Open => ("in" \in pevents' => Has("ACTIVE")')
    BY Zenon, <1>11, <2>2 DEF Inv, ClosingInv, StallInv
  <2> QED
    BY Zenon, <1>7, <1>8, <1>11, <2>1, <2>2, <2>3
<1>12. CASE At("partial") /\ flags' = flags \cup {"PARTIAL"} /\ UNCHANGED pevents
  <2>1. \A f \in {"CLOSING", "CLOSED", "SHUT", "SHUTTING", "ACTIVE", "READING"} : Has(f)' <=> Has(f)
    BY Zenon, <1>12 DEF Has
  <2>2. /\ Has("CLOSING") => pevents' = {} /\ ~Has("READING")'
        /\ Open => ("in" \in pevents' => Has("ACTIVE")')
    BY Zenon, <1>12, <2>1 DEF Inv, ClosingInv, StallInv
  <2>3. In("ended") => In("ended")'
    <3>1. At("ended") => FALSE
      BY Zenon, <1>12 DEF At
    <3> QED
      BY Zenon, <1>2, <1>5, <3>1
  <2>4. Open => (Has("READING")' /\ ~In("ended")' => Has("ACTIVE")' /\ "in" \in pevents')
    BY Zenon, <1>12, <2>1, <2>3 DEF Inv, StallInv
  <2>5. flags' \subseteq Flags
    BY Zenon, <1>7, <1>12 DEF Flags
  <2> QED
    BY Zenon, <1>7, <1>8, <1>12, <2>1, <2>2, <2>4, <2>5
<1> QED
  BY Zenon, <1>9, <1>10, <1>11, <1>12 DEF AfterRead

LEMMA HangUpKeeps ==
  ASSUME Inv, HangUp
  PROVE  Inv'
<1>1. /\ At("eof") /\ count' = count
      /\ UNCHANGED <<calls, connect, fed, queues, dead, stranded>>
  BY Zenon DEF HangUp
<1>2. /\ count' \in Nat /\ flags \subseteq Flags /\ pevents \subseteq {"in", "out"}
  BY Zenon, <1>1, Vars DEF Inv, TypeInv
<1>3. CASE Has("READING") /\ uv__stream_eof(Tail(todo))
  BY Zenon, <1>1, <1>2, <1>3, EofKeeps
<1>4. CASE todo' = Tail(todo) /\ UNCHANGED <<flags, pevents>>
  <2>1. connect = "done" /\ ~Has("CLOSED")
    <3>1. "eof" \notin Last
      BY Zenon DEF Last
    <3> QED
      BY Zenon, <1>1, <3>1, Running
  <2>2. /\ todo' \in Seq(StepNames) /\ Plan(todo') /\ \A x : In(x)' => In(x)
        /\ \A x : In(x) /\ x # "eof" => In(x)'
        /\ ~At("write")' /\ ~At("drain")'
    BY Zenon, <1>1, <1>4, NextStep
  <2>3. \A x \in {"write", "flush", "drain", "callbacks", "ended"} : In(x) => In(x)'
    BY Zenon, <2>2
  <2>4. \A f : Has(f)' <=> Has(f)
    BY Zenon, <1>4 DEF Has
  <2>5. /\ Has("CLOSING") => pevents' = {} /\ ~Has("READING")'
        /\ Open => /\ "in" \in pevents' => Has("ACTIVE")'
                   /\ Has("READING")' /\ ~In("ended")' => Has("ACTIVE")' /\ "in" \in pevents'
    BY Zenon, <1>4, <2>3, <2>4 DEF Inv, StallInv, ClosingInv
  <2> QED
    BY Zenon, <1>1, <1>2, <1>4, <2>1, <2>2, <2>3, <2>4, <2>5, QuietKeeps
<1> QED
  BY Zenon, <1>3, <1>4 DEF HangUp

LEMMA CancelShutdownKeeps ==
  ASSUME Inv, CancelShutdown
  PROVE  Inv'
<1>1. /\ At("cancel") /\ todo' = Steps(<<"cb">>, Has("SHUTTING")) \o Tail(todo)
      /\ flags' = flags /\ pevents' = pevents /\ count' = count
      /\ UNCHANGED <<calls, connect, fed, queues, dead, stranded>>
  BY Zenon DEF CancelShutdown
<1>2. /\ count' \in Nat /\ flags' \subseteq Flags /\ pevents' \subseteq {"in", "out"}
  BY Zenon, <1>1, Vars DEF Inv, TypeInv
<1>3. /\ todo \in Seq(StepNames) /\ todo # << >> /\ connect = "done"
      /\ Has("CLOSED") => \A x : In(x) => x \in Last
  BY Zenon, <1>1, Running
<1>4. \A f : Has(f)' <=> Has(f)
  BY Zenon, <1>1 DEF Has
<1>5. /\ todo' \in Seq(StepNames) /\ Plan(todo') /\ (In("flush")' => In("flush"))
      /\ \A x \in {"write", "flush", "drain", "callbacks", "ended"} : In(x) => In(x)'
      /\ ~At("write")' /\ ~At("drain")'
      /\ \A x : In(x)' => x = "cb" \/ In(x)
  <2>1. CASE Has("SHUTTING")
    <3>1. todo' = <<"cb">> \o Tail(todo)
      BY Zenon, <1>1, <2>1 DEF Steps
    <3>2. "cancel" \notin {"write", "flush", "callbacks", "drain", "open", "cb"} /\ "cancel" # "ended"
      OBVIOUS
    <3>3. /\ todo' \in Seq(StepNames) /\ Plan(todo') /\ (In("flush")' => In("flush"))
          /\ \A x \in {"write", "flush", "drain", "callbacks"} : In(x) => In(x)'
          /\ ~At("write")' /\ ~At("drain")' /\ (In("ended") => In("ended")')
          /\ \A x : In(x)' => x = "cb" \/ In(x)
      BY Zenon, <1>1, <3>1, <3>2, Replaced
    <3> QED
      BY Zenon, <3>3
  <2>2. CASE ~Has("SHUTTING")
    <3>1. PICK b \in Seq(StepNames) : b = Tail(todo)
      BY Zenon, <1>3, TailIs
    <3>2. << >> \o b = b
      OBVIOUS
    <3>3. todo' = Tail(todo)
      BY Zenon, <1>1, <2>2, <3>1, <3>2 DEF Steps
    <3>4. /\ todo' \in Seq(StepNames) /\ Plan(todo') /\ \A x : In(x)' => In(x)
          /\ \A x : In(x) /\ x # "cancel" => In(x)'
          /\ ~At("write")' /\ ~At("drain")'
      BY Zenon, <1>1, <3>3, NextStep
    <3>5. \A x \in {"write", "flush", "drain", "callbacks", "ended"} : In(x) => In(x)'
      BY Zenon, <3>4
    <3> QED
      BY Zenon, <3>4, <3>5
  <2> QED
    BY Zenon, <2>1, <2>2
<1>6. Has("CLOSED") => \A x : In(x)' => x \in Last
  BY Zenon, <1>3, <1>5 DEF Last
<1>7. /\ Has("CLOSING") => pevents' = {} /\ ~Has("READING")'
      /\ Open => /\ "in" \in pevents' => Has("ACTIVE")'
                 /\ Has("READING")' /\ ~In("ended")' => Has("ACTIVE")' /\ "in" \in pevents'
  BY Zenon, <1>1, <1>4, <1>5 DEF Inv, StallInv, ClosingInv
<1> QED
  BY Zenon, <1>1, <1>2, <1>3, <1>4, <1>5, <1>6, <1>7, QuietKeeps

LEMMA WriteStepKeeps ==
  ASSUME Inv, Write
  PROVE  Inv'
<1>1. TypeInv /\ CallInv /\ PlanInv /\ AtInv /\ ConnInv /\ StallInv /\ ClosingInv
      /\ Good(Now, asked)
  BY Zenon DEF Inv
<1>2. /\ At("write") /\ todo' = Tail(todo) /\ bytes' = bytes /\ state' = state
      /\ asked' = asked /\ before' = before /\ connect' = connect /\ count' = count
      /\ stranded' = stranded
  BY Zenon DEF Write, calls
<1>3. PICK v \in uv__write(Now) : Becomes(v)
  BY Zenon DEF Write
<1>4. Open /\ connect = "done" /\ ~Has("CLOSING") /\ ~Has("CLOSED")
  BY Zenon, <1>1, <1>2, Running DEF AtInv, Open, PlanInv
<1>5. PICK w \in Rec : w = Now
  BY Zenon, <1>1 DEF TypeInv
<1>6. /\ w.queue = queue /\ w.completed = completed /\ w.left = left /\ w.error = error
      /\ w.flags = flags /\ w.dead = dead /\ w.pevents = pevents /\ w.fed = fed
      /\ asked \in Seq(Writes)
  BY Zenon, <1>1, <1>5, Vars DEF TypeInv
<1>7. v \in Rec /\ Good(v, asked) /\ SameItems(w, v) /\ CalledFor(w, v)
  <2>1. AsNow(w)
    BY Zenon, <1>4, <1>6 DEF AsNow
  <2> QED
    BY Zenon, <1>1, <1>3, <1>5, <1>6, <2>1, WriteKeeps
<1>8. /\ Now' = v /\ queue' = v.queue /\ completed' = v.completed
      /\ left' = v.left /\ error' = v.error /\ pevents' = v.pevents /\ fed' = v.fed
      /\ flags' = v.flags /\ dead' = v.dead
  BY Zenon, <1>3, <1>7, Becoming
<1>9. /\ todo' \in Seq(StepNames) /\ Plan(todo') /\ \A x : In(x)' => In(x)
      /\ \A x : In(x) /\ x # "write" => In(x)'
      /\ ~At("write")' /\ ~At("drain")'
  <2>1. todo \in Seq(StepNames) /\ Plan(todo) /\ todo # << >> /\ todo[1] = "write"
    BY Zenon, <1>2, Running
  <2>2. /\ Tail(todo) \in Seq(StepNames) /\ Plan(Tail(todo))
        /\ \A x : Among(x, Tail(todo)) => Among(x, todo)
        /\ \A x : Among(x, todo) => Among(x, Tail(todo)) \/ todo[1] = x
        /\ Tail(todo) # << >> =>
              /\ Tail(todo)[1] = Head(Tail(todo))
              /\ Tail(todo)[1] = "write" => todo[1] = "open"
              /\ Tail(todo)[1] = "drain" => todo[1] = "callbacks"
    BY Zenon, <2>1, Rest
  <2> QED
    BY Zenon, <1>2, <2>1, <2>2 DEF In, At
<1>10. TypeInv'
  BY Zenon, <1>1, <1>2, <1>7, <1>8, <1>9 DEF TypeInv
<1>11. Good(Now, asked)'
  BY Zenon, <1>2, <1>7, <1>8
<1>12. CallInv'
  <2>1. /\ Cnt(v) = Cnt(w) /\ \A k \in 1 .. Cnt(w) : It(v, k) = It(w, k)
        /\ \A r \in Writes : (\A k \in 1 .. Cnt(w) : It(w, k) # r) =>
             v.left[r] = w.left[r] /\ v.error[r] = w.error[r]
    BY Zenon, <1>7 DEF SameItems
  <2>2. \A r \in Writes : state[r] = "queued" <=> \E k \in 1 .. Cnt(w) : It(w, k) = r
    BY Zenon, <1>1, <1>5 DEF CallInv
  <2>3. \A r \in Writes : state[r] = "queued" <=> \E k \in 1 .. Cnt(v) : It(v, k) = r
    BY Zenon, <2>1, <2>2
  <2>4. \A r \in Writes : state[r] # "queued" => left'[r] = left[r] /\ error'[r] = error[r]
    BY Zenon, <1>6, <1>8, <2>1, <2>2
  <2>5. ASSUME NEW r \in Writes, state[r] = "new"
        PROVE  left'[r] = bytes[r] /\ error'[r] = "ok"
    BY Zenon, <1>1, <2>4, <2>5 DEF CallInv
  <2>6. ASSUME NEW r \in Writes, state[r] = "done", error'[r] = "ok"
        PROVE  left'[r] = 0
    BY Zenon, <1>1, <2>4, <2>6 DEF CallInv
  <2> QED
    BY Zenon, <1>1, <1>2, <1>8, <2>3, <2>5, <2>6 DEF CallInv
<1>13. \A f : f # "ACTIVE" => (Has(f)' <=> Has(f))
  BY Zenon, <1>6, <1>7, <1>8 DEF Has, CalledFor
<1>14. ~Has("CLOSED")' /\ ~Has("CLOSING")'
  BY Zenon, <1>4, <1>13
<1>15. PlanInv' /\ AtInv' /\ ConnInv'
  BY Zenon, <1>2, <1>4, <1>9, <1>14 DEF PlanInv, AtInv, ConnInv
<1>16. StallInv'
  <2>1. queue' # << >> => fed' \/ "out" \in pevents'
    BY Zenon, <1>7, <1>8 DEF CalledFor
  <2>2. pevents' \subseteq {"in", "out"}
    BY Zenon, <1>7, <1>8, Fields
  <2>3. \A x \in {"flush", "callbacks", "drain", "ended"} : In(x)' <=> In(x)
    BY Zenon, <1>9
  <2> QED
    BY Zenon, <1>2, <1>4, <1>6, <1>7, <1>8, <2>1, <2>2, <2>3, CalledForKeeps
<1>17. ClosingInv'
  BY Zenon, <1>1, <1>4, <1>6, <1>7, <1>8, <1>9, <1>14 DEF ClosingInv, CalledFor
<1> QED
  BY Zenon, <1>10, <1>11, <1>12, <1>15, <1>16, <1>17 DEF Inv

LEMMA DrainKeeps ==
  ASSUME Inv, uv__drain
  PROVE  Inv'
<1>1. TypeInv /\ PlanInv /\ AtInv /\ ConnInv /\ StallInv /\ ClosingInv
  BY Zenon DEF Inv
<1>2. /\ At("drain") /\ UNCHANGED <<calls, connect, fed, queues, count, dead>>
      /\ queue' = queue /\ completed' = completed /\ count' = count
      /\ connect' = connect /\ fed' = fed /\ dead' = dead
  BY Zenon DEF uv__drain, queues
<1>3. /\ todo \in Seq(StepNames) /\ Plan(todo) /\ todo # << >> /\ todo[1] = "drain"
      /\ connect = "done" /\ ~Has("CLOSED")
  <2>1. "drain" \notin Last
    BY Zenon DEF Last
  <2> QED
    BY Zenon, <1>2, <2>1, Running
<1>4. Tail(todo) = << >> /\ \A x : In(x) => x = "drain"
  <2>1. /\ todo[1] = "drain" => Tail(todo) = << >>
        /\ \A x : Among(x, todo) => Among(x, Tail(todo)) \/ todo[1] = x
    BY Zenon, <1>3, Rest
  <2>2. \A x : ~Among(x, << >>)
    BY Zenon, Lists
  <2> QED
    BY Zenon, <1>3, <2>1, <2>2 DEF In
<1>5. /\ ~In("write") /\ ~In("flush") /\ ~In("callbacks") /\ ~In("ended") /\ completed = << >>
  BY Zenon, <1>1, <1>2, <1>4 DEF AtInv
<1>6. /\ flags \subseteq Flags /\ pevents \subseteq {"in", "out"} /\ count \in Nat
      /\ stranded \in BOOLEAN /\ dead \in BOOLEAN /\ fed \in BOOLEAN
  BY Zenon, <1>1, Vars DEF TypeInv
\* What is left to show of the flags, the events and the list.
<1>7. ASSUME /\ todo' \in {<< >>, <<"cb">>}
             /\ flags' \subseteq Flags /\ pevents' \subseteq pevents /\ stranded' \in BOOLEAN
             /\ \A f \in Flags \ {"SHUTTING", "SHUT"} : Has(f)' <=> Has(f)
             /\ Has("SHUT") => Has("SHUT")'
             /\ Has("SHUTTING")' => ~Has("SHUT")'
             /\ "in" \in pevents <=> "in" \in pevents'
             /\ queue # << >> => "out" \in pevents' \/ fed
             /\ Has("SHUTTING")' /\ Open => "out" \in pevents' \/ fed
      PROVE  Inv'
  <2>1. todo' \in Seq(StepNames) /\ Plan(todo') /\ \A x : In(x)' => x = "cb"
    BY Zenon, <1>7, Lists DEF In
  <2>2. ~In("flush")' /\ ~In("ended")' /\ ~At("write")' /\ ~At("drain")'
    <3>1. ~In("flush")' /\ ~In("ended")'
      BY Zenon, <2>1
    <3>2. todo' # << >> => Head(todo') = "cb"
      BY <1>7
    <3>3. ~At("write")' /\ ~At("drain")'
      BY Zenon, <3>2 DEF At
    <3> QED
      BY Zenon, <3>1, <3>3
  <2>3. \A f \in {"CLOSING", "CLOSED", "ACTIVE", "READING"} : Has(f)' <=> Has(f)
    BY Zenon, <1>7 DEF Flags
  <2>4. TypeInv' /\ Good(Now, asked)' /\ CallInv'
    <3>1. flags \cap {"SHUT", "CLOSING"} \subseteq flags'
      BY Zenon, <1>7, <2>3 DEF Has
    <3>2. pevents' \subseteq {"in", "out"}
      BY Zenon, <1>6, <1>7
    <3>3. connect' \in {"none", "inprogress", "delayed", "done"}
      BY Zenon, <1>2, <1>3
    <3>4. fed' \in BOOLEAN /\ dead' \in BOOLEAN /\ (dead => dead') /\ count' \in Nat
      BY <1>2, <1>6
    <3>5. UNCHANGED <<calls, queues>> /\ flags' \subseteq Flags /\ stranded' \in BOOLEAN
      BY Zenon, <1>2, <1>7
    <3> QED
      BY Zenon, <2>1, <3>1, <3>2, <3>3, <3>4, <3>5, FrameKeeps
  <2>5. Open' <=> Open
    BY Zenon, <1>2, <2>3 DEF Open
  <2>6. PlanInv' /\ AtInv' /\ ConnInv'
    BY Zenon, <1>2, <1>3, <2>1, <2>2, <2>3 DEF PlanInv, AtInv, ConnInv
  <2>7. StallInv'
    <3>1. fed' <=> fed
      BY <1>2, <1>6
    <3>2. (Has("ACTIVE")' <=> Has("ACTIVE")) /\ (Has("READING")' <=> Has("READING"))
      BY Zenon, <2>3
    <3>3. Open => ("in" \in pevents => Has("ACTIVE"))
      BY Zenon, <1>1 DEF StallInv
    <3>4. Open /\ Has("READING") => Has("ACTIVE") /\ "in" \in pevents
      BY Zenon, <1>1, <1>5 DEF StallInv
    <3> QED
      BY Zenon, <1>2, <1>5, <1>7, <2>5, <3>1, <3>2, <3>3, <3>4 DEF StallInv
  <2>8. ClosingInv'
    <3>1. Has("CLOSING") => pevents' = {}
      BY Zenon, <1>1, <1>7 DEF ClosingInv
    <3>2. (fed' <=> fed) /\ (Has("CLOSING")' <=> Has("CLOSING")) /\ (Has("READING")' <=> Has("READING"))
      BY <1>2, <1>6, <2>3
    <3> QED
      BY Zenon, <1>1, <2>2, <3>1, <3>2 DEF ClosingInv
  <2> QED
    BY Zenon, <2>4, <2>6, <2>7, <2>8 DEF Inv
<1>8. CASE ~Drained /\ todo' = Tail(todo) /\ UNCHANGED <<flags, pevents, stranded>>
  <2>1. \A f : Has(f)' <=> Has(f)
    BY Zenon, <1>8 DEF Has
  <2>2. queue # << >>
    BY Zenon, <1>8 DEF Drained
  <2>3. CASE Open
    <3>1. "out" \in pevents \/ fed
      BY Zenon, <1>1, <1>5, <2>2, <2>3 DEF StallInv
    <3> QED
      BY Zenon, <1>1, <1>4, <1>6, <1>7, <1>8, <2>1, <3>1 DEF StallInv
  <2>4. CASE ~Open
    <3>1. todo' \in Seq(StepNames) /\ Plan(todo') /\ \A x : ~In(x)'
      BY Zenon, <1>4, <1>8, Lists DEF In
    <3>2. ~At("write")' /\ ~At("drain")'
      BY Zenon, <1>4, <1>8 DEF At
    <3>3. Has("CLOSING") => pevents' = {} /\ ~Has("READING")'
      BY Zenon, <1>1, <1>8, <2>1 DEF ClosingInv
    <3> QED
      BY Zenon, <1>2, <1>3, <1>6, <1>8, <2>1, <2>4, <3>1, <3>2, <3>3, QuietKeeps
  <2> QED
    BY Zenon, <2>3, <2>4
<1>9. ASSUME Drained, pevents' = pevents \ {"out"}, stranded' = FALSE,
             NEW shut \in {{}, {"SHUT"}}, flags' = (flags \ {"SHUTTING"}) \cup shut,
             todo' = <<"cb">> \o Tail(todo)
      PROVE  Inv'
  <2>1. todo' = <<"cb">>
    <3>1. <<"cb">> \o << >> = <<"cb">>
      OBVIOUS
    <3> QED
      BY Zenon, <1>4, <1>9, <3>1
  <2>2. \A f \in Flags \ {"SHUTTING", "SHUT"} : Has(f)' <=> Has(f)
    BY Zenon, <1>9 DEF Has
  <2>3. ~Has("SHUTTING")' /\ (Has("SHUT") => Has("SHUT")')
    BY Zenon, <1>9 DEF Has
  <2>4. flags' \subseteq Flags /\ pevents' \subseteq pevents /\ ("in" \in pevents <=> "in" \in pevents')
    BY Zenon, <1>6, <1>9 DEF Flags
  <2>5. queue = << >>
    BY Zenon, <1>9 DEF Drained
  <2> QED
    BY Zenon, <1>7, <1>9, <2>1, <2>2, <2>3, <2>4, <2>5
<1>10. CASE /\ Drained /\ pevents' = pevents \ {"out"} /\ stranded' = FALSE
            /\ ~(Has("SHUTTING") /\ ~Has("CLOSING") /\ ~Has("SHUT"))
            /\ todo' = Tail(todo) /\ UNCHANGED flags
  <2>1. \A f : Has(f)' <=> Has(f)
    BY Zenon, <1>10 DEF Has
  <2>2. flags' \subseteq Flags /\ pevents' \subseteq pevents /\ ("in" \in pevents <=> "in" \in pevents')
    BY Zenon, <1>6, <1>10
  <2>3. queue = << >>
    BY Zenon, <1>10 DEF Drained
  <2>4. Has("SHUTTING") => ~Has("SHUT") /\ ~Open
    BY Zenon, <1>1, <1>10 DEF StallInv, Open
  <2>5. stranded' \in BOOLEAN /\ todo' \in {<< >>, <<"cb">>}
    BY Zenon, <1>4, <1>10
  <2> QED
    BY Zenon, <1>7, <2>1, <2>2, <2>3, <2>4, <2>5
<1> QED
  BY Zenon, <1>8, <1>9, <1>10 DEF uv__drain

\* The request at the head of the completed ones is called back.
LEMMA CallBackKeeps ==
  ASSUME Inv, At("callbacks"), completed # << >>, todo' = <<"cb">> \o todo,
         completed' = Tail(completed), size' = GivenBack(Head(completed)),
         state' = [state EXCEPT ![Head(completed)] = "done"],
         UNCHANGED <<connect, flags, pevents, fed, queue, left, error, wire, count,
                     dead, bytes, asked, before, stranded>>
  PROVE  Inv'
<1>1. TypeInv /\ CallInv /\ PlanInv /\ AtInv /\ ConnInv /\ StallInv /\ ClosingInv
      /\ Good(Now, asked)
  BY Zenon DEF Inv
<1>2. PICK w \in Rec : w = Now
  BY Zenon, <1>1 DEF TypeInv
<1>3. /\ w.queue = queue /\ w.completed = completed /\ w.left = left /\ w.error = error
      /\ w.size = size /\ w.wire = wire /\ w.flags = flags /\ w.dead = dead
      /\ w.pevents = pevents /\ w.fed = fed /\ asked \in Seq(Writes)
      /\ state \in [Writes -> {"new", "queued", "tried", "done"}]
      /\ completed \in Seq(Writes) /\ size \in Nat
  BY Zenon, <1>1, <1>2, Vars DEF TypeInv
<1>4. PICK h \in Writes : /\ h = Head(completed) /\ left[h] \in Nat /\ left[h] <= size
                          /\ error[h] # "failed" => left[h] = 0
  BY Zenon, <1>1, <1>2, <1>3, FirstFits
<1>5. size' = (IF error[h] = "failed" THEN size - left[h] ELSE size) /\ size' \in Nat
  <2>1. size' = IF error[h] = "failed" THEN size - left[h] ELSE size
    BY Zenon, <1>4 DEF GivenBack
  <2> QED
    BY <1>3, <1>4, <2>1
<1>6. Tail(completed) \in Seq(Writes)
  BY Zenon, <1>3, TailIs
<1>7. Now' \in Rec
  BY Zenon, <1>1, <1>5, <1>6, Vars DEF Now, Rec
<1>8. PICK v \in Rec : v = Now'
  BY Zenon, <1>7
<1>9. /\ v.completed = Tail(w.completed) /\ v.queue = w.queue /\ v.size = size'
      /\ v.left = w.left /\ v.error = w.error /\ v.wire = w.wire
      /\ v.flags = w.flags /\ v.dead = w.dead
  BY Zenon, <1>3, <1>8 DEF Now
<1>10. CalledBack(w, v)
  BY Zenon, <1>3, <1>4, <1>5, <1>9 DEF CalledBack
<1>11. Good(Now, asked)'
  BY Zenon, <1>1, <1>2, <1>3, <1>8, <1>10, CalledBackGood
<1>12. /\ todo' \in Seq(StepNames) /\ Plan(todo') /\ Head(todo') = "cb" /\ connect = "done"
       /\ \A x : In(x)' <=> x = "cb" \/ In(x)
       /\ In("callbacks") /\ (Has("CLOSED") => Has("CLOSING") /\ \A x : In(x) => x \in Last)
  <2>1. /\ todo \in Seq(StepNames) /\ Plan(todo) /\ todo # << >> /\ todo[1] = "callbacks"
        /\ In("callbacks") /\ connect = "done"
        /\ Has("CLOSED") => Has("CLOSING") /\ \A x : In(x) => x \in Last
    BY Zenon, Running
  <2>2. ~Among("read", todo)
    <3>1. Among("read", Tail(todo)) => todo[1] = "cb"
      BY Zenon, <2>1, Rest
    <3>2. Among("read", todo) => Among("read", Tail(todo)) \/ todo[1] = "read"
      BY Zenon, <2>1, Rest
    <3> QED
      BY Zenon, <2>1, <3>1, <3>2
  <2>3. todo[1] \notin {"write", "drain"}
    BY Zenon, <2>1
  <2>4. /\ todo' \in Seq(StepNames) /\ Plan(todo') /\ Head(todo') = "cb"
        /\ \A x : Among(x, todo') <=> x = "cb" \/ Among(x, todo)
    BY Zenon, <2>1, <2>2, <2>3, CbFirst
  <2> QED
    BY Zenon, <2>1, <2>4 DEF In
<1>13. TypeInv'
  <2>1. state' \in [Writes -> {"new", "queued", "tried", "done"}]
    BY Zenon, <1>3, <1>4
  <2> QED
    BY Zenon, <1>1, <1>7, <1>12, <2>1 DEF TypeInv
<1>14. CallInv'
  <2>1. PICK N \in Nat : N = Cnt(w) /\ N >= 1
    BY Zenon, <1>2, <1>3, <1>8, <1>9, Items, CalledBackItems
  <2>2. /\ Cnt(v) = N - 1 /\ It(w, 1) = h
        /\ \A k \in 1 .. N - 1 : It(v, k) = It(w, k + 1)
    BY Zenon, <1>3, <1>4, <1>9, <2>1, CalledBackItems
  <2>3. \A j, k \in 1 .. N : It(w, j) = It(w, k) => j = k
    BY Zenon, <1>1, <1>2, <2>1 DEF Good, Once
  <2>4. ASSUME NEW x \in Writes
        PROVE  (\E k \in 1 .. N - 1 : It(v, k) = x) <=> x # h /\ \E k \in 1 .. N : It(w, k) = x
    <3>1. ASSUME NEW k \in 1 .. N - 1, It(v, k) = x
          PROVE  x # h /\ \E j \in 1 .. N : It(w, j) = x
      <4>1. k + 1 \in 1 .. N /\ k + 1 # 1 /\ 1 \in 1 .. N
        BY <2>1, <3>1
      <4>2. It(w, k + 1) = x
        BY Zenon, <2>2, <3>1
      <4> QED
        BY Zenon, <2>2, <2>3, <4>1, <4>2
    <3>2. ASSUME x # h, NEW k \in 1 .. N, It(w, k) = x
          PROVE  \E j \in 1 .. N - 1 : It(v, j) = x
      <4>1. k # 1
        BY Zenon, <2>2, <3>2
      <4>2. k - 1 \in 1 .. N - 1 /\ (k - 1) + 1 = k
        BY <2>1, <3>2, <4>1
      <4>3. It(v, k - 1) = It(w, (k - 1) + 1)
        BY Zenon, <2>2, <4>2
      <4> QED
        BY Zenon, <3>2, <4>2, <4>3
    <3> QED
      BY Zenon, <3>1, <3>2
  <2>5. \A x \in Writes : state[x] = "queued" <=> \E k \in 1 .. N : It(w, k) = x
    BY Zenon, <1>1, <1>2, <2>1 DEF CallInv
  <2>6. \A x \in Writes : state'[x] = IF x = h THEN "done" ELSE state[x]
    BY Zenon, <1>3, <1>4
  <2>7. \A x \in Writes : state'[x] = "queued" <=> \E k \in 1 .. N - 1 : It(v, k) = x
    BY <2>4, <2>5, <2>6
  <2>8. ASSUME NEW x \in Writes, state'[x] = "new"
        PROVE  left'[x] = bytes'[x] /\ error'[x] = "ok"
    <3>1. state[x] = "new"
      BY <2>6, <2>8
    <3> QED
      BY Zenon, <1>1, <3>1 DEF CallInv
  <2>9. ASSUME NEW x \in Writes, state'[x] = "done", error'[x] = "ok"
        PROVE  left'[x] = 0
    <3>1. CASE x = h
      BY Zenon, <1>4, <2>9, <3>1
    <3>2. CASE x # h
      BY Zenon, <1>1, <2>6, <2>9, <3>2 DEF CallInv
    <3> QED
      BY Zenon, <3>1, <3>2
  <2>10. ASSUME NEW x \in before'
         PROVE  state'[x] \in {"queued", "done"}
    <3>1. x \in Writes /\ state[x] \in {"queued", "done"}
      BY Zenon, <1>1, <2>10 DEF CallInv, TypeInv
    <3> QED
      BY Zenon, <2>6, <3>1
  <2>11. \A x \in Writes : state'[x] = "queued" <=> \E k \in 1 .. Cnt(Now)' : It(Now, k)' = x
    BY Zenon, <1>8, <2>2, <2>7
  <2> QED
    BY Zenon, <2>8, <2>9, <2>10, <2>11 DEF CallInv
<1>15. \A f : Has(f)' <=> Has(f)
  BY Zenon DEF Has
<1>16. Open' <=> Open
  BY Zenon, <1>15 DEF Open
<1>17. ~At("write")' /\ ~At("drain")'
  BY Zenon, <1>12 DEF At
<1>18. PlanInv'
  <2>1. Has("CLOSED")' => \A k \in 1 .. Len(todo') : todo'[k] \in Last
    <3>1. "cb" \in Last
      BY Zenon DEF Last
    <3> QED
      BY Zenon, <1>12, <1>15, <3>1 DEF In, Among
  <2> QED
    BY Zenon, <1>12, <1>15, <2>1 DEF PlanInv, Last
<1>19. AtInv' /\ ConnInv'
  BY Zenon, <1>1, <1>12, <1>15, <1>17 DEF AtInv, ConnInv
<1>20. StallInv'
  <2>1. In("ended")' <=> In("ended")
    BY Zenon, <1>12
  <2>2. \A x \in {"write", "flush", "drain", "callbacks"} : In(x) => In(x)'
    BY Zenon, <1>12
  <2> QED
    BY Zenon, <1>1, <1>12, <1>15, <1>16, <2>1, <2>2 DEF StallInv
<1>21. ClosingInv'
  <2>1. In("flush")' => In("flush")
    BY Zenon, <1>12
  <2> QED
    BY Zenon, <1>1, <1>15, <2>1 DEF ClosingInv
<1> QED
  BY Zenon, <1>11, <1>13, <1>14, <1>18, <1>19, <1>20, <1>21 DEF Inv

LEMMA CallbacksKeeps ==
  ASSUME Inv, uv__write_callbacks
  PROVE  Inv'
<1>1. /\ At("callbacks")
      /\ UNCHANGED <<connect, flags, pevents, fed, queue, left, error, wire, count,
                     dead, bytes, asked, before, stranded>>
  BY Zenon DEF uv__write_callbacks
<1>2. CASE completed = << >> /\ todo' = Tail(todo) /\ UNCHANGED <<completed, size, state>>
  <2>1. /\ todo \in Seq(StepNames) /\ Plan(todo) /\ todo # << >> /\ todo[1] = "callbacks"
        /\ connect = "done" /\ (Has("CLOSED") => \A x : In(x) => x \in Last)
    BY Zenon, <1>1, Running
  <2>2. /\ Tail(todo) \in Seq(StepNames) /\ Plan(Tail(todo))
        /\ \A x : Among(x, Tail(todo)) => Among(x, todo)
        /\ \A x : Among(x, todo) => Among(x, Tail(todo)) \/ todo[1] = x
        /\ Tail(todo) # << >> =>
              /\ Tail(todo)[1] = Head(Tail(todo))
              /\ Tail(todo)[1] = "write" => todo[1] = "open"
    BY Zenon, <2>1, Rest
  <2>3. /\ todo' \in Seq(StepNames) /\ Plan(todo') /\ \A x : In(x)' => In(x)
        /\ \A x : In(x) /\ x # "callbacks" => In(x)'
        /\ ~At("write")'
    BY Zenon, <1>2, <2>1, <2>2 DEF In, At
  <2>4. (\A x \in {"write", "flush", "drain"} : In(x) => In(x)') /\ (In("ended") => In("ended")')
    BY Zenon, <2>3
  <2>5. \A f : Has(f)' <=> Has(f)
    BY Zenon, <1>1 DEF Has
  <2>6. count' \in Nat /\ flags' \subseteq Flags /\ pevents' \subseteq {"in", "out"}
    BY Zenon, <1>1, Vars DEF Inv, TypeInv
  <2>7. /\ Has("CLOSING") => pevents' = {} /\ ~Has("READING")'
        /\ Open => /\ "in" \in pevents' => Has("ACTIVE")'
                   /\ Has("READING")' /\ ~In("ended")' => Has("ACTIVE")' /\ "in" \in pevents'
    BY Zenon, <1>1, <2>4, <2>5 DEF Inv, StallInv, ClosingInv
  <2>8. UNCHANGED <<calls, connect, fed, queues, dead, stranded>>
    BY Zenon, <1>1, <1>2 DEF calls, queues
  <2> QED
    BY Zenon, <1>1, <1>2, <2>1, <2>3, <2>4, <2>5, <2>6, <2>7, <2>8, QuietKeeps
<1>3. CASE /\ completed # << >> /\ todo' = <<"cb">> \o todo
           /\ completed' = Tail(completed) /\ size' = GivenBack(Head(completed))
           /\ state' = [state EXCEPT ![Head(completed)] = "done"]
  BY Zenon, <1>1, <1>3, CallBackKeeps
<1> QED
  BY Zenon, <1>2, <1>3 DEF uv__write_callbacks

LEMMA FlushKeeps ==
  ASSUME Inv, uv__stream_flush_write_queue
  PROVE  Inv'
<1>1. TypeInv /\ CallInv /\ PlanInv /\ AtInv /\ ConnInv /\ StallInv /\ ClosingInv
      /\ Good(Now, asked)
  BY Zenon DEF Inv
<1>2. /\ At("flush") /\ todo' = Tail(todo) /\ bytes' = bytes /\ state' = state
      /\ asked' = asked /\ before' = before /\ connect' = connect /\ flags' = flags
      /\ pevents' = pevents /\ fed' = fed /\ left' = left /\ size' = size /\ wire' = wire
      /\ count' = count /\ dead' = dead /\ stranded' = stranded
      /\ completed' = completed \o queue /\ queue' = << >>
      /\ error' = [r \in Writes |-> IF \E k \in DOMAIN queue : queue[k] = r
                                    THEN "failed" ELSE error[r]]
  BY Zenon DEF uv__stream_flush_write_queue, calls
<1>3. PICK w \in Rec : w = Now
  BY Zenon, <1>1 DEF TypeInv
<1>4. /\ w.queue = queue /\ w.completed = completed /\ w.left = left /\ w.error = error
      /\ w.size = size /\ w.wire = wire /\ w.flags = flags /\ w.dead = dead
      /\ w.pevents = pevents /\ w.fed = fed
      /\ completed \in Seq(Writes) /\ queue \in Seq(Writes)
      /\ error \in [Writes -> {"ok", "failed"}]
  BY Zenon, <1>1, <1>3, Vars
<1>5. /\ completed' \in Seq(Writes) /\ error' \in [Writes -> {"ok", "failed"}]
      /\ queue' \in Seq(Writes)
  <2>1. completed' \in Seq(Writes)
    BY Zenon, <1>2, <1>4, ConcatIs
  <2>2. error' \in [Writes -> {"ok", "failed"}]
    BY Zenon, <1>2, <1>4
  <2>3. queue' \in Seq(Writes)
    BY <1>2
  <2> QED
    BY Zenon, <2>1, <2>2, <2>3
<1>6. Now' \in Rec
  BY Zenon, <1>1, <1>2, <1>5, Vars DEF Now, Rec
<1>7. PICK v \in Rec : v = Now'
  BY Zenon, <1>6
<1>8. /\ v.completed = completed' /\ v.queue = queue' /\ v.size = size'
      /\ v.left = left' /\ v.error = error' /\ v.wire = wire'
      /\ v.flags = flags' /\ v.dead = dead'
  BY Zenon, <1>7 DEF Now
<1>9. Flushed(w, v)
  <2>1. /\ v.left = w.left /\ v.size = w.size /\ v.wire = w.wire
        /\ v.flags = w.flags /\ v.dead = w.dead
    BY Zenon, <1>2, <1>4, <1>8
  <2>2. v.error = [r \in Writes |-> IF \E k \in DOMAIN w.queue : w.queue[k] = r
                                    THEN "failed" ELSE w.error[r]]
    BY ONLY <1>2, <1>4, <1>8
  <2> QED
    BY Zenon, <1>2, <1>4, <1>8, <2>1, <2>2 DEF Flushed
<1>10. /\ todo \in Seq(StepNames) /\ Plan(todo) /\ todo # << >> /\ todo[1] = "flush"
       /\ In("flush") /\ connect = "done"
       /\ Has("CLOSED") => Has("CLOSING") /\ \A x : In(x) => x \in Last
  BY Zenon, <1>2, Running
<1>11. ~Sending(v)
  <2>1. dead \/ "CLOSING" \in flags
    BY Zenon, <1>1, <1>10 DEF ClosingInv, Has
  <2>2. v.dead = dead /\ v.flags = flags
    BY Zenon, <1>2, <1>8
  <2> QED
    BY Zenon, <2>1, <2>2 DEF Sending
<1>12. Good(Now, asked)'
  BY Zenon, <1>1, <1>2, <1>3, <1>7, <1>9, <1>11, FlushedGood
<1>13. /\ todo' \in Seq(StepNames) /\ Plan(todo') /\ \A x : In(x)' => In(x)
       /\ \A x : In(x) /\ x # "flush" => In(x)'
       /\ ~At("write")' /\ ~At("drain")' /\ In("callbacks")'
  <2>1. /\ Tail(todo) \in Seq(StepNames) /\ Plan(Tail(todo))
        /\ \A x : Among(x, Tail(todo)) => Among(x, todo)
        /\ \A x : Among(x, todo) => Among(x, Tail(todo)) \/ todo[1] = x
        /\ Tail(todo) # << >> =>
              /\ Tail(todo)[1] = Head(Tail(todo))
              /\ Tail(todo)[1] = "write" => todo[1] = "open"
              /\ Tail(todo)[1] = "drain" => todo[1] = "callbacks"
        /\ Among("callbacks", Tail(todo))
    BY Zenon, <1>10, Rest
  <2> QED
    BY Zenon, <1>2, <1>10, <2>1 DEF In, At
<1>14. TypeInv'
  BY Zenon, <1>1, <1>2, <1>6, <1>13 DEF TypeInv
<1>15. CallInv'
  <2>1. Cnt(v) = Cnt(w) /\ \A k \in 1 .. Cnt(w) : It(v, k) = It(w, k)
    BY Zenon, <1>9, FlushedItems
  <2>2. \A r \in Writes : state[r] = "queued" <=> \E k \in 1 .. Cnt(w) : It(w, k) = r
    BY Zenon, <1>1, <1>3 DEF CallInv
  <2>3. \A r \in Writes : state[r] = "queued" <=> \E k \in 1 .. Cnt(v) : It(v, k) = r
    BY Zenon, <2>1, <2>2
  <2>4. ASSUME NEW r \in Writes, state[r] # "queued"
        PROVE  error'[r] = error[r]
    <3>1. PICK c, q \in Nat :
            /\ Len(completed) = c /\ Len(queue) = q /\ Cnt(w) = c + q
            /\ \A k : It(w, k) = IF k <= c THEN completed[k] ELSE queue[k - c]
      BY Zenon, <1>4, CntIs
    <3>2. ASSUME NEW k \in DOMAIN queue, queue[k] = r PROVE FALSE
      <4>1. k \in 1 .. q
        <5>1. DOMAIN queue = 1 .. Len(queue)
          BY ONLY <1>4
        <5> QED
          BY Zenon, <3>1, <5>1
      <4>2. c + k \in 1 .. Cnt(w) /\ ~(c + k <= c) /\ (c + k) - c = k
        BY <3>1, <4>1
      <4>3. It(w, c + k) = queue[(c + k) - c]
        BY Zenon, <3>1, <4>2
      <4>4. It(w, c + k) = r
        BY Zenon, <3>2, <4>2, <4>3
      <4> QED
        BY Zenon, <2>2, <2>4, <4>2, <4>4
    <3> QED
      BY Zenon, <1>2, <3>2
  <2>5. ASSUME NEW r \in Writes, state[r] = "new"
        PROVE  left'[r] = bytes[r] /\ error'[r] = "ok"
    BY Zenon, <1>1, <1>2, <2>4, <2>5 DEF CallInv
  <2>6. ASSUME NEW r \in Writes, state[r] = "done", error'[r] = "ok"
        PROVE  left'[r] = 0
    BY Zenon, <1>1, <1>2, <2>4, <2>6 DEF CallInv
  <2> QED
    BY Zenon, <1>1, <1>2, <1>7, <2>3, <2>5, <2>6 DEF CallInv
<1>16. \A f : Has(f)' <=> Has(f)
  BY Zenon, <1>2 DEF Has
<1>17. PlanInv'
  <2>1. Has("CLOSED")' => \A k \in 1 .. Len(todo') : todo'[k] \in Last
    BY Zenon, <1>10, <1>13, <1>16 DEF In, Among
  <2> QED
    BY Zenon, <1>10, <1>13, <1>16, <2>1 DEF PlanInv, Last
<1>18. AtInv' /\ ConnInv'
  BY Zenon, <1>2, <1>10, <1>13 DEF AtInv, ConnInv
<1>19. Open' <=> Open
  BY Zenon, <1>2, <1>16 DEF Open
<1>20. StallInv'
  <2>1. \A x \in {"drain", "ended"} : In(x) <=> In(x)'
    BY Zenon, <1>13
  <2> QED
    BY Zenon, <1>1, <1>2, <1>13, <1>16, <1>19, <2>1 DEF StallInv
<1>21. ClosingInv'
  BY Zenon, <1>1, <1>2, <1>13, <1>16 DEF ClosingInv
<1> QED
  BY Zenon, <1>12, <1>14, <1>15, <1>17, <1>18, <1>20, <1>21 DEF Inv

-----------------------------------------------------------------------------
(* The calls from the loop.                                                *)

LEMMA FinishCloseKeeps ==
  ASSUME Inv, uv__finish_close
  PROVE  Inv'
<1>1. TypeInv /\ PlanInv /\ AtInv /\ ConnInv /\ StallInv /\ ClosingInv
  BY Zenon DEF Inv
<1>2. /\ todo = << >> /\ Has("CLOSING") /\ ~Has("CLOSED") /\ flags' = flags \cup {"CLOSED"}
      /\ connect' = "done" /\ UNCHANGED <<calls, pevents, fed, queues, count, dead, stranded>>
      /\ todo' = Steps(<<"cb">>, Connecting) \o <<"flush", "callbacks", "cancel">>
      /\ pevents' = pevents /\ fed' = fed /\ count' = count /\ dead' = dead
      /\ stranded' = stranded /\ UNCHANGED <<calls, queues>>
  BY Zenon DEF uv__finish_close
<1>3. PICK b \in Seq(StepNames) :
        /\ b = <<"flush", "callbacks", "cancel">> /\ Plan(b) /\ b # << >> /\ b[1] = "flush"
        /\ \A x : Among(x, b) <=> x \in {"flush", "callbacks", "cancel"}
  <2>1. <<"flush", "callbacks", "cancel">> # << >> /\ <<"flush", "callbacks", "cancel">>[1] = "flush"
    OBVIOUS
  <2> QED
    BY Zenon, <2>1, Triples
<1>4. /\ todo' \in Seq(StepNames) /\ Plan(todo') /\ todo' # << >>
      /\ Head(todo') \in {"cb", "flush"}
      /\ \A x : In(x)' => x \in Last
      /\ In("flush")' /\ In("callbacks")'
  <2>1. CASE Connecting
    <3>1. todo' = <<"cb">> \o b
      BY Zenon, <1>2, <1>3, <2>1 DEF Steps
    <3>2. b[1] \notin {"write", "drain"} /\ ~Among("read", b)
      BY <1>3
    <3>3. /\ todo' \in Seq(StepNames) /\ Plan(todo') /\ todo' # << >> /\ Head(todo') = "cb"
          /\ \A x : Among(x, todo') <=> x = "cb" \/ Among(x, b)
      BY Zenon, <1>3, <3>1, <3>2, CbFirst
    <3> QED
      BY Zenon, <1>3, <3>3 DEF In, Last
  <2>2. CASE ~Connecting
    <3>1. << >> \o b = b
      OBVIOUS
    <3>2. todo' = b
      BY Zenon, <1>2, <1>3, <2>2, <3>1 DEF Steps
    <3>3. Head(b) = b[1]
      BY Zenon, <1>3, TailIs
    <3> QED
      BY Zenon, <1>3, <3>2, <3>3 DEF In, Last
  <2> QED
    BY Zenon, <2>1, <2>2
<1>5. /\ \A f : f # "CLOSED" => (Has(f)' <=> Has(f))
      /\ Has("CLOSED")' /\ ~Open'
  BY Zenon, <1>2 DEF Has, Open
<1>6. Has("CLOSING")' /\ (Has("READING")' <=> Has("READING"))
      /\ (Has("SHUTTING")' <=> Has("SHUTTING")) /\ (Has("SHUT")' <=> Has("SHUT"))
  BY Zenon, <1>2, <1>5
<1>7. TypeInv' /\ Good(Now, asked)' /\ CallInv'
  <2>1. flags \cap {"SHUT", "CLOSING"} \subseteq flags' /\ flags' \subseteq Flags
    BY Zenon, <1>1, <1>2, Vars DEF Flags
  <2>2. /\ pevents' \subseteq {"in", "out"} /\ fed' \in BOOLEAN /\ dead' \in BOOLEAN
        /\ count' \in Nat /\ stranded' \in BOOLEAN /\ (dead => dead')
        /\ connect' \in {"none", "inprogress", "delayed", "done"}
    <3>1. /\ pevents \subseteq {"in", "out"} /\ fed \in BOOLEAN /\ dead \in BOOLEAN
          /\ count \in Nat /\ stranded \in BOOLEAN
      BY Zenon, <1>1, Vars DEF TypeInv
    <3> QED
      BY <1>2, <3>1
  <2> QED
    BY Zenon, <1>2, <1>4, <2>1, <2>2, FrameKeeps
<1>8. PlanInv'
  <2>1. \A k \in 1 .. Len(todo') : todo'[k] \in Last
    BY Zenon, <1>4 DEF In, Among
  <2> QED
    BY Zenon, <1>4, <1>6, <2>1 DEF PlanInv, Last
<1>9. AtInv' /\ ConnInv'
  <2>1. ~At("write")' /\ ~At("drain")'
    BY Zenon, <1>4 DEF At
  <2> QED
    BY Zenon, <1>2, <1>4, <2>1 DEF AtInv, ConnInv
<1>10. StallInv'
  BY Zenon, <1>1, <1>5, <1>6 DEF StallInv
<1>11. ClosingInv'
  <2>1. fed' <=> fed
    BY <1>1, <1>2, Vars
  <2> QED
    BY Zenon, <1>1, <1>2, <1>6, <2>1 DEF ClosingInv
<1> QED
  BY Zenon, <1>7, <1>8, <1>9, <1>10, <1>11 DEF Inv

\* A call from the loop, through pending_queue or by epoll: the place in the queue
\* is used up only if POLLOUT is acted upon.
LEMMA CalledKeeps ==
  ASSUME Instance, Inv, NEW events, Called(events), todo = << >>,
         fed \/ pevents # {}, fed' \in BOOLEAN,
         fed' = fed \/ "out" \in events, fed' => fed,
         UNCHANGED <<calls, queues>>
  PROVE  Inv'
<1>1. TypeInv /\ PlanInv /\ AtInv /\ ConnInv /\ StallInv /\ ClosingInv
  BY Zenon DEF Inv
<1>2. /\ ~Has("CLOSING") /\ ~Has("CLOSED") /\ connect # "none" /\ Open
  BY Zenon, <1>1 DEF ClosingInv, ConnInv, PlanInv, Open
<1>3. queue' = queue /\ completed' = completed /\ \A x : ~In(x)
  BY Zenon, Lists DEF queues, In
<1>4. /\ flags \subseteq Flags /\ pevents \subseteq {"in", "out"} /\ count \in Nat
      /\ stranded \in BOOLEAN /\ dead \in BOOLEAN
  BY Zenon, <1>1, Vars DEF TypeInv
<1>5. ASSUME Connecting, NEW failed \in {TRUE} \cup {connect = "delayed"}, uv__stream_connect(failed)
      PROVE  Inv'
  <2>1. failed \in BOOLEAN /\ (~failed => connect = "inprogress")
    BY Zenon, <1>5 DEF Connecting
  <2>2. /\ connect' = "done" /\ dead' = failed /\ flags' = flags /\ count' = count
        /\ pevents' = (IF failed \/ queue = << >> THEN pevents \ {"out"} ELSE pevents)
        /\ stranded' = ((failed \/ queue = << >>) /\ Has("SHUTTING"))
    BY Zenon, <1>5 DEF uv__stream_connect
  <2>3. /\ todo' \in Seq(StepNames) /\ Plan(todo') /\ todo' # << >> /\ Head(todo') = "cb"
        /\ ~In("ended")' /\ (failed => In("flush")' /\ In("callbacks")')
        /\ (In("flush")' => failed)
    BY Zenon, <1>5, <2>1, ConnectedIs DEF In
  <2>4. ~dead /\ completed = << >>
    BY Zenon, <1>1, <1>5 DEF ConnInv, Connecting
  <2>5. \A f : Has(f)' <=> Has(f)
    BY Zenon, <2>2 DEF Has
  <2>6. pevents' \subseteq pevents /\ ("in" \in pevents' <=> "in" \in pevents)
    BY Zenon, <2>2
  <2>7. TypeInv' /\ Good(Now, asked)' /\ CallInv'
    <3>1. pevents' \subseteq {"in", "out"} /\ flags' \subseteq Flags
      BY Zenon, <1>4, <2>2, <2>6
    <3>2. stranded' \in BOOLEAN /\ dead' \in BOOLEAN
      BY Zenon, <2>1, <2>2
    <3>3. (dead => dead') /\ flags \cap {"SHUT", "CLOSING"} \subseteq flags'
      BY Zenon, <2>2, <2>4
    <3>4. connect' \in {"none", "inprogress", "delayed", "done"} /\ count' \in Nat
      BY Zenon, <1>4, <2>2
    <3> QED
      BY Zenon, <2>3, <3>1, <3>2, <3>3, <3>4, FrameKeeps
  <2>8. ~At("write")' /\ ~At("drain")'
    BY Zenon, <2>3 DEF At
  <2>9. ~Has("CLOSED")' /\ ~Has("CLOSING")'
    BY Zenon, <1>2, <2>5
  <2>10. PlanInv' /\ AtInv' /\ ConnInv'
    BY Zenon, <2>2, <2>3, <2>8, <2>9 DEF PlanInv, AtInv, ConnInv
  <2>11. StallInv'
    <3>1. queue # << >> => "out" \in pevents' \/ In("flush")'
      <4>1. ~failed => "out" \in pevents
        BY Zenon, <1>1, <1>2, <2>1 DEF ConnInv
      <4> QED
        BY Zenon, <2>2, <2>3, <4>1
    <3>2. Has("SHUTTING") /\ ~stranded' => "out" \in pevents'
      <4>1. ~failed => "out" \in pevents
        BY Zenon, <1>1, <1>2, <2>1 DEF ConnInv
      <4> QED
        BY Zenon, <2>2, <4>1
    <3> QED
      BY Zenon, <1>1, <1>2, <1>3, <2>3, <2>4, <2>5, <2>6, <3>1, <3>2 DEF StallInv
  <2>12. ClosingInv'
    BY Zenon, <2>2, <2>3, <2>9 DEF ClosingInv
  <2> QED
    BY Zenon, <2>7, <2>10, <2>11, <2>12 DEF Inv
<1>6. CASE /\ ~Connecting /\ StreamIo(events)
           /\ dead' = (dead \/ "hup" \in events)
           /\ UNCHANGED <<connect, pevents, stranded>>
  <2>1. connect = "done" /\ connect' = "done"
    BY Zenon, <1>1, <1>2, <1>6 DEF Connecting, TypeInv
  <2>2. /\ todo' \in Seq(StepNames) /\ Plan(todo') /\ todo' # << >>
        /\ Head(todo') \in {"read", "open"} /\ ~In("ended")' /\ ~In("flush")'
        /\ "out" \in events => \A x \in {"write", "callbacks", "drain"} : In(x)'
        /\ count' \in Nat /\ flags' \subseteq flags /\ flags \ flags' \subseteq {"PARTIAL"}
    BY Zenon, <1>1, <1>6, StreamIoIs DEF In
  <2>3. \A f : f # "PARTIAL" => (Has(f)' <=> Has(f))
    BY Zenon, <2>2 DEF Has
  <2>4. \A f \in {"CLOSING", "CLOSED", "SHUT", "SHUTTING", "ACTIVE", "READING"} : Has(f)' <=> Has(f)
    BY Zenon, <2>3
  <2>5. TypeInv' /\ Good(Now, asked)' /\ CallInv'
    <3>1. pevents' \subseteq {"in", "out"} /\ flags' \subseteq Flags /\ stranded' \in BOOLEAN
      BY Zenon, <1>4, <1>6, <2>2
    <3>2. dead' \in BOOLEAN /\ (dead => dead')
      BY Zenon, <1>4, <1>6
    <3>3. flags \cap {"SHUT", "CLOSING"} \subseteq flags'
      BY Zenon, <2>4 DEF Has
    <3>4. connect' \in {"none", "inprogress", "delayed", "done"}
      BY Zenon, <2>1
    <3> QED
      BY Zenon, <2>2, <3>1, <3>2, <3>3, <3>4, FrameKeeps
  <2>6. ~At("write")' /\ ~At("drain")'
    BY Zenon, <2>2 DEF At
  <2>7. ~Has("CLOSED")' /\ ~Has("CLOSING")'
    BY Zenon, <1>2, <2>4
  <2>8. PlanInv' /\ AtInv' /\ ConnInv'
    BY Zenon, <2>1, <2>2, <2>6, <2>7 DEF PlanInv, AtInv, ConnInv
  <2>9. StallInv'
    <3>1. pevents' = pevents /\ stranded' = stranded
      BY Zenon, <1>6
    <3>2. CASE "out" \in events
      BY Zenon, <1>1, <1>2, <1>3, <2>2, <2>4, <3>1, <3>2 DEF StallInv
    <3>3. CASE fed' = fed
      BY Zenon, <1>1, <1>2, <1>3, <2>2, <2>4, <3>1, <3>3 DEF StallInv
    <3> QED
      BY Zenon, <3>2, <3>3
  <2>10. ClosingInv'
    BY Zenon, <2>2, <2>7 DEF ClosingInv
  <2> QED
    BY Zenon, <2>5, <2>8, <2>9, <2>10 DEF Inv
<1> QED
  BY Zenon, <1>5, <1>6 DEF Called

LEMMA PendingKeeps ==
  ASSUME Instance, Inv, Pending
  PROVE  Inv'
<1>1. /\ todo = << >> /\ fed /\ fed' = FALSE /\ Called({"out"}) /\ UNCHANGED <<calls, queues>>
  BY Zenon DEF Pending
<1>2. fed' \in BOOLEAN /\ "out" \in {"out"} /\ (fed' => fed)
  BY Zenon, <1>1
<1> QED
  BY Zenon, <1>1, <1>2, CalledKeeps

LEMMA PollKeeps ==
  ASSUME Instance, Inv, NEW events, Poll(events)
  PROVE  Inv'
<1>1. /\ todo = << >> /\ pevents # {} /\ fed' = fed /\ Called(events)
      /\ UNCHANGED <<calls, queues>>
  BY Zenon DEF Poll
<1>2. fed' \in BOOLEAN
  BY Zenon, <1>1, Vars DEF Inv
<1> QED
  BY Zenon, <1>1, <1>2, CalledKeeps

-----------------------------------------------------------------------------
(* The invariant is inductive.                                             *)

LEMMA InitInv ==
  ASSUME Instance, Init
  PROVE  Inv
<1>1. /\ connect = "none" /\ flags = {} /\ pevents = {} /\ fed = FALSE
      /\ queue = << >> /\ completed = << >> /\ bytes \in [Writes -> Nat] /\ left = bytes
      /\ error = [r \in Writes |-> "ok"] /\ size = 0 /\ todo = << >> /\ count = 0
      /\ dead = FALSE /\ state = [r \in Writes |-> "new"]
      /\ asked = << >> /\ wire = << >> /\ before = {} /\ stranded = FALSE
  BY Zenon DEF Init, Instance
<1>2. Now \in Rec
  <2>1. /\ queue \in Seq(Writes) /\ completed \in Seq(Writes) /\ wire \in Seq(Writes)
        /\ size \in Nat
    BY <1>1
  <2>2. left \in [Writes -> Nat] /\ error \in [Writes -> {"ok", "failed"}]
    BY Zenon, <1>1
  <2>3. /\ pevents \in SUBSET {"in", "out"} /\ fed \in BOOLEAN /\ dead \in BOOLEAN
        /\ flags \in SUBSET Flags
    BY Zenon, <1>1
  <2> QED
    BY ONLY <2>1, <2>2, <2>3 DEF Now, Rec
<1>3. TypeInv
  <2>1. count \in Nat /\ asked \in Seq(Writes) /\ todo \in Seq(StepNames)
    BY <1>1
  <2> QED
    BY Zenon, <1>1, <1>2, <2>1 DEF TypeInv
<1>4. PICK w \in Rec : w = Now
  BY Zenon, <1>2
<1>5. /\ w.queue = << >> /\ w.completed = << >> /\ w.size = 0 /\ w.wire = << >>
      /\ Cnt(w) = 0 /\ 1 .. Cnt(w) = {} /\ Len(w.completed) = 0
  BY <1>1, <1>4 DEF Now, Cnt
<1>6. Good(w, asked)
  <2> DEFINE P == [k \in 0 .. 0 |-> 0]
  <2>1. Sums(w, P)
    BY <1>5 DEF Sums
  <2>2. Unsent(w, P, asked)
    <3>1. Len(asked) = Len(w.wire) + w.size
      BY <1>1, <1>5
    <3>2. P[0] = 0
      OBVIOUS
    <3>3. \A k : k \notin 0 + 1 .. 0
      OBVIOUS
    <3> QED
      BY Zenon, <1>5, <3>1, <3>2, <3>3 DEF Unsent
  <2>3. Once(w) /\ Prefix(w.wire, asked)
    BY <1>1, <1>5 DEF Once, Prefix
  <2>4. \A k \in 1 .. Len(w.completed) : w.error[w.completed[k]] = "ok" => w.left[w.completed[k]] = 0
    BY Zenon, <1>5
  <2> QED
    BY Zenon, <2>1, <2>2, <2>3, <2>4 DEF Good
<1>7. CallInv
  <2>1. \A k : k \notin 1 .. Cnt(Now)
    BY Zenon, <1>4, <1>5
  <2>2. \A r \in Writes : state[r] = "new" /\ error[r] = "ok" /\ left[r] = bytes[r]
    BY Zenon, <1>1
  <2> QED
    BY Zenon, <1>1, <2>1, <2>2 DEF CallInv
<1>8. \A x : ~In(x) /\ ~At(x) /\ ~Has(x)
  BY Zenon, <1>1, Lists DEF In, At, Has
<1>9. PlanInv
  BY Zenon, <1>1, <1>8, Lists DEF PlanInv
<1>10. AtInv /\ ConnInv /\ StallInv /\ ClosingInv
  BY Zenon, <1>1, <1>8 DEF AtInv, ConnInv, StallInv, ClosingInv, Open
<1> QED
  BY Zenon, <1>3, <1>4, <1>6, <1>7, <1>9, <1>10 DEF Inv

LEMMA StutterKeeps ==
  ASSUME Inv, UNCHANGED vars
  PROVE  Inv'
<1>1. /\ UNCHANGED <<calls, queues>> /\ connect' = connect /\ flags' = flags
      /\ pevents' = pevents /\ fed' = fed /\ dead' = dead /\ todo' = todo /\ count' = count
      /\ stranded' = stranded /\ queue' = queue /\ completed' = completed
  BY Zenon DEF vars, calls, queues
<1>2. TypeInv' /\ Good(Now, asked)' /\ CallInv'
  <2>1. /\ pevents' \subseteq {"in", "out"} /\ fed' \in BOOLEAN /\ dead' \in BOOLEAN
        /\ count' \in Nat /\ stranded' \in BOOLEAN /\ (dead => dead') /\ flags' \subseteq Flags
        /\ connect' \in {"none", "inprogress", "delayed", "done"} /\ todo' \in Seq(StepNames)
        /\ flags \cap {"SHUT", "CLOSING"} \subseteq flags'
    BY Zenon, <1>1, Vars DEF Inv, TypeInv
  <2> QED
    BY Zenon, <1>1, <2>1, FrameKeeps
<1>3. PlanInv' /\ AtInv' /\ ConnInv' /\ StallInv' /\ ClosingInv'
  BY Zenon, <1>1 DEF Inv, PlanInv, AtInv, ConnInv, StallInv, ClosingInv, Has, In, At, Open
<1> QED
  BY Zenon, <1>2, <1>3 DEF Inv

LEMMA Inductive ==
  ASSUME Instance, Inv, [Next]_vars
  PROVE  Inv'
<1>1. CASE LoopStep
  BY Zenon, <1>1, CallbackReturnsKeeps, CheckOpenKeeps, ReadKeeps, AfterReadKeeps,
     HangUpKeeps, WriteStepKeeps, CallbacksKeeps, DrainKeeps, FlushKeeps,
     FinishCloseKeeps, CancelShutdownKeeps DEF LoopStep
<1>2. CASE Ended
  BY Zenon, <1>2, StutterKeeps DEF Ended
<1> QED
  BY Zenon, <1>1, <1>2, StutterKeeps, ConnectKeeps, ShutdownKeeps, ReadStartKeeps,
     ReadStopKeeps, CloseKeeps, WriteCallKeeps, TryWriteKeeps, PendingKeeps, PollKeeps
     DEF Next

\* Only uv__drain sets UV_STREAM_SHUT.
LEMMA NewShut ==
  ASSUME Instance, Inv, [Next]_vars, Has("SHUT")', ~Has("SHUT")
  PROVE  uv__drain /\ Drained
<1>1. SUFFICES ASSUME ~(uv__drain /\ Drained) PROVE flags' \subseteq flags \cup (Flags \ {"SHUT"})
  BY Zenon DEF Has
<1>2. \A f \in {"SHUTTING", "READING", "ACTIVE", "CLOSING", "CLOSED", "EOF", "PARTIAL"} :
        f \in Flags \ {"SHUT"}
  BY Zenon DEF Flags
<1>3. ASSUME NEW set, StopIn(set), set \subseteq flags \cup (Flags \ {"SHUT"})
      PROVE  flags' \subseteq flags \cup (Flags \ {"SHUT"})
  BY Zenon, <1>3, StopInIs
<1>4. ASSUME uv__stream_eof(Tail(todo))
      PROVE  flags' \subseteq flags \cup (Flags \ {"SHUT"})
  <2>1. StopIn(flags \cup {"EOF"})
    BY Zenon, <1>4 DEF uv__stream_eof
  <2> QED
    BY Zenon, <1>2, <1>3, <2>1
<1>5. CASE \/ uv__tcp_connect \/ CallbackReturns \/ CheckOpen \/ uv__write_callbacks
           \/ uv__stream_flush_write_queue \/ CancelShutdown \/ UNCHANGED vars
  <2>1. flags' = flags
    BY Zenon, <1>5 DEF uv__tcp_connect, CallbackReturns, CheckOpen, uv__write_callbacks,
       uv__stream_flush_write_queue, CancelShutdown, vars
  <2> QED
    BY Zenon, <2>1
<1>6. CASE uv_shutdown \/ uv_read_start \/ uv__stream_close \/ uv__finish_close
  BY Zenon, <1>2, <1>6 DEF uv_shutdown, uv_read_start, uv__stream_close, uv__finish_close
<1>7. CASE uv_read_stop
  BY Zenon, <1>3, <1>7 DEF uv_read_stop
<1>8. ASSUME NEW r \in Writes, uv_write(r) \/ uv_try_write(r)
      PROVE  flags' \subseteq flags \cup (Flags \ {"SHUT"})
  <2>1. Open /\ state[r] = "new"
    BY Zenon, <1>8 DEF uv_write, uv_try_write
  <2>2. PICK v \in uv_write2(r) : flags' = v.flags \/ flags' = TakenBack(v, r).flags
    BY Zenon, <1>8 DEF uv_write, uv_try_write, Becomes
  <2>3. v \in Rec /\ v.flags \subseteq flags
    <3>1. PICK u \in Rec : Enters(Now, u, r) /\ v \in Rec /\ CalledFor(u, v)
      BY Zenon, <2>1, Write2Is
    <3>2. u.flags = flags
      BY Zenon, <3>1, Vars DEF Inv, Enters
    <3> QED
      BY Zenon, <3>1, <3>2 DEF CalledFor
  <2>4. TakenBack(v, r).flags = v.flags
    BY Zenon, <2>3 DEF TakenBack, Rec
  <2> QED
    BY Zenon, <2>2, <2>3, <2>4
<1>9. ASSUME NEW events, Called(events)
      PROVE  flags' \subseteq flags \cup (Flags \ {"SHUT"})
  <2>1. flags' \subseteq flags
    BY Zenon, <1>9 DEF Called, uv__stream_connect, StreamIo
  <2> QED
    BY Zenon, <2>1
<1>10. CASE uv__read
  BY Zenon, <1>4, <1>10 DEF uv__read
<1>11. CASE AfterRead
  <2>1. CASE StopIn(flags \ {"READING"})
    BY Zenon, <1>3, <2>1
  <2>2. CASE flags' = flags \/ flags' = flags \ {"READING"} \/ flags' = flags \cup {"PARTIAL"}
    BY Zenon, <1>2, <2>2
  <2> QED
    BY Zenon, <1>11, <2>1, <2>2 DEF AfterRead
<1>12. CASE HangUp
  BY Zenon, <1>4, <1>12 DEF HangUp
<1>13. CASE Write
  <2>1. PICK v \in uv__write(Now) : flags' = v.flags
    BY Zenon, <1>13 DEF Write, Becomes
  <2>2. At("write") /\ Open /\ Now \in Rec /\ asked \in Seq(Writes) /\ Good(Now, asked)
    BY Zenon, <1>13 DEF Write, Inv, AtInv, TypeInv
  <2>3. Now.flags = flags /\ Now.dead = dead
    BY Zenon, Vars DEF Inv
  <2>4. AsNow(Now)
    BY Zenon, <2>2, <2>3 DEF AsNow, Open
  <2>5. CalledFor(Now, v)
    BY Zenon, <2>1, <2>2, <2>4, WriteKeeps
  <2> QED
    BY Zenon, <2>1, <2>3, <2>5 DEF CalledFor
<1>14. CASE uv__drain
  BY Zenon, <1>1, <1>14 DEF uv__drain
<1> QED
  BY Zenon, <1>5, <1>6, <1>7, <1>8, <1>9, <1>10, <1>11, <1>12, <1>13, <1>14
     DEF Next, LoopStep, Pending, Poll, Ended

-----------------------------------------------------------------------------
(* The results.                                                            *)

\* A stream keeps the invariant of its queues, flags and pending steps, for any
\* number of requests of any sizes.
THEOREM StreamCorrect == ASSUME Instance PROVE Spec => []Inv
<1>1. Init => Inv
  BY Zenon, InitInv
<1>2. Inv /\ [Next]_vars => Inv'
  BY Zenon, Inductive
<1> QED
  BY <1>1, <1>2, PTL DEF Spec

\* uv__write and uv_try_write put the bytes on the wire in the order in which the
\* script asked for them, none left out, and a request reported as written is there.
THEOREM WrittenInOrder == ASSUME Instance PROVE Spec => []WireInOrder
<1>1. Inv => WireInOrder
  <2> SUFFICES ASSUME Inv PROVE WireInOrder
    OBVIOUS
  <2>1. /\ Now.wire = wire /\ wire \in Seq(Writes) /\ Prefix(Now.wire, asked)
        /\ \A r \in Writes : state[r] = "done" /\ error[r] = "ok" => left[r] = 0
    BY Zenon, Vars DEF Inv, Good, CallInv
  <2>2. DOMAIN wire = 1 .. Len(wire)
    BY <2>1
  <2> QED
    BY Zenon, <2>1, <2>2 DEF WireInOrder, Prefix
<1> QED
  BY <1>1, StreamCorrect, PTL

\* Between two calls from the loop, whatever waits has POLLOUT or a place in
\* pending_queue: the bookkeeping of uv__io_start, uv__io_stop and uv__io_feed.
THEOREM StreamNeverStalls == ASSUME Instance PROVE Spec => []NoStall
<1>1. Inv => NoStall
  <2> SUFFICES ASSUME Inv, todo = << >>, Open
               PROVE  /\ Connecting \/ queue # << >> \/ (Has("SHUTTING") /\ ~stranded)
                           => fed \/ "out" \in pevents
                      /\ completed # << >> => fed
                      /\ "in" \in pevents => Has("ACTIVE")
    BY Zenon DEF NoStall
  <2>1. \A x : ~In(x)
    BY Zenon, Lists DEF In
  <2>2. Connecting => fed \/ "out" \in pevents
    BY Zenon DEF Inv, ConnInv, Connecting, Open
  <2> QED
    BY Zenon, <2>1, <2>2 DEF Inv, StallInv
<1> QED
  BY <1>1, StreamCorrect, PTL

\* A close, in whichever callback, is noticed before uv__write uses the fd, and
\* uv__stream_destroy has every request called back and write_queue_size at 0.
THEOREM CloseCallsBack == ASSUME Instance PROVE Spec => []CloseReports
<1>1. Inv => CloseReports
  <2> SUFFICES ASSUME Inv PROVE CloseReports
    OBVIOUS
  <2>1. At("write") => Open
    BY Zenon DEF Inv, AtInv
  <2>2. ASSUME Closed PROVE size = 0 /\ \A r \in Writes : state[r] # "queued"
    <3>1. todo = << >> /\ Has("CLOSED")
      BY Zenon, <2>2 DEF Closed
    <3>2. \A x : ~In(x)
      BY Zenon, <3>1, Lists DEF In
    <3>3. queue = << >> /\ completed = << >>
      BY Zenon, <3>1, <3>2 DEF Inv, AtInv
    <3>4. /\ Now.queue = queue /\ Now.completed = completed /\ Now.size = size
      BY Zenon, Vars DEF Inv
    <3>5. Cnt(Now) = 0
      BY <3>3, <3>4 DEF Cnt
    <3>6. PICK P : Sums(Now, P)
      BY Zenon DEF Inv, Good
    <3>7. size = 0
      BY Zenon, <3>4, <3>5, <3>6 DEF Sums
    <3>8. \A k : k \notin 1 .. Cnt(Now)
      BY <3>5
    <3> QED
      BY Zenon, <3>7, <3>8 DEF Inv, CallInv
  <2> QED
    BY Zenon, <2>1, <2>2 DEF CloseReports
<1> QED
  BY <1>1, StreamCorrect, PTL

\* uv__drain calls shutdown(2) only after every request that was made before
\* uv_shutdown has been reported.
THEOREM ShutdownComesLast == ASSUME Instance PROVE Spec => ShutdownWaits
<1>1. ASSUME Inv, [Next]_vars, Has("SHUT")', ~Has("SHUT"), NEW r \in before
      PROVE  state[r] = "done"
  <2>1. uv__drain /\ Drained
    BY Zenon, <1>1, NewShut
  <2>2. completed = << >> /\ queue = << >>
    BY Zenon, <1>1, <2>1 DEF Inv, AtInv, uv__drain, Drained
  <2>3. /\ Now.queue = queue /\ Now.completed = completed
    BY Zenon, <1>1, Vars DEF Inv
  <2>4. Cnt(Now) = 0
    BY <2>2, <2>3 DEF Cnt
  <2>5. \A k : k \notin 1 .. Cnt(Now)
    BY <2>4
  <2>6. r \in Writes /\ state[r] \in {"queued", "done"}
    BY Zenon, <1>1 DEF Inv, CallInv, TypeInv
  <2> QED
    BY Zenon, <1>1, <2>5, <2>6 DEF Inv, CallInv
<1>2. Inv /\ [Next]_vars =>
        [Has("SHUT")' /\ ~Has("SHUT") => \A r \in before : state[r] = "done"]_vars
  BY Zenon, <1>1
<1> QED
  BY <1>2, StreamCorrect, PTL DEF Spec, ShutdownWaits

=============================================================================
