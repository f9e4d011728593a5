------------------------- MODULE UvThreadPoolProofs -------------------------
(***************************************************************************)
(* Proofs about the thread pool, for every set of workers and of requests: *)
(* no request is lost, run twice or reported twice or falsely, no wakeup   *)
(* of the loop is lost, the pool never sleeps over queued work, and the    *)
(* pool implements the abstract life of a work request.                    *)
(***************************************************************************)
EXTENDS UvThreadPool, TLAPS

-----------------------------------------------------------------------------
(* Sequences without duplicates, by their elements.                        *)

Inj(s) == \A i, j \in DOMAIN s : s[i] = s[j] => i = j

\* Taking the head of a queue.
LEMMA TailFacts ==
  ASSUME NEW S, NEW s \in Seq(S), s # << >>
  PROVE  /\ Tail(s) \in Seq(S) /\ Head(s) \in S /\ Head(s) = s[1]
         /\ Head(s) \in Elems(s)
         /\ Elems(s) = {Head(s)} \cup Elems(Tail(s))
         /\ Inj(s) => Inj(Tail(s)) /\ Head(s) \notin Elems(Tail(s))
<1>1. /\ Len(s) \in Nat \ {0} /\ DOMAIN s = 1 .. Len(s)
      /\ Tail(s) \in Seq(S) /\ Len(Tail(s)) = Len(s) - 1
      /\ \A i \in 1 .. Len(s) - 1 : Tail(s)[i] = s[i + 1]
      /\ Head(s) = s[1] /\ \A i \in 1 .. Len(s) : s[i] \in S
  OBVIOUS
<1> DEFINE t == Tail(s)
<1>2. DOMAIN t = 1 .. Len(s) - 1
  BY <1>1
<1>3. Elems(s) = {Head(s)} \cup Elems(t)
  <2>1. ASSUME NEW i \in 1 .. Len(s)
        PROVE  s[i] = Head(s) \/ s[i] \in Elems(t)
    <3>1. CASE i = 1
      BY Zenon, <3>1, <1>1
    <3>2. CASE i # 1
      <4>1. i - 1 \in 1 .. Len(s) - 1 /\ t[i - 1] = s[i]
        BY <3>2, <1>1
      <4> QED BY Zenon, <4>1, <1>2 DEF Elems
    <3> QED BY Zenon, <3>1, <3>2
  <2>2. ASSUME NEW i \in 1 .. Len(s) - 1
        PROVE  t[i] \in Elems(s)
    <3>1. i + 1 \in 1 .. Len(s) /\ t[i] = s[i + 1]
      BY <1>1
    <3> QED BY Zenon, <3>1, <1>1 DEF Elems
  <2>3. Head(s) \in Elems(s)
    BY <1>1 DEF Elems
  <2> HIDE DEF t
  <2> QED BY <2>1, <2>2, <2>3, <1>1, <1>2 DEF Elems
<1>4. ASSUME Inj(s)
      PROVE  Inj(t) /\ Head(s) \notin Elems(t)
  <2>1. ASSUME NEW i \in 1 .. Len(s) - 1, NEW j \in 1 .. Len(s) - 1, t[i] = t[j]
        PROVE  i = j
    <3>1. i + 1 \in 1 .. Len(s) /\ j + 1 \in 1 .. Len(s) /\ s[i + 1] = s[j + 1]
      BY <1>1, <2>1
    <3> QED BY <3>1, <1>1, <1>4 DEF Inj
  <2>2. ASSUME NEW i \in 1 .. Len(s) - 1
        PROVE  t[i] # Head(s)
    <3>1. i + 1 \in 1 .. Len(s) /\ 1 \in 1 .. Len(s) /\ i + 1 # 1
      BY <1>1
    <3> QED BY Zenon, <3>1, <1>1, <1>4 DEF Inj
  <2> HIDE DEF t
  <2> QED BY Zenon, <2>1, <2>2, <1>2 DEF Inj, Elems
<1> QED BY <1>1, <1>3, <1>4

\* QUEUE_INSERT_TAIL.
LEMMA AppendFacts ==
  ASSUME NEW S, NEW s \in Seq(S), NEW e \in S
  PROVE  /\ Append(s, e) \in Seq(S) /\ Append(s, e) # << >>
         /\ Elems(Append(s, e)) = Elems(s) \cup {e}
         /\ Inj(s) /\ e \notin Elems(s) => Inj(Append(s, e))
<1> DEFINE a == Append(s, e)
<1>1. /\ Len(s) \in Nat /\ DOMAIN s = 1 .. Len(s)
      /\ a \in Seq(S) /\ DOMAIN a = 1 .. Len(s) + 1 /\ Len(a) = Len(s) + 1
      /\ a[Len(s) + 1] = e
      /\ \A i \in 1 .. Len(s) : a[i] = s[i]
  OBVIOUS
<1>2. \A i \in 1 .. Len(s) + 1 : i \in 1 .. Len(s) \/ i = Len(s) + 1
  BY <1>1
<1>3. \A i \in 1 .. Len(s) : i \in 1 .. Len(s) + 1 /\ i # Len(s) + 1
  BY <1>1
<1>4. Len(s) + 1 \in 1 .. Len(s) + 1
  BY <1>1
<1>5. a # << >>
  BY <1>1
<1> HIDE DEF a
<1>6. Elems(a) = Elems(s) \cup {e}
  BY Zenon, <1>1, <1>2, <1>3, <1>4 DEF Elems
<1>7. Inj(s) /\ e \notin Elems(s) => Inj(a)
  BY Zenon, <1>1, <1>2, <1>3, <1>4 DEF Elems, Inj
<1> QED BY Zenon, <1>1, <1>5, <1>6, <1>7 DEF a

\* QUEUE_REMOVE leaves a queue of the same kind.
LEMMA WithoutType ==
  ASSUME NEW S, NEW s \in Seq(S), NEW r
  PROVE  Without(s, r) \in Seq(S)
<1>1. CASE r \notin Elems(s)
  BY Zenon, <1>1 DEF Without
<1>2. CASE r \in Elems(s)
  <2>1. Len(s) \in Nat /\ DOMAIN s = 1 .. Len(s)
        /\ \A i \in 1 .. Len(s) : s[i] \in S
    OBVIOUS
  <2>2. PICK k \in 1 .. Len(s) : k = (CHOOSE i \in DOMAIN s : s[i] = r)
    BY Zenon, <1>2, <2>1 DEF Elems
  <2> DEFINE u == [j \in 1 .. Len(s) - 1 |-> IF j < k THEN s[j] ELSE s[j + 1]]
             n == Len(s) - 1
  <2>3. Without(s, r) = u
    BY Zenon, <1>2, <2>2 DEF Without
  <2>4. n \in Nat
    BY <2>1, <2>2
  <2>5. \A j \in 1 .. n : u[j] \in S
    BY <2>1, <2>4
  <2>6. u \in [1 .. n -> S]
    <3> HIDE DEF n
    <3> QED BY Zenon, <2>5 DEF n
  <2> HIDE DEF u, n
  <2> QED BY <2>3, <2>4, <2>6
<1> QED BY Zenon, <1>1, <1>2

\* QUEUE_REMOVE out of a queue without duplicates.
LEMMA WithoutFacts ==
  ASSUME NEW S, NEW s \in Seq(S), NEW r, Inj(s)
  PROVE  /\ Without(s, r) \in Seq(S)
         /\ Elems(Without(s, r)) = Elems(s) \ {r}
         /\ Inj(Without(s, r))
<1>1. CASE r \notin Elems(s)
  BY Zenon, <1>1 DEF Without
<1>2. CASE r \in Elems(s)
  <2>1. Len(s) \in Nat /\ DOMAIN s = 1 .. Len(s)
        /\ \A i \in 1 .. Len(s) : s[i] \in S
    OBVIOUS
  <2>2. PICK k \in 1 .. Len(s) : k = (CHOOSE i \in DOMAIN s : s[i] = r) /\ s[k] = r
    BY Zenon, <1>2, <2>1 DEF Elems
  <2> DEFINE u == [j \in 1 .. Len(s) - 1 |-> IF j < k THEN s[j] ELSE s[j + 1]]
             n == Len(s) - 1
  <2>3. Without(s, r) = u
    BY Zenon, <1>2, <2>2 DEF Without
  <2>4. n \in Nat
    BY <2>1, <2>2
  <2>5. \A j \in 1 .. n : u[j] \in S
    BY <2>1, <2>4
  <2>6. u \in Seq(S)
    <3> HIDE DEF n
    <3>1. u \in [1 .. n -> S]
      BY Zenon, <2>5 DEF n
    <3> HIDE DEF u
    <3> QED BY <3>1, <2>4
  <2>7. DOMAIN u = 1 .. n
    OBVIOUS
  <2>8. ASSUME NEW j \in 1 .. n
        PROVE  \E i \in 1 .. Len(s) : i # k /\ u[j] = s[i]
    <3>1. CASE j < k
      <4>1. j \in 1 .. Len(s) /\ j # k
        BY <3>1, <2>1
      <4>2. u[j] = s[j]
        BY Zenon, <3>1
      <4> QED BY Zenon, <4>1, <4>2
    <3>2. CASE ~(j < k)
      <4>1. j + 1 \in 1 .. Len(s) /\ j + 1 # k
        BY <3>2, <2>1
      <4>2. u[j] = s[j + 1]
        BY Zenon, <3>2
      <4> QED BY Zenon, <4>1, <4>2
    <3> QED BY Zenon, <3>1, <3>2
  <2>9. ASSUME NEW i \in 1 .. Len(s), i # k
        PROVE  \E j \in 1 .. n : u[j] = s[i]
    <3>1. CASE i < k
      <4>1. i \in 1 .. n /\ u[i] = s[i]
        BY <3>1, <2>1, <2>2
      <4> QED BY Zenon, <4>1
    <3>2. CASE ~(i < k)
      <4>1. i - 1 \in 1 .. n /\ u[i - 1] = s[i]
        BY <3>2, <2>1, <2>2, <2>9
      <4> QED BY Zenon, <4>1
    <3> QED BY Zenon, <3>1, <3>2
  <2>10. ASSUME NEW i \in 1 .. n, NEW j \in 1 .. n, u[i] = u[j]
         PROVE  i = j
    <3>1. CASE i < k /\ j < k
      <4>1. i \in 1 .. Len(s) /\ j \in 1 .. Len(s) /\ s[i] = s[j]
        BY <3>1, <2>1, <2>10
      <4> QED BY Zenon, <4>1, <2>1 DEF Inj
    <3>2. CASE i < k /\ ~(j < k)
      <4>1. i \in 1 .. Len(s) /\ j + 1 \in 1 .. Len(s) /\ s[i] = s[j + 1]
        BY <3>2, <2>1, <2>10
      <4>2. i = j + 1
        BY Zenon, <4>1, <2>1 DEF Inj
      <4> QED BY <4>2, <3>2, <2>1, <2>2
    <3>3. CASE ~(i < k) /\ j < k
      <4>1. j \in 1 .. Len(s) /\ i + 1 \in 1 .. Len(s) /\ s[j] = s[i + 1]
        BY <3>3, <2>1, <2>10
      <4>2. j = i + 1
        BY Zenon, <4>1, <2>1 DEF Inj
      <4> QED BY <4>2, <3>3, <2>1, <2>2
    <3>4. CASE ~(i < k) /\ ~(j < k)
      <4>1. i + 1 \in 1 .. Len(s) /\ j + 1 \in 1 .. Len(s) /\ s[i + 1] = s[j + 1]
        BY <3>4, <2>1, <2>10
      <4>2. i + 1 = j + 1
        BY Zenon, <4>1, <2>1 DEF Inj
      <4> QED BY <4>2
    <3> QED BY Zenon, <3>1, <3>2, <3>3, <3>4
  <2> HIDE DEF u, n
  <2>11. Elems(u) = Elems(s) \ {r}
    <3>1. \A i \in 1 .. Len(s) : i # k => s[i] # r
      BY Zenon, <2>1, <2>2 DEF Inj
    <3>2. ASSUME NEW e \in Elems(u)
          PROVE  e \in Elems(s) \ {r}
      <4>1. PICK j \in 1 .. n : e = u[j]
        BY Zenon, <3>2, <2>7 DEF Elems
      <4>2. PICK i \in 1 .. Len(s) : i # k /\ e = s[i]
        BY Zenon, <4>1, <2>8
      <4> QED BY Zenon, <4>2, <3>1, <2>1 DEF Elems
    <3>3. ASSUME NEW e \in Elems(s), e # r
          PROVE  e \in Elems(u)
      <4>1. PICK i \in 1 .. Len(s) : e = s[i] /\ i # k
        BY Zenon, <3>3, <2>1, <2>2 DEF Elems
      <4>2. PICK j \in 1 .. n : e = u[j]
        BY Zenon, <4>1, <2>9
      <4> QED BY Zenon, <4>2, <2>7 DEF Elems
    <3> QED BY Zenon, <3>2, <3>3
  <2>12. Inj(u)
    BY Zenon, <2>7, <2>10 DEF Inj
  <2> QED BY Zenon, <2>3, <2>6, <2>11, <2>12
<1> QED BY Zenon, <1>1, <1>2

-----------------------------------------------------------------------------
(* Types, and who holds what: the mutexes, the request of a worker and the *)
(* target of uv_cancel follow from where the threads are.                  *)

Held ==
  /\ \A w \in Workers : cur[w] # None <=> pc[w] \in {"work", "post"}
  /\ target # None <=> lpc \in {"cancel", "repost"}
  /\ mutex <=> lpc = "cancel"
  /\ \A w \in Workers : pc[w] \in {"send", "write"} <=> wq_mutex = w
  /\ lpc \in {"send", "write"} <=> wq_mutex = Loop
  /\ wd # << >> => in_done
  /\ lpc \in {"poll", "event", "split"} => ~in_done

CtlInv == TypeOK /\ Held

\* The names of the model are no workers and no requests.
LEMMA Names ==
  /\ None \notin Workers /\ None \notin Reqs
  /\ Loop \notin Workers /\ Loop \notin Reqs /\ None # Loop
<1>1. None # Loop
  BY Zenon DEF None, Loop
<1> QED BY Zenon, <1>1, NameAssumption

\* A signal wakes at most one worker, which then looks at the queue again.
LEMMA SignalFacts ==
  ASSUME NEW p \in [Workers -> WorkerPc], NEW q, Signalled(p, q)
  PROVE  /\ q \in [Workers -> WorkerPc]
         /\ \A w \in Workers : q[w] = p[w] \/ (p[w] = "wait" /\ q[w] = "take")
         /\ (\E w \in Workers : p[w] = "wait") => \E w \in Workers : q[w] = "take"
<1>1. CASE \E w \in Workers : p[w] = "wait"
  <2>1. PICK w \in Workers : p[w] = "wait" /\ q = [p EXCEPT ![w] = "take"]
    BY Zenon, <1>1 DEF Signalled
  <2>2. q \in [Workers -> WorkerPc] /\ q[w] = "take"
    BY Zenon, <2>1 DEF WorkerPc
  <2>3. \A v \in Workers : q[v] = IF v = w THEN "take" ELSE p[v]
    BY Zenon, <2>1
  <2> QED BY Zenon, <2>1, <2>2, <2>3
<1>2. CASE ~ \E w \in Workers : p[w] = "wait"
  BY Zenon, <1>2 DEF Signalled
<1> QED BY Zenon, <1>1, <1>2

\* What post does to the workers: it starts them, or wakes one.
LEMMA PostFacts ==
  ASSUME TypeOK, NEW q, PostReq(q)
  PROVE  /\ pc' \in [Workers -> WorkerPc]
         /\ \A w \in Workers : pc'[w] = pc[w]
                               \/ (pc[w] \in {"none", "wait"} /\ pc'[w] = "take")
         /\ (\E w \in Workers : pc[w] = "wait") =>
              \E w \in Workers : pc'[w] = "take"
         /\ (\A w \in Workers : pc[w] = "none") =>
              \A w \in Workers : pc'[w] = "take"
         /\ wq' = Append(wq, q)
<1>1. CASE \A w \in Workers : pc[w] = "none"
  BY <1>1 DEF PostReq, TypeOK, WorkerPc
<1>2. CASE ~ \A w \in Workers : pc[w] = "none"
  <2>1. Signalled(pc, pc') /\ wq' = Append(wq, q) /\ pc \in [Workers -> WorkerPc]
    BY Zenon, <1>2 DEF PostReq, TypeOK
  <2> QED BY <2>1, <1>2, SignalFacts
<1> QED BY Zenon, <1>1, <1>2

\* Types and holders are right initially.
LEMMA CtlInit == Init => CtlInv
<1> SUFFICES ASSUME Init PROVE CtlInv
  OBVIOUS
<1>1. TypeOK
  <2>1. wq \in Seq(Reqs \cup {Exit}) /\ loop_wq \in Seq(Reqs) /\ wd \in Seq(Reqs)
    BY DEF Init
  <2>2. done \in [Reqs -> Seq({"ok", "ECANCELED"})]
    BY DEF Init
  <2>3. pc \in [Workers -> WorkerPc] /\ cur \in [Workers -> Reqs \cup {None}]
        /\ work \in [Reqs -> {"unset", "work", "null", "cancelled"}]
    BY Zenon DEF Init, WorkerPc
  <2> QED BY Zenon, <2>1, <2>2, <2>3 DEF Init, TypeOK
<1>2. Held
  BY Zenon, Names DEF Init, Held
<1> QED BY Zenon, <1>1, <1>2 DEF CtlInv

\* The workers keep types and holders right.
LEMMA CtlWorkers ==
  ASSUME CtlInv, NEW w \in Workers, WorkerStep(w) \/ Spurious(w)
  PROVE  CtlInv'
<1> USE Names DEF CtlInv
<1>1. CASE Take(w)
  <2>1. CASE wq = << >> /\ pc' = [pc EXCEPT ![w] = "wait"]
              /\ UNCHANGED <<wq, cur, linked>>
    BY <2>1, <1>1 DEF Take, TypeOK, Held, WorkerPc
  <2>2. CASE wq # << >> /\ ExitFirst /\ PassOn([pc EXCEPT ![w] = "gone"], pc')
              /\ UNCHANGED <<wq, cur, linked>>
    <3> DEFINE p == [pc EXCEPT ![w] = "gone"]
    <3>1. p \in [Workers -> WorkerPc] /\ p[w] = "gone"
          /\ \A v \in Workers : v # w => p[v] = pc[v]
      BY Zenon DEF TypeOK, WorkerPc
    <3>2. Signalled(p, pc')
      BY Zenon, <2>2 DEF PassOn
    <3> HIDE DEF p
    <3>3. /\ pc' \in [Workers -> WorkerPc]
          /\ \A v \in Workers : pc'[v] = p[v] \/ (p[v] = "wait" /\ pc'[v] = "take")
      BY <3>1, <3>2, SignalFacts
    <3>4. pc[w] = "take"
      BY Zenon, <1>1 DEF Take
    <3>5. UNCHANGED <<wq, mutex, cur, work, linked, loop_wq, wq_mutex, pending,
                      eventfd, lpc, target, in_done, wd, active, ran, done>>
      BY Zenon, <1>1, <2>2 DEF Take
    <3>6. TypeOK'
      BY <3>3, <3>5 DEF TypeOK
    <3>7. \A v \in Workers :
            /\ pc'[v] \in {"work", "post"} <=> pc[v] \in {"work", "post"}
            /\ pc'[v] \in {"send", "write"} <=> pc[v] \in {"send", "write"}
      BY Zenon, <3>1, <3>3, <3>4
    <3> QED BY Zenon, <3>5, <3>6, <3>7 DEF Held
  <2>3. CASE /\ wq # << >> /\ ~ExitFirst
             /\ wq' = Tail(wq)
             /\ cur' = [cur EXCEPT ![w] = Head(wq)]
             /\ linked' = Unlink(Head(wq))
             /\ pc' = [pc EXCEPT ![w] = "work"]
    <3>1. Tail(wq) \in Seq(Reqs \cup {Exit}) /\ Head(wq) \in Reqs
      BY <2>3, TailFacts DEF TypeOK, ExitFirst
    <3>2. TypeOK'
      BY <3>1, <2>3, <1>1 DEF Take, TypeOK, WorkerPc, Unlink
    <3>3. Held'
      BY <3>1, <2>3, <1>1 DEF Take, TypeOK, Held
    <3> QED BY Zenon, <3>2, <3>3
  <2> QED BY Zenon, <1>1, <2>1, <2>2, <2>3 DEF Take
<1>2. CASE Work(w)
  BY <1>2 DEF Work, TypeOK, Held, WorkerPc
<1>3. CASE Post(w)
  <2>1. cur[w] \in Reqs
    BY <1>3 DEF Post, TypeOK, Held
  <2>2. Append(loop_wq, cur[w]) \in Seq(Reqs)
    BY <2>1 DEF TypeOK
  <2>3. TypeOK'
    BY <2>1, <2>2, <1>3 DEF Post, TypeOK, WorkerPc, Worked
  <2>4. Held'
    BY <2>1, <1>3 DEF Post, TypeOK, Held
  <2> QED BY Zenon, <2>3, <2>4
<1>4. CASE Send(w)
  <2>1. pending = 0 \/ pending = 1
    BY Zenon DEF TypeOK
  <2>2. CASE pending = 0
    <3>1. pending' = 1 /\ pc' = [pc EXCEPT ![w] = "write"] /\ wq_mutex' = wq_mutex
      BY Zenon, <2>2, <1>4 DEF Send, uv_async_send
    <3>2. pc[w] = "send" /\ UNCHANGED <<wq, mutex, cur, work, linked, loop_wq,
            eventfd, lpc, target, in_done, wd, active, ran, done>>
      BY Zenon, <1>4 DEF Send
    <3>3. TypeOK'
      BY <3>1, <3>2 DEF TypeOK, WorkerPc
    <3>4. Held'
      BY Zenon, <3>1, <3>2 DEF TypeOK, Held
    <3> QED BY Zenon, <3>3, <3>4
  <2>3. CASE pending = 1
    <3>1. pending' = pending /\ pc' = [pc EXCEPT ![w] = "take"] /\ wq_mutex' = None
      BY <2>3, <1>4 DEF Send, uv_async_send
    <3>2. pc[w] = "send" /\ UNCHANGED <<wq, mutex, cur, work, linked, loop_wq,
            eventfd, lpc, target, in_done, wd, active, ran, done>>
      BY Zenon, <1>4 DEF Send
    <3>3. TypeOK'
      BY <3>1, <3>2 DEF TypeOK, WorkerPc
    <3>4. Held'
      BY <3>1, <3>2 DEF TypeOK, Held
    <3> QED BY Zenon, <3>3, <3>4
  <2> QED BY Zenon, <2>1, <2>2, <2>3
<1>5. CASE Write(w)
  BY Zenon, <1>5 DEF Write, TypeOK, Held, WorkerPc
<1>6. CASE Spurious(w)
  BY <1>6 DEF Spurious, TypeOK, Held, WorkerPc
<1> QED BY Zenon, <1>1, <1>2, <1>3, <1>4, <1>5, <1>6 DEF WorkerStep

\* The calls of the script keep types and holders right.
LEMMA CtlCalls ==
  ASSUME CtlInv,
         (\E r \in Reqs : uv_queue_work(r) \/ uv_cancel(r)) \/ CallStep \/ cleanup
  PROVE  CtlInv'
<1> USE Names DEF CtlInv
<1>1. ASSUME NEW r \in Reqs, uv_queue_work(r)
      PROVE  CtlInv'
  <2>1. PostReq(r) /\ UNCHANGED <<mutex, cur, loop_wq, wq_mutex, pending, eventfd,
                                  lpc, target, in_done, wd, ran, done>>
        /\ active' = active \cup {r} /\ linked' = linked \cup {r}
        /\ work' = [work EXCEPT ![r] = "work"]
    BY Zenon, <1>1 DEF uv_queue_work
  <2>2. /\ pc' \in [Workers -> WorkerPc] /\ wq' = Append(wq, r)
        /\ \A w \in Workers : pc'[w] = pc[w]
             \/ (pc[w] \in {"none", "wait"} /\ pc'[w] = "take")
    BY Zenon, <2>1, PostFacts
  <2>3. wq' \in Seq(Reqs \cup {Exit})
    BY <2>2 DEF TypeOK
  <2>4. TypeOK'
    BY <2>1, <2>2, <2>3 DEF TypeOK
  <2>5. \A v \in Workers :
          /\ pc'[v] \in {"work", "post"} <=> pc[v] \in {"work", "post"}
          /\ pc'[v] \in {"send", "write"} <=> pc[v] \in {"send", "write"}
    BY Zenon, <2>2
  <2> QED BY Zenon, <2>1, <2>4, <2>5 DEF Held
<1>2. ASSUME NEW r \in Reqs, uv_cancel(r)
      PROVE  CtlInv'
  BY Zenon, <1>2 DEF uv_cancel, TypeOK, Held
<1>3. CASE uv__work_cancel
  <2>1. target \in Reqs
    BY Zenon, <1>3 DEF uv__work_cancel, TypeOK, Held
  <2>2. /\ Without(wq, target) \in Seq(Reqs \cup {Exit})
        /\ Without(loop_wq, target) \in Seq(Reqs)
        /\ Without(wd, target) \in Seq(Reqs)
    BY Zenon, WithoutType DEF TypeOK
  <2>3. wd = << >> => Without(wd, target) = << >>
    BY DEF Without, Elems
  <2>4. CASE Cancellable(target)
    <3>1. TypeOK'
      BY Zenon, <1>3, <2>1, <2>2, <2>4 DEF uv__work_cancel, TypeOK
    <3>2. Held'
      BY Zenon, <1>3, <2>1, <2>3, <2>4 DEF uv__work_cancel, TypeOK, Held
    <3> QED BY Zenon, <3>1, <3>2
  <2>5. CASE ~Cancellable(target)
    BY Zenon, <1>3, <2>5 DEF uv__work_cancel, TypeOK, Held
  <2> QED BY Zenon, <2>4, <2>5
<1>4. CASE Repost
  <2>1. target \in Reqs
    BY Zenon, <1>4 DEF Repost, TypeOK, Held
  <2>2. Append(loop_wq, target) \in Seq(Reqs)
    BY <2>1 DEF TypeOK
  <2>3. TypeOK'
    BY Zenon, <2>2, <1>4 DEF Repost, TypeOK
  <2>4. Held'
    BY Zenon, <1>4 DEF Repost, TypeOK, Held
  <2> QED BY Zenon, <2>3, <2>4
<1>5. CASE LoopSend
  <2>1. \/ pending' = 1 /\ lpc' = "write" /\ wq_mutex' = wq_mutex
        \/ pending' = pending /\ lpc' = "run" /\ wq_mutex' = None
    BY Zenon, <1>5 DEF LoopSend, uv_async_send
  <2>2. lpc = "send" /\ UNCHANGED <<wq, mutex, pc, cur, work, linked, loop_wq,
          eventfd, target, in_done, wd, active, ran, done>>
    BY Zenon, <1>5 DEF LoopSend
  <2>3. TypeOK'
    BY Zenon, <2>1, <2>2 DEF TypeOK
  <2>4. Held'
    BY <2>1, <2>2 DEF TypeOK, Held
  <2> QED BY Zenon, <2>3, <2>4
<1>6. CASE LoopWrite
  BY <1>6 DEF LoopWrite, TypeOK, Held
<1>7. CASE cleanup
  <2>1. lpc = "run" /\ UNCHANGED <<mutex, cur, work, linked, loop_wq, wq_mutex,
          pending, eventfd, target, in_done, wd, active, ran, done>>
    BY Zenon, <1>7 DEF cleanup
  <2>2. CASE lpc' = "exited" /\ UNCHANGED <<wq, pc>>
    BY Zenon, <2>1, <2>2 DEF TypeOK, Held
  <2>3. CASE lpc' = "join" /\ PostReq(Exit)
    <3>1. /\ pc' \in [Workers -> WorkerPc] /\ wq' = Append(wq, Exit)
          /\ \A w \in Workers : pc'[w] = pc[w]
               \/ (pc[w] \in {"none", "wait"} /\ pc'[w] = "take")
      BY Zenon, <2>3, PostFacts
    <3>2. wq' \in Seq(Reqs \cup {Exit})
      BY <3>1 DEF TypeOK
    <3>3. TypeOK'
      BY Zenon, <2>1, <2>3, <3>1, <3>2 DEF TypeOK
    <3>4. \A v \in Workers :
            /\ pc'[v] \in {"work", "post"} <=> pc[v] \in {"work", "post"}
            /\ pc'[v] \in {"send", "write"} <=> pc[v] \in {"send", "write"}
      BY Zenon, <3>1
    <3> QED BY Zenon, <2>1, <2>3, <3>3, <3>4 DEF Held
  <2> QED BY Zenon, <1>7, <2>2, <2>3 DEF cleanup, PostExit
<1> QED BY Zenon, <1>1, <1>2, <1>3, <1>4, <1>5, <1>6, <1>7 DEF CallStep

\* The loop keeps types and holders right.
LEMMA CtlLoop ==
  ASSUME CtlInv,
         \/ Poll \/ Callback \/ OtherSend \/ uv__async_io \/ uv__async_event
         \/ Split \/ NextDone \/ EndDone \/ Join \/ Ended \/ UNCHANGED vars
  PROVE  CtlInv'
<1> USE Names DEF CtlInv
<1>1. CASE Poll
  BY Zenon, <1>1 DEF Poll, TypeOK, Held
<1>2. CASE Callback
  BY Zenon, <1>2 DEF Callback, TypeOK, Held
<1>3. CASE OtherSend
  BY Zenon, <1>3 DEF OtherSend, TypeOK, Held
<1>4. CASE uv__async_io
  BY Zenon, <1>4 DEF uv__async_io, TypeOK, Held
<1>5. CASE uv__async_event
  BY Zenon, <1>5 DEF uv__async_event, TypeOK, Held
<1>6. CASE Split
  BY <1>6 DEF Split, TypeOK, Held
<1>7. CASE NextDone
  <2>1. Tail(wd) \in Seq(Reqs) /\ Head(wd) \in Reqs
    BY Zenon, <1>7, TailFacts DEF NextDone, TypeOK
  <2>2. Append(done[Head(wd)], Status(Head(wd))) \in Seq({"ok", "ECANCELED"})
    BY <2>1 DEF TypeOK, Status
  <2>3. TypeOK'
    BY Zenon, <2>1, <2>2, <1>7 DEF NextDone, TypeOK
  <2>4. Held'
    BY Zenon, <1>7 DEF NextDone, Held
  <2> QED BY Zenon, <2>3, <2>4
<1>8. CASE EndDone
  BY Zenon, <1>8 DEF EndDone, TypeOK, Held
<1>9. CASE Join
  BY Zenon, <1>9 DEF Join, TypeOK, Held
<1>10. CASE Ended \/ UNCHANGED vars
  BY <1>10 DEF Ended, vars, TypeOK, Held
<1> QED BY Zenon, <1>1, <1>2, <1>3, <1>4, <1>5, <1>6, <1>7, <1>8, <1>9, <1>10

\* Every step keeps types and holders right.
LEMMA CtlNext == CtlInv /\ [Next]_vars => CtlInv'
  BY Zenon, CtlWorkers, CtlCalls, CtlLoop DEF Next

\* Type correctness of the thread pool.
THEOREM PoolTypes == Spec => []TypeOK
<1>1. Spec => []CtlInv
  BY CtlInit, CtlNext, PTL DEF Spec
<1>2. CtlInv => TypeOK
  BY Zenon DEF CtlInv
<1> QED BY <1>1, <1>2, PTL

-----------------------------------------------------------------------------
(* Where requests are.  A request in wq is linked and not run, one a       *)
(* worker holds is not linked, one on its way back has its outcome in      *)
(* w->work; hence the places are disjoint.                                 *)

Hand == IF lpc = "repost" THEN {target} ELSE {}

QueueInv ==
  /\ Inj(wq)
  /\ \A r \in Elems(wq) \ {Exit} :
       r \in active /\ work[r] = "work" /\ r \in linked /\ r \notin ran

WorkerInv ==
  /\ \A w, v \in Workers : cur[w] = cur[v] /\ cur[w] # None => w = v
  /\ \A w \in Workers : cur[w] # None =>
       /\ cur[w] \in active /\ work[cur[w]] = "work" /\ cur[w] \notin linked
       /\ cur[w] \in ran <=> pc[w] = "post"

BackInv ==
  /\ Inj(loop_wq) /\ Inj(wd)
  /\ Elems(loop_wq) \cap Elems(wd) = {}
  /\ Hand \cap (Elems(loop_wq) \cup Elems(wd)) = {}
  /\ \A r \in Elems(loop_wq) \cup Elems(wd) \cup Hand :
       /\ r \in active /\ work[r] \in {"null", "cancelled"}
       /\ r \in ran <=> work[r] = "null"

ActiveInv ==
  /\ \A r \in active :
       /\ done[r] = << >> /\ work[r] # "unset"
       /\ \/ r \in Elems(wq) \cup Elems(loop_wq) \cup Elems(wd) \cup Hand
          \/ \E w \in Workers : cur[w] = r
  /\ \A r \in Reqs \ active :
       \/ work[r] = "unset" /\ done[r] = << >> /\ r \notin ran
       \/ /\ done[r] = <<Status(r)>> /\ work[r] \in {"null", "cancelled"}
          /\ r \in ran <=> work[r] = "null"
  /\ \A r \in linked : work[r] = "work" => r \in Elems(wq)

PlaceInv == QueueInv /\ WorkerInv /\ BackInv /\ ActiveInv

\* Nothing is anywhere initially.
LEMMA PlaceInit == Init => PlaceInv
<1> SUFFICES ASSUME Init PROVE PlaceInv
  OBVIOUS
<1>1. Inj(<< >>) /\ Elems(<< >>) = {}
  BY DEF Inj, Elems
<1>2. Hand = {}
  BY Zenon DEF Init, Hand
<1>3. QueueInv /\ WorkerInv /\ BackInv
  BY Zenon, <1>1, <1>2 DEF Init, QueueInv, WorkerInv, BackInv
<1>4. ActiveInv
  BY Zenon, <1>1, <1>2 DEF Init, ActiveInv
<1> QED BY Zenon, <1>3, <1>4 DEF PlaceInv

\* A step that moves no request keeps every request in its place.
LEMMA PlaceStays ==
  ASSUME PlaceInv,
         UNCHANGED <<wq, loop_wq, wd, cur, work, linked, active, ran, done>>,
         \A w \in Workers : pc'[w] = "post" <=> pc[w] = "post",
         Hand' = Hand
  PROVE  PlaceInv'
<1>1. Elems(wq)' = Elems(wq) /\ Elems(loop_wq)' = Elems(loop_wq)
      /\ Elems(wd)' = Elems(wd) /\ Inj(wq)' = Inj(wq)
      /\ Inj(loop_wq)' = Inj(loop_wq) /\ Inj(wd)' = Inj(wd)
      /\ \A r \in Reqs : Status(r)' = Status(r)
  BY Zenon DEF Elems, Inj, Status
<1>2. QueueInv' /\ BackInv'
  BY Zenon, <1>1 DEF PlaceInv, QueueInv, BackInv
<1>3. WorkerInv'
  BY Zenon DEF PlaceInv, WorkerInv
<1>4. ActiveInv'
  BY Zenon, <1>1 DEF PlaceInv, ActiveInv
<1> QED BY Zenon, <1>2, <1>3, <1>4 DEF PlaceInv

\* A worker takes the first request of the queue.
LEMMA PlaceTake ==
  ASSUME CtlInv, PlaceInv, NEW w \in Workers, pc[w] = "take",
         wq # << >>, Head(wq) # Exit,
         wq' = Tail(wq), cur' = [cur EXCEPT ![w] = Head(wq)],
         linked' = linked \ {Head(wq)}, pc' = [pc EXCEPT ![w] = "work"],
         UNCHANGED <<loop_wq, wd, work, active, ran, done, lpc, target>>
  PROVE  PlaceInv'
<1> DEFINE h == Head(wq)
<1>1. /\ h \in Reqs /\ h \in Elems(wq) /\ Elems(wq) = {h} \cup Elems(wq')
      /\ Inj(wq') /\ h \notin Elems(wq')
  BY Zenon, TailFacts DEF CtlInv, TypeOK, PlaceInv, QueueInv
<1>2. h \in active /\ work[h] = "work" /\ h \in linked /\ h \notin ran
  BY Zenon, <1>1 DEF PlaceInv, QueueInv
<1>3. cur[w] = None /\ cur'[w] = h /\ pc'[w] = "work"
      /\ \A v \in Workers : v # w => cur'[v] = cur[v] /\ pc'[v] = pc[v]
  BY Zenon DEF CtlInv, TypeOK, Held
<1>4. Hand' = Hand /\ \A r \in Reqs : Status(r)' = Status(r)
  BY Zenon DEF Hand, Status
<1> HIDE DEF h
<1>5. linked' = linked \ {h}
  BY Zenon DEF h
<1>6. QueueInv'
  BY Zenon, <1>1, <1>5 DEF PlaceInv, QueueInv
<1>7. \A v \in Workers : cur[v] # h
  BY <1>1, <1>2, Names DEF PlaceInv, WorkerInv
<1>8. WorkerInv'
  BY <1>2, <1>3, <1>5, <1>7 DEF PlaceInv, WorkerInv
<1>9. BackInv'
  BY Zenon, <1>4 DEF PlaceInv, BackInv
<1>10. ActiveInv'
  <2>1. \A r \in active : r \in Elems(wq) => r \in Elems(wq') \/ cur'[w] = r
    BY Zenon, <1>1, <1>3
  <2>2. \A r \in Reqs, v \in Workers : cur[v] = r => cur'[v] = r
    BY Zenon, <1>3, Names
  <2>3. active \subseteq Reqs
    BY Zenon DEF CtlInv, TypeOK
  <2>4. \A r \in linked' : work[r] = "work" => r \in Elems(wq')
    BY Zenon, <1>1, <1>5 DEF PlaceInv, ActiveInv
  <2>5. \A r \in active :
          \/ r \in Elems(wq') \cup Elems(loop_wq) \cup Elems(wd) \cup Hand
          \/ \E v \in Workers : cur'[v] = r
    BY <2>1, <2>2, <2>3, SMTT(30) DEF PlaceInv, ActiveInv
  <2> QED BY <1>4, <2>4, <2>5 DEF PlaceInv, ActiveInv
<1> QED BY Zenon, <1>6, <1>8, <1>9, <1>10 DEF PlaceInv

\* A worker runs its request.
LEMMA PlaceWork ==
  ASSUME CtlInv, PlaceInv, NEW w \in Workers, Work(w)
  PROVE  PlaceInv'
<1> DEFINE h == cur[w]
<1>1. /\ pc[w] = "work" /\ h \in Reqs /\ ran' = ran \cup {h}
      /\ pc'[w] = "post" /\ \A v \in Workers : v # w => pc'[v] = pc[v]
      /\ UNCHANGED <<wq, loop_wq, wd, cur, work, linked, active, done, lpc, target>>
  BY Zenon DEF Work, CtlInv, TypeOK, Held
<1>2. h \in active /\ work[h] = "work" /\ h \notin linked
      /\ \A v \in Workers : cur[v] = h => v = w
  BY Zenon, <1>1, Names DEF PlaceInv, WorkerInv
<1>3. Hand' = Hand /\ Elems(wq)' = Elems(wq) /\ Elems(loop_wq)' = Elems(loop_wq)
      /\ Elems(wd)' = Elems(wd) /\ Inj(wq)' = Inj(wq)
      /\ Inj(loop_wq)' = Inj(loop_wq) /\ Inj(wd)' = Inj(wd)
      /\ \A r \in Reqs : Status(r)' = Status(r)
  BY Zenon, <1>1 DEF Hand, Elems, Inj, Status
<1> HIDE DEF h
<1>4. h # Exit
  BY Zenon, <1>1, PoolAssumption
<1>5. QueueInv'
  BY Zenon, <1>1, <1>2, <1>3 DEF PlaceInv, QueueInv
<1>6. WorkerInv'
  <2>1. cur[w] = h
    BY Zenon DEF h
  <2> QED BY <1>1, <1>2, <2>1 DEF PlaceInv, WorkerInv
<1>7. BackInv'
  BY Zenon, <1>1, <1>2, <1>3 DEF PlaceInv, BackInv
<1>8. ActiveInv'
  BY <1>1, <1>2, <1>3 DEF PlaceInv, ActiveInv
<1> QED BY Zenon, <1>5, <1>6, <1>7, <1>8 DEF PlaceInv

\* A worker hands its request back to the loop.
LEMMA PlacePost ==
  ASSUME CtlInv, PlaceInv, NEW w \in Workers, Post(w)
  PROVE  PlaceInv'
<1> DEFINE h == cur[w]
<1>1. /\ pc[w] = "post" /\ h \in Reqs /\ cur'[w] = None /\ pc'[w] = "send"
      /\ \A v \in Workers : v # w => pc'[v] = pc[v] /\ cur'[v] = cur[v]
      /\ work'[h] = "null" /\ \A r \in Reqs : r # h => work'[r] = work[r]
      /\ linked' = linked \cup {h} /\ loop_wq' = Append(loop_wq, h)
      /\ UNCHANGED <<wq, wd, active, ran, done, lpc, target>>
  BY DEF Post, Worked, CtlInv, TypeOK, Held
<1>2. h \in active /\ work[h] = "work" /\ h \notin linked /\ h \in ran
      /\ \A v \in Workers : cur[v] = h => v = w
  BY Zenon, <1>1, Names DEF PlaceInv, WorkerInv
<1>3. active \subseteq Reqs /\ linked \subseteq Reqs /\ loop_wq \in Seq(Reqs)
  BY Zenon DEF CtlInv, TypeOK
<1>4. h \notin Elems(wq) /\ h \notin Elems(loop_wq) /\ h \notin Elems(wd)
      /\ h \notin Hand
  BY Zenon, <1>1, <1>2, PoolAssumption DEF PlaceInv, QueueInv, BackInv
<1>5. Elems(loop_wq') = Elems(loop_wq) \cup {h} /\ Inj(loop_wq')
  BY <1>1, <1>3, <1>4, AppendFacts DEF PlaceInv, BackInv
<1>6. Hand' = Hand /\ Elems(wq)' = Elems(wq) /\ Elems(wd)' = Elems(wd)
      /\ Inj(wq)' = Inj(wq) /\ Inj(wd)' = Inj(wd)
      /\ \A r \in Reqs : r # h => Status(r)' = Status(r)
  BY <1>1 DEF Hand, Elems, Inj, Status
<1>7. Elems(wq) \ {Exit} \subseteq Reqs /\ Elems(loop_wq) \subseteq Reqs
      /\ Elems(wd) \subseteq Reqs /\ Hand \subseteq Reqs
  BY Zenon, <1>3 DEF PlaceInv, QueueInv, BackInv
<1>8. \A v \in Workers : cur'[v] # None => v # w /\ cur[v] = cur'[v] /\ cur[v] # h
                                           /\ cur[v] \in Reqs
  BY <1>1, <1>2 DEF CtlInv, TypeOK
<1>9. cur[w] = h
  OBVIOUS
<1> HIDE DEF h
<1>10. QueueInv'
  BY Zenon, <1>1, <1>4, <1>6, <1>7 DEF PlaceInv, QueueInv
<1>11. WorkerInv'
  <2>1. \A v, u \in Workers : cur'[v] = cur'[u] /\ cur'[v] # None => v = u
    BY <1>8, SMTT(30) DEF PlaceInv, WorkerInv
  <2>2. SUFFICES ASSUME NEW v \in Workers, cur'[v] # None
                 PROVE  /\ cur'[v] \in active' /\ work'[cur'[v]] = "work"
                        /\ cur'[v] \notin linked'
                        /\ cur'[v] \in ran' <=> pc'[v] = "post"
    BY Zenon, <2>1 DEF WorkerInv
  <2>3. v # w /\ cur'[v] = cur[v] /\ cur[v] # h /\ cur[v] \in Reqs /\ cur[v] # None
    BY Zenon, <1>8, <2>2
  <2>4. /\ cur[v] \in active /\ work[cur[v]] = "work" /\ cur[v] \notin linked
        /\ cur[v] \in ran <=> pc[v] = "post"
    BY Zenon, <2>3 DEF PlaceInv, WorkerInv
  <2>5. work'[cur[v]] = work[cur[v]] /\ pc'[v] = pc[v]
    BY Zenon, <1>1, <2>3
  <2> QED BY Zenon, <1>1, <2>3, <2>4, <2>5
<1>12. BackInv'
  BY <1>1, <1>2, <1>4, <1>5, <1>6, <1>7, SMTT(30) DEF PlaceInv, BackInv
<1>13. ActiveInv'
  <2>1. \A r \in active' :
          /\ done'[r] = << >> /\ work'[r] # "unset"
          /\ \/ r \in Elems(wq') \cup Elems(loop_wq') \cup Elems(wd') \cup Hand'
             \/ \E v \in Workers : cur'[v] = r
    <3>1. SUFFICES ASSUME NEW r \in active
                   PROVE  /\ done[r] = << >> /\ work'[r] # "unset"
                          /\ \/ r \in Elems(wq) \cup Elems(loop_wq') \cup Elems(wd) \cup Hand
                             \/ \E v \in Workers : cur'[v] = r
      BY Zenon, <1>1, <1>6
    <3>2. CASE r = h
      BY Zenon, <3>2, <1>1, <1>5 DEF PlaceInv, ActiveInv
    <3>3. CASE r # h
      BY <3>3, <1>1, <1>3, <1>5, <1>9, SMTT(30) DEF PlaceInv, ActiveInv
    <3> QED BY Zenon, <3>2, <3>3
  <2>2. \A r \in Reqs \ active : r # h
    BY Zenon, <1>2
  <2> QED BY <1>1, <1>3, <1>6, <2>1, <2>2, SMTT(30) DEF PlaceInv, ActiveInv
<1> QED BY Zenon, <1>10, <1>11, <1>12, <1>13 DEF PlaceInv

\* A new request is queued.
LEMMA PlaceQueue ==
  ASSUME CtlInv, PlaceInv, NEW h \in Reqs, uv_queue_work(h)
  PROVE  PlaceInv'
<1>1. /\ work[h] = "unset" /\ PostReq(h) /\ active' = active \cup {h}
      /\ work'[h] = "work" /\ \A r \in Reqs : r # h => work'[r] = work[r]
      /\ linked' = linked \cup {h}
      /\ UNCHANGED <<loop_wq, cur, wd, ran, done, lpc, target>>
  BY Zenon DEF uv_queue_work, CtlInv, TypeOK
<1>2. /\ wq' = Append(wq, h)
      /\ \A w \in Workers : pc'[w] = "post" <=> pc[w] = "post"
  BY Zenon, <1>1, PostFacts DEF CtlInv
<1>3. active \subseteq Reqs /\ linked \subseteq Reqs /\ wq \in Seq(Reqs \cup {Exit})
      /\ \A w \in Workers : cur[w] \in Reqs \cup {None}
  BY Zenon DEF CtlInv, TypeOK
<1>4. h \notin active /\ h \notin ran /\ done[h] = << >>
  <2>1. h \notin active
    BY Zenon, <1>1 DEF PlaceInv, ActiveInv
  <2> QED BY Zenon, <2>1, <1>1 DEF PlaceInv, ActiveInv
<1>5. h \notin Elems(wq) /\ h \notin Elems(loop_wq) /\ h \notin Elems(wd)
      /\ h \notin Hand /\ \A w \in Workers : cur[w] # h
  BY <1>1, <1>4, Names, PoolAssumption, SMTT(30) DEF PlaceInv, QueueInv, BackInv, WorkerInv
<1>6. Elems(wq') = Elems(wq) \cup {h} /\ Inj(wq')
  BY <1>2, <1>3, <1>5, AppendFacts DEF PlaceInv, QueueInv
<1>7. Hand' = Hand /\ Elems(loop_wq)' = Elems(loop_wq) /\ Elems(wd)' = Elems(wd)
      /\ Inj(loop_wq)' = Inj(loop_wq) /\ Inj(wd)' = Inj(wd)
      /\ \A r \in Reqs : r # h => Status(r)' = Status(r)
  BY Zenon, <1>1 DEF Hand, Elems, Inj, Status
<1>8. Elems(wq) \ {Exit} \subseteq Reqs /\ Elems(loop_wq) \subseteq Reqs
      /\ Elems(wd) \subseteq Reqs /\ Hand \subseteq Reqs
  BY Zenon, <1>3 DEF PlaceInv, QueueInv, BackInv
<1>9. QueueInv'
  BY Zenon, <1>1, <1>4, <1>5, <1>6, <1>8 DEF PlaceInv, QueueInv
<1>10. WorkerInv'
  BY <1>1, <1>2, <1>3, <1>5 DEF PlaceInv, WorkerInv
<1>11. BackInv'
  BY Zenon, <1>1, <1>5, <1>7, <1>8 DEF PlaceInv, BackInv
<1>12. ActiveInv'
  <2>1. \A r \in active' :
          /\ done'[r] = << >> /\ work'[r] # "unset"
          /\ \/ r \in Elems(wq') \cup Elems(loop_wq') \cup Elems(wd') \cup Hand'
             \/ \E v \in Workers : cur'[v] = r
    BY <1>1, <1>3, <1>4, <1>6, <1>7, SMTT(30) DEF PlaceInv, ActiveInv
  <2>2. \A r \in linked' : work'[r] = "work" => r \in Elems(wq')
    BY Zenon, <1>1, <1>3, <1>6 DEF PlaceInv, ActiveInv
  <2>3. \A r \in Reqs \ active' :
          \/ work'[r] = "unset" /\ done'[r] = << >> /\ r \notin ran'
          \/ /\ done'[r] = <<Status(r)'>> /\ work'[r] \in {"null", "cancelled"}
             /\ r \in ran' <=> work'[r] = "null"
    BY <1>1, <1>7 DEF PlaceInv, ActiveInv
  <2> QED BY Zenon, <2>1, <2>2, <2>3 DEF ActiveInv
<1> QED BY Zenon, <1>9, <1>10, <1>11, <1>12 DEF PlaceInv

\* uv_cancel is not called for a request that was cancelled before.
TargetInv == lpc = "cancel" => work[target] \in {"work", "null"}

\* While uv_cancel waits for wq_mutex its request can only be finished.
LEMMA TargetNext ==
  ASSUME CtlInv, PlaceInv, TargetInv, ~Recancel, [Next]_vars
  PROVE  TargetInv'
<1>1. CASE lpc = "cancel" /\ lpc' = "cancel"
  <2>1. target' = target \/ \E r \in Reqs : uv_cancel(r)
    BY Zenon, <1>1 DEF Next, WorkerStep, CallStep, vars, Take, Spurious, Work, Post, Send,
       Write, uv_queue_work, uv__work_cancel, Repost, LoopSend, LoopWrite, Poll,
       Callback, OtherSend, uv__async_io, uv__async_event, Split, NextDone, EndDone,
       cleanup, Join, Ended
  <2>2. \/ work' = work
        \/ \E w \in Workers : Post(w)
        \/ \E r \in Reqs : uv_queue_work(r)
        \/ uv__work_cancel
    BY Zenon DEF Next, WorkerStep, CallStep, vars, Take, Spurious, Work, Send,
       Write, uv_cancel, Repost, LoopSend, LoopWrite, Poll,
       Callback, OtherSend, uv__async_io, uv__async_event, Split, NextDone, EndDone,
       cleanup, Join, Ended
  <2>3. work' = work \/ \E w \in Workers : Post(w)
    BY Zenon, <2>2, <1>1 DEF uv_queue_work, uv__work_cancel
  <2>4. ASSUME NEW w \in Workers, Post(w)
        PROVE  work'[target] \in {"work", "null"}
    BY Zenon, <2>4, <1>1 DEF TargetInv, Post, Worked, CtlInv, TypeOK, Held
  <2>5. target' = target
    BY Zenon, <2>1, <1>1 DEF uv_cancel
  <2> QED BY Zenon, <2>3, <2>4, <2>5, <1>1 DEF TargetInv
<1>2. CASE lpc # "cancel" /\ lpc' = "cancel"
  <2>1. \/ \E r \in Reqs : uv_cancel(r)
        \/ \E w \in Workers : Send(w)
        \/ LoopSend
    BY Zenon, <1>2 DEF Next, WorkerStep, CallStep, vars, Take, Spurious, Work, Post,
       Write, uv_queue_work, uv__work_cancel, Repost, LoopWrite, Poll,
       Callback, OtherSend, uv__async_io, uv__async_event, Split, NextDone, EndDone,
       cleanup, Join, Ended
  <2>2. ASSUME NEW r \in Reqs, uv_cancel(r)
        PROVE  TargetInv'
    BY Zenon, <2>2 DEF uv_cancel, TargetInv, CtlInv, TypeOK
  <2>3. ~ \E w \in Workers : Send(w)
    BY Zenon, <1>2 DEF Send
  <2>4. ~ LoopSend
    BY Zenon, <1>2 DEF LoopSend, uv_async_send
  <2> QED BY Zenon, <2>1, <2>2, <2>3, <2>4
<1>3. CASE lpc' # "cancel"
  BY Zenon, <1>3 DEF TargetInv
<1> QED BY Zenon, <1>1, <1>2, <1>3

\* uv_cancel takes a request out of the queue, or nothing.
LEMMA PlaceCancel ==
  ASSUME CtlInv, PlaceInv, TargetInv, uv__work_cancel
  PROVE  PlaceInv'
<1>1. lpc = "cancel" /\ target \in Reqs /\ work[target] \in {"work", "null"}
      /\ Hand = {}
      /\ UNCHANGED <<pc, cur, linked, active, ran, done>>
  BY Zenon DEF uv__work_cancel, CtlInv, TypeOK, Held, TargetInv, Hand
<1>2. CASE ~Cancellable(target)
  <2>1. UNCHANGED <<wq, loop_wq, wd, work>> /\ lpc' = "run"
    BY Zenon, <1>2 DEF uv__work_cancel
  <2>2. Hand' = Hand
    BY Zenon, <1>1, <2>1 DEF Hand
  <2> QED BY Zenon, <1>1, <2>1, <2>2, PlaceStays
<1>3. CASE Cancellable(target)
  <2> DEFINE h == target
  <2>1. /\ wq' = Without(wq, h) /\ loop_wq' = Without(loop_wq, h)
        /\ wd' = Without(wd, h) /\ lpc' = "repost" /\ target' = h
        /\ work'[h] = "cancelled" /\ \A r \in Reqs : r # h => work'[r] = work[r]
    BY Zenon, <1>1, <1>3 DEF uv__work_cancel, CtlInv, TypeOK
  <2>2. h \in linked /\ work[h] = "work" /\ h \in Elems(wq)
    BY Zenon, <1>1, <1>3 DEF Cancellable, PlaceInv, ActiveInv
  <2>3. h \in active /\ h \notin ran /\ h # Exit /\ h \in Reqs
    BY Zenon, <1>1, <2>2, PoolAssumption DEF PlaceInv, QueueInv
  <2>4. h \notin Elems(loop_wq) /\ h \notin Elems(wd)
        /\ \A w \in Workers : cur[w] # h
    BY <2>2, <1>1, Names DEF PlaceInv, BackInv, WorkerInv
  <2>5. wq \in Seq(Reqs \cup {Exit}) /\ Inj(wq) /\ active \subseteq Reqs
        /\ linked \subseteq Reqs /\ \A w \in Workers : cur[w] \in Reqs \cup {None}
    BY Zenon DEF CtlInv, TypeOK, PlaceInv, QueueInv
  <2>6. Elems(wq') = Elems(wq) \ {h} /\ Inj(wq')
    BY Zenon, <2>1, <2>5, WithoutFacts
  <2>7. loop_wq' = loop_wq /\ wd' = wd
    BY Zenon, <2>1, <2>4 DEF Without
  <2>8. Hand' = {h} /\ Elems(loop_wq)' = Elems(loop_wq) /\ Elems(wd)' = Elems(wd)
        /\ Inj(loop_wq)' = Inj(loop_wq) /\ Inj(wd)' = Inj(wd)
        /\ \A r \in Reqs : r # h => Status(r)' = Status(r)
    BY Zenon, <2>1, <2>7 DEF Hand, Elems, Inj, Status
  <2>9. Elems(wq) \ {Exit} \subseteq Reqs /\ Elems(loop_wq) \subseteq Reqs
        /\ Elems(wd) \subseteq Reqs
    BY Zenon, <2>5 DEF PlaceInv, QueueInv, BackInv
  <2> HIDE DEF h
  <2>10. QueueInv'
    BY Zenon, <1>1, <2>1, <2>6, <2>9 DEF PlaceInv, QueueInv
  <2>11. WorkerInv'
    BY <1>1, <2>1, <2>4, <2>5 DEF PlaceInv, WorkerInv
  <2>12. BackInv'
    BY <1>1, <2>1, <2>3, <2>4, <2>8, <2>9 DEF PlaceInv, BackInv
  <2>13. ActiveInv'
    <3>1. \A r \in active' :
            /\ done'[r] = << >> /\ work'[r] # "unset"
            /\ \/ r \in Elems(wq') \cup Elems(loop_wq') \cup Elems(wd') \cup Hand'
               \/ \E v \in Workers : cur'[v] = r
      BY <1>1, <2>1, <2>5, <2>6, <2>8 DEF PlaceInv, ActiveInv
    <3>2. \A r \in linked' : work'[r] = "work" => r \in Elems(wq')
      BY Zenon, <1>1, <2>1, <2>5, <2>6 DEF PlaceInv, ActiveInv
    <3>3. \A r \in Reqs \ active' :
            \/ work'[r] = "unset" /\ done'[r] = << >> /\ r \notin ran'
            \/ /\ done'[r] = <<Status(r)'>> /\ work'[r] \in {"null", "cancelled"}
               /\ r \in ran' <=> work'[r] = "null"
      BY <1>1, <2>1, <2>3, <2>8 DEF PlaceInv, ActiveInv
    <3> QED BY Zenon, <3>1, <3>2, <3>3 DEF ActiveInv
  <2> QED BY Zenon, <2>10, <2>11, <2>12, <2>13 DEF PlaceInv
<1> QED BY Zenon, <1>2, <1>3

\* A cancelled request is handed back to the loop.
LEMMA PlaceRepost ==
  ASSUME CtlInv, PlaceInv, Repost
  PROVE  PlaceInv'
<1> DEFINE h == target
<1>1. /\ h \in Reqs /\ Hand = {h} /\ Hand' = {} /\ loop_wq' = Append(loop_wq, h)
      /\ UNCHANGED <<wq, pc, cur, work, linked, wd, active, ran, done>>
  BY Zenon DEF Repost, CtlInv, TypeOK, Held, Hand
<1>2. h \notin Elems(loop_wq) /\ h \notin Elems(wd) /\ loop_wq \in Seq(Reqs)
  BY Zenon, <1>1 DEF PlaceInv, BackInv, CtlInv, TypeOK
<1>3. Elems(loop_wq') = Elems(loop_wq) \cup {h} /\ Inj(loop_wq')
  BY <1>1, <1>2, AppendFacts DEF PlaceInv, BackInv
<1>4. Elems(wq)' = Elems(wq) /\ Elems(wd)' = Elems(wd) /\ Inj(wq)' = Inj(wq)
      /\ Inj(wd)' = Inj(wd) /\ \A r \in Reqs : Status(r)' = Status(r)
  BY Zenon, <1>1 DEF Elems, Inj, Status
<1> HIDE DEF h
<1>5. QueueInv' /\ WorkerInv'
  BY <1>1, <1>4, SMTT(30) DEF PlaceInv, QueueInv, WorkerInv
<1>6. BackInv'
  BY Zenon, <1>1, <1>2, <1>3, <1>4 DEF PlaceInv, BackInv
<1>7. ActiveInv'
  BY Zenon, <1>1, <1>3, <1>4 DEF PlaceInv, ActiveInv
<1> QED BY Zenon, <1>5, <1>6, <1>7 DEF PlaceInv

\* uv__work_done takes over the requests of the loop.
LEMMA PlaceSplit ==
  ASSUME CtlInv, PlaceInv, wd = << >>, Split
  PROVE  PlaceInv'
<1>1. /\ Hand = {} /\ Hand' = {} /\ wd' = loop_wq /\ loop_wq' = << >>
      /\ UNCHANGED <<wq, pc, cur, work, linked, active, ran, done>>
  BY Zenon DEF Split, Hand
<1>2. Elems(<< >>) = {} /\ Inj(<< >>)
  BY DEF Elems, Inj
<1>3. /\ Elems(wd') = Elems(loop_wq) /\ Elems(loop_wq') = {} /\ Elems(wd) = {}
      /\ Inj(wd') /\ Inj(loop_wq')
      /\ Elems(wq)' = Elems(wq) /\ Inj(wq)' = Inj(wq)
      /\ \A r \in Reqs : Status(r)' = Status(r)
  BY Zenon, <1>1, <1>2 DEF PlaceInv, BackInv, Status
<1>4. QueueInv' /\ WorkerInv'
  BY <1>1, <1>3, SMTT(30) DEF PlaceInv, QueueInv, WorkerInv
<1>5. BackInv'
  BY Zenon, <1>1, <1>3 DEF PlaceInv, BackInv
<1>6. ActiveInv'
  BY Zenon, <1>1, <1>3 DEF PlaceInv, ActiveInv
<1> QED BY Zenon, <1>4, <1>5, <1>6 DEF PlaceInv

\* uv__work_done reports its next request.
LEMMA PlaceDone ==
  ASSUME CtlInv, PlaceInv, NextDone
  PROVE  PlaceInv'
<1> DEFINE h == Head(wd)
<1>1. /\ wd # << >> /\ wd' = Tail(wd) /\ active' = active \ {h}
      /\ Hand = {} /\ Hand' = {}
      /\ UNCHANGED <<wq, pc, cur, work, linked, loop_wq, ran>>
  BY Zenon DEF NextDone, Hand
<1>2. /\ h \in Reqs /\ h \in Elems(wd) /\ Elems(wd) = {h} \cup Elems(wd')
      /\ Inj(wd') /\ h \notin Elems(wd')
  BY Zenon, <1>1, TailFacts DEF CtlInv, TypeOK, PlaceInv, BackInv
<1>3. h \in active /\ work[h] \in {"null", "cancelled"} /\ h \notin Elems(loop_wq)
      /\ (h \in ran <=> work[h] = "null") /\ h \notin Elems(wq)
      /\ \A w \in Workers : cur[w] # h
  BY <1>2, Names, PoolAssumption DEF PlaceInv, BackInv, QueueInv, WorkerInv
<1>4. done[h] = << >>
  BY Zenon, <1>3 DEF PlaceInv, ActiveInv
<1>5. done'[h] = <<Status(h)>> /\ \A r \in Reqs : r # h => done'[r] = done[r]
  <2>1. done' = [done EXCEPT ![h] = Append(done[h], Status(h))]
        /\ done \in [Reqs -> Seq({"ok", "ECANCELED"})]
    BY Zenon DEF NextDone, CtlInv, TypeOK
  <2>2. Append(<< >>, Status(h)) = <<Status(h)>>
    OBVIOUS
  <2> HIDE DEF h
  <2> QED BY Zenon, <2>1, <2>2, <1>2, <1>4
<1>6. Elems(wq)' = Elems(wq) /\ Elems(loop_wq)' = Elems(loop_wq)
      /\ Inj(wq)' = Inj(wq) /\ Inj(loop_wq)' = Inj(loop_wq)
      /\ \A r \in Reqs : Status(r)' = Status(r)
  BY Zenon, <1>1 DEF Elems, Inj, Status
<1>7. active \subseteq Reqs /\ \A w \in Workers : cur[w] \in Reqs \cup {None}
  BY Zenon DEF CtlInv, TypeOK
<1> HIDE DEF h
<1>8. QueueInv'
  BY Zenon, <1>1, <1>3, <1>6 DEF PlaceInv, QueueInv
<1>9. WorkerInv'
  BY Zenon, <1>1, <1>3 DEF PlaceInv, WorkerInv
<1>10. BackInv'
  BY Zenon, <1>1, <1>2, <1>3, <1>6 DEF PlaceInv, BackInv
<1>11. ActiveInv'
  <2>1. \A r \in active' :
          /\ done'[r] = << >> /\ work'[r] # "unset"
          /\ \/ r \in Elems(wq') \cup Elems(loop_wq') \cup Elems(wd') \cup Hand'
             \/ \E v \in Workers : cur'[v] = r
    BY Zenon, <1>1, <1>2, <1>5, <1>6, <1>7 DEF PlaceInv, ActiveInv
  <2>2. \A r \in linked' : work'[r] = "work" => r \in Elems(wq')
    BY Zenon, <1>1, <1>6 DEF PlaceInv, ActiveInv
  <2>3. \A r \in Reqs \ active' :
          \/ work'[r] = "unset" /\ done'[r] = << >> /\ r \notin ran'
          \/ /\ done'[r] = <<Status(r)'>> /\ work'[r] \in {"null", "cancelled"}
             /\ r \in ran' <=> work'[r] = "null"
    BY <1>1, <1>3, <1>5, <1>6, SMTT(30) DEF PlaceInv, ActiveInv
  <2> QED BY Zenon, <2>1, <2>2, <2>3 DEF ActiveInv
<1> QED BY Zenon, <1>8, <1>9, <1>10, <1>11 DEF PlaceInv

\* The exit message is queued once, behind all requests, and nothing is queued
\* behind it; a worker that left has seen it, and left nothing else queued.
ExitInv ==
  /\ \A i \in DOMAIN wq : wq[i] = Exit => i = Len(wq)
  /\ Exit \in Elems(wq) => lpc \in {"join", "exited"}
  /\ (\E w \in Workers : pc[w] = "gone") => wq = <<Exit>>

\* cleanup queues the exit message.
LEMMA PlaceExit ==
  ASSUME CtlInv, PlaceInv, ExitInv, cleanup
  PROVE  PlaceInv'
<1>1. lpc = "run" /\ lpc' \in {"join", "exited"} /\ Hand = {} /\ Hand' = {}
      /\ UNCHANGED <<loop_wq, cur, wd, work, linked, active, ran, done>>
  BY Zenon DEF cleanup, Hand
<1>2. CASE UNCHANGED <<wq, pc>>
  BY Zenon, <1>1, <1>2, PlaceStays
<1>3. CASE PostReq(Exit)
  <2>1. /\ wq' = Append(wq, Exit)
        /\ \A w \in Workers : pc'[w] = "post" <=> pc[w] = "post"
    BY Zenon, <1>3, PostFacts DEF CtlInv
  <2>2. Exit \notin Elems(wq) /\ wq \in Seq(Reqs \cup {Exit})
    BY Zenon, <1>1 DEF ExitInv, CtlInv, TypeOK
  <2>3. Elems(wq') = Elems(wq) \cup {Exit} /\ Inj(wq')
    BY <2>1, <2>2, AppendFacts DEF PlaceInv, QueueInv
  <2>4. Elems(loop_wq)' = Elems(loop_wq) /\ Elems(wd)' = Elems(wd)
        /\ Inj(loop_wq)' = Inj(loop_wq) /\ Inj(wd)' = Inj(wd)
        /\ \A r \in Reqs : Status(r)' = Status(r)
    BY Zenon, <1>1 DEF Elems, Inj, Status
  <2>5. linked \subseteq Reqs
    BY Zenon DEF CtlInv, TypeOK
  <2>6. QueueInv' /\ WorkerInv'
    BY <1>1, <2>1, <2>3, SMTT(30) DEF PlaceInv, QueueInv, WorkerInv
  <2>7. BackInv'
    BY Zenon, <1>1, <2>4 DEF PlaceInv, BackInv
  <2>8. ActiveInv'
    BY Zenon, <1>1, <2>3, <2>4 DEF PlaceInv, ActiveInv
  <2> QED BY Zenon, <2>6, <2>7, <2>8 DEF PlaceInv
<1> QED BY Zenon, <1>2, <1>3 DEF cleanup, PostExit

\* Every step leaves each request in its one place.
LEMMA PlaceNext ==
  ASSUME CtlInv, PlaceInv, ExitInv, TargetInv, [Next]_vars
  PROVE  PlaceInv'
<1>1. ASSUME NEW w \in Workers, Take(w)
      PROVE  PlaceInv'
  <2>1. pc[w] = "take" /\ UNCHANGED <<loop_wq, wd, work, active, ran, done, lpc, target>>
    BY Zenon, <1>1 DEF Take
  <2>2. CASE /\ wq # << >> /\ ~ExitFirst
             /\ wq' = Tail(wq)
             /\ cur' = [cur EXCEPT ![w] = Head(wq)]
             /\ linked' = Unlink(Head(wq))
             /\ pc' = [pc EXCEPT ![w] = "work"]
    BY Zenon, <2>1, <2>2, PlaceTake DEF ExitFirst, Unlink
  <2>3. CASE UNCHANGED <<wq, cur, linked>>
             /\ (pc' = [pc EXCEPT ![w] = "wait"]
                 \/ PassOn([pc EXCEPT ![w] = "gone"], pc'))
    <3> DEFINE p == [pc EXCEPT ![w] = "gone"]
    <3>1. p \in [Workers -> WorkerPc] /\ p[w] = "gone"
          /\ \A v \in Workers : v # w => p[v] = pc[v]
      BY Zenon DEF CtlInv, TypeOK, WorkerPc
    <3>2. CASE Signalled(p, pc')
      <4> HIDE DEF p
      <4>1. \A v \in Workers : pc'[v] = p[v] \/ (p[v] = "wait" /\ pc'[v] = "take")
        BY <3>1, <3>2, SignalFacts
      <4>2. \A v \in Workers : pc'[v] = "post" <=> pc[v] = "post"
        BY Zenon, <3>1, <4>1, <2>1
      <4>3. Hand' = Hand
        BY Zenon, <2>1 DEF Hand
      <4> QED BY Zenon, <2>1, <2>3, <4>2, <4>3, PlaceStays
    <3>3. CASE pc' = [pc EXCEPT ![w] = "wait"]
      <4>1. \A v \in Workers : pc'[v] = "post" <=> pc[v] = "post"
        BY Zenon, <3>3, <2>1 DEF CtlInv, TypeOK
      <4>2. Hand' = Hand
        BY Zenon, <2>1 DEF Hand
      <4> QED BY Zenon, <2>1, <2>3, <4>1, <4>2, PlaceStays
    <3> QED BY Zenon, <2>3, <3>2, <3>3 DEF PassOn
  <2> QED BY Zenon, <1>1, <2>2, <2>3 DEF Take
<1>2. ASSUME NEW w \in Workers, Work(w) \/ Post(w)
      PROVE  PlaceInv'
  BY Zenon, <1>2, PlaceWork, PlacePost
<1>3. ASSUME NEW w \in Workers, Send(w)
      PROVE  PlaceInv'
  <2>1. /\ pc[w] = "send"
        /\ pc' = [pc EXCEPT ![w] = "write"] \/ pc' = [pc EXCEPT ![w] = "take"]
        /\ UNCHANGED <<wq, loop_wq, wd, cur, work, linked, active, ran, done, lpc,
                       target>>
    BY Zenon, <1>3 DEF Send, uv_async_send
  <2>2. \A v \in Workers : pc'[v] = "post" <=> pc[v] = "post"
    BY Zenon, <2>1 DEF CtlInv, TypeOK
  <2>3. Hand' = Hand
    BY Zenon, <2>1 DEF Hand
  <2> QED BY Zenon, <2>1, <2>2, <2>3, PlaceStays
<1>4. ASSUME NEW w \in Workers, Write(w) \/ Spurious(w)
      PROVE  PlaceInv'
  <2>1. /\ pc[w] \in {"write", "wait"} /\ pc' = [pc EXCEPT ![w] = "take"]
        /\ UNCHANGED <<wq, loop_wq, wd, cur, work, linked, active, ran, done, lpc,
                       target>>
    BY Zenon, <1>4 DEF Write, Spurious
  <2>2. \A v \in Workers : pc'[v] = "post" <=> pc[v] = "post"
    BY Zenon, <2>1 DEF CtlInv, TypeOK
  <2>3. Hand' = Hand
    BY Zenon, <2>1 DEF Hand
  <2> QED BY Zenon, <2>1, <2>2, <2>3, PlaceStays
<1>5. ASSUME NEW r \in Reqs, uv_cancel(r)
      PROVE  PlaceInv'
  <2>1. lpc = "run" /\ lpc' = "cancel"
        /\ UNCHANGED <<wq, loop_wq, wd, cur, work, linked, active, ran, done, pc>>
    BY Zenon, <1>5 DEF uv_cancel
  <2>2. Hand' = Hand
    BY Zenon, <2>1 DEF Hand
  <2> QED BY Zenon, <2>1, <2>2, PlaceStays
<1>6. CASE \/ LoopSend \/ LoopWrite \/ Poll \/ Callback \/ OtherSend
           \/ uv__async_io \/ uv__async_event \/ EndDone \/ Join \/ Ended
           \/ UNCHANGED vars
  <2>1. UNCHANGED <<wq, loop_wq, wd, cur, work, linked, active, ran, done, pc, target>>
    BY Zenon, <1>6 DEF LoopSend, LoopWrite, Poll, Callback, OtherSend, uv__async_io,
       uv__async_event, EndDone, Join, Ended, vars
  <2>2. lpc' = "repost" <=> lpc = "repost"
    BY Zenon, <1>6 DEF LoopSend, uv_async_send, LoopWrite, Poll, Callback, OtherSend,
       uv__async_io, uv__async_event, EndDone, Join, Ended, vars
  <2>3. Hand' = Hand
    BY Zenon, <2>1, <2>2 DEF Hand
  <2> QED BY Zenon, <2>1, <2>3, PlaceStays
<1>7. CASE Split
  <2>1. wd = << >>
    BY Zenon, <1>7 DEF Split, CtlInv, Held
  <2> QED BY Zenon, <1>7, <2>1, PlaceSplit
<1> QED
  BY Zenon, <1>1, <1>2, <1>3, <1>4, <1>5, <1>6, <1>7, PlaceQueue, PlaceCancel, PlaceRepost,
     PlaceDone, PlaceExit DEF Next, WorkerStep, CallStep

\* The exit message stays where it is.
LEMMA ExitNext ==
  ASSUME CtlInv, PlaceInv, ExitInv, [Next]_vars
  PROVE  ExitInv'
<1>1. wq \in Seq(Reqs \cup {Exit}) /\ Len(wq) \in Nat /\ DOMAIN wq = 1 .. Len(wq)
      /\ Inj(wq)
  BY DEF CtlInv, TypeOK, PlaceInv, QueueInv
<1>2. ASSUME UNCHANGED wq, lpc' \in {"join", "exited"} \/ lpc \notin {"join", "exited"},
             \A w \in Workers : pc'[w] = "gone" => pc[w] = "gone"
      PROVE  ExitInv'
  BY Zenon, <1>2 DEF ExitInv, Elems
<1>3. ASSUME NEW w \in Workers, Take(w)
      PROVE  ExitInv'
  <2>1. pc[w] = "take" /\ UNCHANGED lpc
    BY Zenon, <1>3 DEF Take
  <2>2. CASE pc' = [pc EXCEPT ![w] = "wait"] /\ UNCHANGED <<wq, cur, linked>>
    BY Zenon, <2>1, <2>2, <1>2 DEF CtlInv, TypeOK
  <2>3. CASE wq # << >> /\ ExitFirst /\ UNCHANGED <<wq, cur, linked>>
    <3>1. wq[1] = Exit /\ 1 \in DOMAIN wq
      BY <2>3, <1>1, TailFacts DEF ExitFirst
    <3>2. Len(wq) = 1
      BY Zenon, <3>1 DEF ExitInv
    <3>3. wq = <<Exit>>
      BY <3>1, <3>2, <1>1
    <3>4. wq' = wq /\ lpc' = lpc
      BY Zenon, <2>1, <2>3
    <3> QED BY Zenon, <3>3, <3>4 DEF ExitInv, Elems
  <2>4. CASE /\ wq # << >> /\ ~ExitFirst
             /\ wq' = Tail(wq)
             /\ pc' = [pc EXCEPT ![w] = "work"]
    <3>1. Len(wq') = Len(wq) - 1 /\ DOMAIN wq' = 1 .. Len(wq) - 1
          /\ \A i \in 1 .. Len(wq) - 1 : i + 1 \in 1 .. Len(wq) /\ wq'[i] = wq[i + 1]
      BY <2>4, <1>1
    <3>2. \A i \in DOMAIN wq' : wq'[i] = Exit => i = Len(wq')
      BY <3>1, <1>1 DEF ExitInv
    <3>3. Elems(wq') \subseteq Elems(wq)
      BY <2>4, <1>1, TailFacts
    <3>4. \A v \in Workers : pc[v] # "gone"
      BY <2>4 DEF ExitInv, ExitFirst
    <3>5. \A v \in Workers : pc'[v] # "gone"
      BY Zenon, <3>4, <2>4 DEF CtlInv, TypeOK
    <3> QED BY Zenon, <3>2, <3>3, <3>5, <2>1 DEF ExitInv
  <2> QED BY Zenon, <1>3, <2>2, <2>3, <2>4 DEF Take
<1>4. ASSUME NEW q \in Reqs \cup {Exit}, PostReq(q), lpc = "run",
             q = Exit => lpc' = "join"
      PROVE  ExitInv'
  <2>1. /\ wq' = Append(wq, q)
        /\ \A w \in Workers : pc'[w] = "gone" => pc[w] = "gone"
    BY Zenon, <1>4, PostFacts DEF CtlInv
  <2>2. Exit \notin Elems(wq)
    BY Zenon, <1>4 DEF ExitInv
  <2>3. Len(wq') = Len(wq) + 1 /\ DOMAIN wq' = 1 .. Len(wq) + 1
        /\ \A i \in 1 .. Len(wq) : wq'[i] = wq[i]
    BY <2>1, <1>1
  <2>4. \A i \in DOMAIN wq' : wq'[i] = Exit => i = Len(wq')
    <3>1. ASSUME NEW i \in 1 .. Len(wq) + 1, i # Len(wq) + 1
          PROVE  wq'[i] # Exit
      <4>1. i \in 1 .. Len(wq)
        BY <3>1, <1>1
      <4> QED BY Zenon, <4>1, <2>2, <2>3, <1>1 DEF Elems
    <3> QED BY Zenon, <3>1, <2>3
  <2>5. Elems(wq') = Elems(wq) \cup {q}
    BY <2>1, <1>1, AppendFacts
  <2>6. \A w \in Workers : pc[w] # "gone"
    <3>1. Elems(<<Exit>>) = {Exit}
      BY DEF Elems
    <3> QED BY Zenon, <2>2, <3>1 DEF ExitInv
  <2> QED BY Zenon, <1>4, <2>1, <2>2, <2>4, <2>5, <2>6 DEF ExitInv
<1>5. CASE uv__work_cancel
  <2>1. lpc = "cancel" /\ pc' = pc
        /\ (wq' = wq \/ wq' = Without(wq, target))
    BY Zenon, <1>5 DEF uv__work_cancel
  <2>2. Elems(wq') \subseteq Elems(wq) /\ Exit \notin Elems(wq)
    BY <2>1, <1>1, WithoutFacts DEF ExitInv
  <2>3. \A w \in Workers : pc[w] # "gone"
    <3>1. Elems(<<Exit>>) = {Exit}
      BY DEF Elems
    <3> QED BY Zenon, <2>2, <3>1 DEF ExitInv
  <2>4. Exit \notin Elems(wq')
    BY Zenon, <2>2
  <2> QED BY Zenon, <2>1, <2>3, <2>4 DEF ExitInv, Elems
<1>6. CASE \E w \in Workers : Work(w) \/ Post(w) \/ Send(w) \/ Write(w) \/ Spurious(w)
  <2>1. UNCHANGED <<wq, lpc>>
    BY Zenon, <1>6 DEF Work, Post, Send, Write, Spurious
  <2>2. PICK w \in Workers : Work(w) \/ Post(w) \/ Send(w) \/ Write(w) \/ Spurious(w)
    BY Zenon, <1>6
  <2>3. \E q \in {"post", "send", "write", "take"} : pc' = [pc EXCEPT ![w] = q]
    BY Zenon, <2>2 DEF Work, Post, Send, uv_async_send, Write, Spurious
  <2>4. \A v \in Workers : pc'[v] = "gone" => pc[v] = "gone"
    BY Zenon, <2>3 DEF CtlInv, TypeOK
  <2> QED BY Zenon, <2>1, <2>4, <1>2
<1>7. CASE \/ \E r \in Reqs : uv_cancel(r)
           \/ Repost \/ LoopSend \/ LoopWrite \/ Poll \/ Callback \/ OtherSend
           \/ uv__async_io \/ uv__async_event \/ Split \/ NextDone \/ EndDone
           \/ Join \/ Ended \/ UNCHANGED vars
  <2>1. UNCHANGED <<wq, pc>>
    BY Zenon, <1>7 DEF uv_cancel, Repost, LoopSend, LoopWrite, Poll, Callback, OtherSend,
       uv__async_io, uv__async_event, Split, NextDone, EndDone, Join, Ended, vars
  <2>2. lpc' \in {"join", "exited"} \/ lpc \notin {"join", "exited"}
    BY Zenon, <1>7 DEF uv_cancel, Repost, LoopSend, uv_async_send, LoopWrite, Poll, Callback,
       OtherSend, uv__async_io, uv__async_event, Split, NextDone, EndDone, Join,
       Ended, vars
  <2> QED BY Zenon, <2>1, <2>2, <1>2
<1>8. ASSUME NEW r \in Reqs, uv_queue_work(r)
      PROVE  ExitInv'
  BY Zenon, <1>8, <1>4, PoolAssumption DEF uv_queue_work
<1>9. CASE cleanup
  <2>1. CASE lpc' = "exited" /\ UNCHANGED <<wq, pc>>
    BY Zenon, <2>1, <1>2
  <2>2. CASE lpc' = "join" /\ PostReq(Exit)
    BY Zenon, <2>2, <1>4, <1>9 DEF cleanup
  <2> QED BY Zenon, <2>1, <2>2, <1>9 DEF cleanup, PostExit
<1> QED
  BY Zenon, <1>3, <1>5, <1>6, <1>7, <1>8, <1>9 DEF Next, WorkerStep, CallStep

-----------------------------------------------------------------------------
(* Nobody sleeps over work: the workers, and the loop.                     *)

Awake == {"take", "work", "post", "send", "write"}

AwakeInv ==
  /\ \/ (\A w \in Workers : pc[w] = "none") /\ wq = << >> /\ active = {}
     \/ \A w \in Workers : pc[w] # "none"
  /\ wq # << >> /\ (\E w \in Workers : pc[w] = "wait") =>
       \E w \in Workers : pc[w] \in Awake

\* Every step leaves a worker awake for what is queued.
LEMMA AwakeNext ==
  ASSUME CtlInv, PlaceInv, ExitInv, AwakeInv, [Next]_vars
  PROVE  AwakeInv'
<1>1. ASSUME NEW w \in Workers, pc[w] \in Awake \cup {"wait"}, NEW q \in Awake,
             pc' = [pc EXCEPT ![w] = q], active' = active
      PROVE  AwakeInv'
  BY Zenon, <1>1 DEF AwakeInv, CtlInv, TypeOK, Awake
<1>2. ASSUME NEW w \in Workers, Take(w)
      PROVE  AwakeInv'
  <2>1. pc[w] = "take" /\ UNCHANGED active
    BY Zenon, <1>2 DEF Take
  <2>2. CASE wq = << >> /\ pc' = [pc EXCEPT ![w] = "wait"] /\ UNCHANGED wq
    BY Zenon, <2>1, <2>2 DEF AwakeInv, CtlInv, TypeOK
  <2>3. CASE PassOn([pc EXCEPT ![w] = "gone"], pc') /\ UNCHANGED wq
    <3> DEFINE p == [pc EXCEPT ![w] = "gone"]
    <3>1. p \in [Workers -> WorkerPc] /\ p[w] = "gone"
          /\ \A v \in Workers : v # w => p[v] = pc[v]
      BY Zenon DEF CtlInv, TypeOK, WorkerPc
    <3>2. Signalled(p, pc')
      BY Zenon, <2>3 DEF PassOn
    <3> HIDE DEF p
    <3>3. /\ \A v \in Workers : pc'[v] = p[v] \/ (p[v] = "wait" /\ pc'[v] = "take")
          /\ (\E v \in Workers : p[v] = "wait") => \E v \in Workers : pc'[v] = "take"
      BY <3>1, <3>2, SignalFacts
    <3>4. \A v \in Workers : pc'[v] # "none"
      BY Zenon, <3>1, <3>3, <2>1 DEF AwakeInv
    <3>5. (\E v \in Workers : pc'[v] = "wait") => \E v \in Workers : pc'[v] \in Awake
      BY Zenon, <3>3 DEF Awake
    <3> QED BY Zenon, <3>4, <3>5 DEF AwakeInv
  <2>4. CASE pc' = [pc EXCEPT ![w] = "work"]
    BY Zenon, <2>1, <2>4, <1>1 DEF Awake
  <2> QED BY Zenon, <1>2, <2>2, <2>3, <2>4 DEF Take
<1>3. ASSUME NEW w \in Workers,
             Work(w) \/ Post(w) \/ Send(w) \/ Write(w) \/ Spurious(w)
      PROVE  AwakeInv'
  <2>1. pc[w] \in Awake \cup {"wait"} /\ UNCHANGED active
    BY Zenon, <1>3 DEF Work, Post, Send, Write, Spurious, Awake
  <2>2. \E q \in Awake : pc' = [pc EXCEPT ![w] = q]
    BY Zenon, <1>3 DEF Work, Post, Send, uv_async_send, Write, Spurious, Awake
  <2> QED BY Zenon, <2>1, <2>2, <1>1
<1>4. ASSUME NEW q, PostReq(q)
      PROVE  AwakeInv'
  <2>1. /\ \A w \in Workers : pc'[w] = pc[w]
             \/ (pc[w] \in {"none", "wait"} /\ pc'[w] = "take")
        /\ (\E w \in Workers : pc[w] = "wait") => \E w \in Workers : pc'[w] = "take"
        /\ (\A w \in Workers : pc[w] = "none") => \A w \in Workers : pc'[w] = "take"
    BY Zenon, <1>4, PostFacts DEF CtlInv
  <2>2. \A w \in Workers : pc'[w] # "none"
    BY Zenon, <2>1 DEF AwakeInv
  <2>3. (\E w \in Workers : pc'[w] = "wait") => \E w \in Workers : pc'[w] \in Awake
    BY Zenon, <2>1 DEF Awake
  <2> QED BY Zenon, <2>2, <2>3 DEF AwakeInv
<1>5. ASSUME UNCHANGED pc, wq' = << >> => wq = << >> \/ active' = active,
             wq = << >> => wq' = << >>, active' \subseteq active
      PROVE  AwakeInv'
  BY Zenon, <1>5 DEF AwakeInv
<1>6. CASE uv__work_cancel
  <2>1. UNCHANGED <<pc, active>> /\ (wq' = wq \/ wq' = Without(wq, target))
    BY Zenon, <1>6 DEF uv__work_cancel
  <2>2. wq = << >> => wq' = << >>
    BY <2>1 DEF Without, Elems
  <2> QED BY Zenon, <2>1, <2>2, <1>5
<1>7. CASE \/ \E r \in Reqs : uv_cancel(r)
           \/ Repost \/ LoopSend \/ LoopWrite \/ Poll \/ Callback \/ OtherSend
           \/ uv__async_io \/ uv__async_event \/ Split \/ NextDone \/ EndDone
           \/ Join \/ Ended \/ UNCHANGED vars
  <2>1. UNCHANGED <<wq, pc>>
    BY Zenon, <1>7 DEF uv_cancel, Repost, LoopSend, LoopWrite, Poll, Callback, OtherSend,
       uv__async_io, uv__async_event, Split, NextDone, EndDone, Join, Ended, vars
  <2>2. active' \subseteq active
    BY Zenon, <1>7 DEF uv_cancel, Repost, LoopSend, LoopWrite, Poll, Callback, OtherSend,
       uv__async_io, uv__async_event, Split, NextDone, EndDone, Join, Ended, vars
  <2> QED BY Zenon, <2>1, <2>2, <1>5
<1>8. CASE cleanup
  <2>1. UNCHANGED active
    BY Zenon, <1>8 DEF cleanup
  <2>2. CASE UNCHANGED <<wq, pc>>
    BY Zenon, <2>1, <2>2, <1>5
  <2>3. CASE PostReq(Exit)
    BY Zenon, <2>3, <1>4
  <2> QED BY Zenon, <1>8, <2>2, <2>3 DEF cleanup, PostExit
<1>9. ASSUME NEW r \in Reqs, uv_queue_work(r)
      PROVE  AwakeInv'
  BY Zenon, <1>9, <1>4 DEF uv_queue_work
<1> QED
  BY Zenon, <1>2, <1>3, <1>6, <1>7, <1>8, <1>9 DEF Next, WorkerStep, CallStep

\* Is the owner of wq_mutex about to write the eventfd?
Writing == lpc = "write" \/ \E w \in Workers : pc[w] = "write"

WakeInv ==
  /\ pending = 1 /\ ~Writing => eventfd \/ lpc = "event"
  /\ loop_wq # << >> /\ (wq_mutex = None \/ Writing) => lpc = "split" \/ pending = 1

\* Every step keeps a wakeup on its way to the loop.
LEMMA WakeNext ==
  ASSUME CtlInv, WakeInv, [Next]_vars
  PROVE  WakeInv'
<1>1. ASSUME UNCHANGED <<pending, eventfd, lpc, loop_wq, wq_mutex>>,
             \A w \in Workers : pc'[w] = "write" <=> pc[w] = "write"
      PROVE  WakeInv'
  BY Zenon, <1>1 DEF WakeInv, Writing
<1>2. ASSUME NEW w \in Workers, Take(w) \/ Work(w) \/ Spurious(w)
      PROVE  WakeInv'
  <2>1. UNCHANGED <<pending, eventfd, lpc, loop_wq, wq_mutex>>
        /\ pc[w] \in {"take", "work", "wait"}
    BY Zenon, <1>2 DEF Take, Work, Spurious
  <2>2. \/ \E q \in {"wait", "work", "post", "take"} : pc' = [pc EXCEPT ![w] = q]
        \/ Signalled([pc EXCEPT ![w] = "gone"], pc')
    BY Zenon, <1>2 DEF Take, Work, Spurious, PassOn
  <2>3. CASE \E q \in {"wait", "work", "post", "take"} : pc' = [pc EXCEPT ![w] = q]
    BY Zenon, <2>1, <2>3, <1>1 DEF CtlInv, TypeOK
  <2>4. CASE Signalled([pc EXCEPT ![w] = "gone"], pc')
    <3> DEFINE p == [pc EXCEPT ![w] = "gone"]
    <3>1. p \in [Workers -> WorkerPc] /\ p[w] = "gone"
          /\ \A v \in Workers : v # w => p[v] = pc[v]
      BY Zenon DEF CtlInv, TypeOK, WorkerPc
    <3>2. Signalled(p, pc')
      BY Zenon, <2>4
    <3> HIDE DEF p
    <3>3. \A v \in Workers : pc'[v] = p[v] \/ (p[v] = "wait" /\ pc'[v] = "take")
      BY <3>1, <3>2, SignalFacts
    <3>4. \A v \in Workers : pc'[v] = "write" <=> pc[v] = "write"
      BY Zenon, <3>1, <3>3, <2>1
    <3> QED BY Zenon, <2>1, <3>4, <1>1
  <2> QED BY Zenon, <2>2, <2>3, <2>4
<1>3. ASSUME NEW w \in Workers, Post(w)
      PROVE  WakeInv'
  <2>1. /\ pc[w] = "post" /\ wq_mutex = None /\ wq_mutex' = w
        /\ pc' = [pc EXCEPT ![w] = "send"] /\ UNCHANGED <<pending, eventfd, lpc>>
    BY Zenon, <1>3 DEF Post
  <2>2. ~Writing /\ ~Writing' /\ w # None
    BY <2>1, Names DEF Writing, CtlInv, TypeOK, Held
  <2> QED BY Zenon, <2>1, <2>2 DEF WakeInv
<1>4. ASSUME NEW w \in Workers, Send(w)
      PROVE  WakeInv'
  <2>1. pc[w] = "send" /\ UNCHANGED <<loop_wq, eventfd, lpc>> /\ wq_mutex = w
    BY Zenon, <1>4 DEF Send, CtlInv, Held
  <2>2. \A v \in Workers : pc[v] # "write"
    <3>1. ASSUME NEW v \in Workers, pc[v] = "write"
          PROVE  FALSE
      BY Zenon, <3>1, <2>1 DEF CtlInv, Held
    <3> QED BY Zenon, <3>1
  <2>3. lpc # "write"
    BY Zenon, <2>1, Names DEF CtlInv, Held
  <2>4. CASE pending # 0
    <3>1. pending' = pending /\ wq_mutex' = None /\ pc' = [pc EXCEPT ![w] = "take"]
      BY Zenon, <2>4, <1>4 DEF Send, uv_async_send
    <3>2. pending = 1
      BY Zenon, <2>4 DEF CtlInv, TypeOK
    <3>3. ~Writing /\ ~Writing'
      BY Zenon, <2>1, <2>2, <2>3, <3>1 DEF Writing, CtlInv, TypeOK
    <3> QED BY Zenon, <2>1, <3>1, <3>2, <3>3 DEF WakeInv
  <2>5. CASE pending = 0
    <3>1. pending' = 1 /\ pc' = [pc EXCEPT ![w] = "write"]
      BY Zenon, <2>5, <1>4 DEF Send, uv_async_send
    <3>2. Writing'
      BY Zenon, <3>1 DEF Writing, CtlInv, TypeOK
    <3> QED BY Zenon, <3>1, <3>2 DEF WakeInv
  <2> QED BY Zenon, <2>4, <2>5
<1>5. ASSUME NEW w \in Workers, Write(w)
      PROVE  WakeInv'
  <2>1. Writing /\ eventfd' = TRUE /\ UNCHANGED <<loop_wq, pending, lpc>>
    BY Zenon, <1>5 DEF Write, Writing
  <2> QED BY Zenon, <2>1 DEF WakeInv
<1>6. ASSUME NEW q, PostReq(q), UNCHANGED <<pending, eventfd, loop_wq, wq_mutex>>,
             lpc = "run", lpc' \in {"run", "join"}
      PROVE  WakeInv'
  <2>1. \A w \in Workers : pc'[w] = "write" <=> pc[w] = "write"
    BY Zenon, <1>6, PostFacts DEF CtlInv
  <2> QED BY Zenon, <1>6, <2>1 DEF WakeInv, Writing
<1>7. CASE Repost
  <2>1. lpc' = "send" /\ wq_mutex = None /\ wq_mutex' = Loop
        /\ UNCHANGED <<pending, eventfd, pc>> /\ lpc = "repost"
    BY Zenon, <1>7 DEF Repost
  <2>2. ~Writing /\ ~Writing'
    BY Zenon, <2>1, Names DEF Writing, CtlInv, Held
  <2> QED BY Zenon, <2>1, <2>2, Names DEF WakeInv
<1>8. CASE LoopSend
  <2>1. lpc = "send" /\ wq_mutex = Loop /\ UNCHANGED <<loop_wq, eventfd, pc>>
    BY Zenon, <1>8 DEF LoopSend, CtlInv, Held
  <2>2. \A v \in Workers : pc[v] # "write"
    <3>1. ASSUME NEW v \in Workers, pc[v] = "write"
          PROVE  FALSE
      BY Zenon, <3>1, <2>1, Names DEF CtlInv, Held
    <3> QED BY Zenon, <3>1
  <2>3. CASE pending # 0
    <3>1. pending' = pending /\ lpc' = "run" /\ pending = 1
      BY Zenon, <2>3, <1>8 DEF LoopSend, uv_async_send, CtlInv, TypeOK
    <3>2. ~Writing /\ ~Writing'
      BY Zenon, <2>1, <2>2, <3>1 DEF Writing
    <3> QED BY Zenon, <2>1, <3>1, <3>2 DEF WakeInv
  <2>4. CASE pending = 0
    <3>1. pending' = 1 /\ lpc' = "write"
      BY Zenon, <2>4, <1>8 DEF LoopSend, uv_async_send
    <3> QED BY Zenon, <3>1 DEF WakeInv, Writing
  <2> QED BY Zenon, <2>3, <2>4
<1>9. CASE LoopWrite
  <2>1. Writing /\ eventfd' = TRUE /\ UNCHANGED <<loop_wq, pending>>
        /\ lpc = "write"
    BY Zenon, <1>9 DEF LoopWrite, Writing
  <2> QED BY Zenon, <2>1 DEF WakeInv
<1>10. CASE uv__async_event
  <2>1. UNCHANGED <<pc, loop_wq, wq_mutex, eventfd>> /\ lpc = "event" /\ pending' = 0
        /\ lpc' = IF pending = 0 THEN "run" ELSE "split"
    BY Zenon, <1>10 DEF uv__async_event
  <2>2. Writing' <=> Writing
    BY Zenon, <2>1 DEF Writing
  <2>3. pending = 0 \/ pending = 1
    BY Zenon DEF CtlInv, TypeOK
  <2> QED BY <2>1, <2>2, <2>3 DEF WakeInv
<1>11. CASE Split
  BY Zenon, <1>11 DEF Split, WakeInv, Writing
<1>12. CASE uv__async_io
  BY Zenon, <1>12 DEF uv__async_io, WakeInv, Writing
<1>13. CASE uv__work_cancel
  <2>1. UNCHANGED <<pc, wq_mutex, pending, eventfd>> /\ lpc = "cancel"
        /\ lpc' \in {"run", "repost"}
        /\ (loop_wq' = loop_wq \/ loop_wq' = Without(loop_wq, target))
    BY Zenon, <1>13 DEF uv__work_cancel
  <2>2. loop_wq = << >> => loop_wq' = << >>
    BY <2>1 DEF Without, Elems
  <2> QED BY Zenon, <2>1, <2>2 DEF WakeInv, Writing
<1>14. CASE \/ \E r \in Reqs : uv_cancel(r)
            \/ Poll \/ Callback \/ OtherSend \/ NextDone \/ EndDone \/ Join \/ Ended
            \/ UNCHANGED vars
  <2> DEFINE Quiet ==
        /\ UNCHANGED <<pc, wq_mutex, pending, loop_wq>> /\ (eventfd => eventfd')
        /\ lpc' = lpc \/ {lpc, lpc'} \cap {"event", "split", "write"} = {}
  <2>1. ASSUME \E r \in Reqs : uv_cancel(r) PROVE Quiet
    BY <2>1 DEF uv_cancel
  <2>2. ASSUME Poll \/ Callback PROVE Quiet
    BY <2>2 DEF Poll, Callback
  <2>3. ASSUME OtherSend PROVE Quiet
    BY Zenon, <2>3 DEF OtherSend
  <2>4. ASSUME NextDone PROVE Quiet
    BY Zenon, <2>4 DEF NextDone
  <2>5. ASSUME EndDone \/ Join PROVE Quiet
    BY <2>5 DEF EndDone, Join
  <2>6. ASSUME Ended \/ UNCHANGED vars PROVE Quiet
    BY <2>6 DEF Ended, vars
  <2>7. Quiet
    BY Zenon, <1>14, <2>1, <2>2, <2>3, <2>4, <2>5, <2>6
  <2> QED BY Zenon, <2>7 DEF WakeInv, Writing
<1>15. CASE cleanup
  <2>1. UNCHANGED <<pending, eventfd, loop_wq, wq_mutex>> /\ lpc = "run"
    BY Zenon, <1>15 DEF cleanup
  <2>2. CASE lpc' = "exited" /\ UNCHANGED <<wq, pc>>
    BY Zenon, <2>1, <2>2 DEF WakeInv, Writing
  <2>3. CASE lpc' = "join" /\ PostReq(Exit)
    BY Zenon, <2>1, <2>3, <1>6
  <2> QED BY Zenon, <1>15, <2>2, <2>3 DEF cleanup, PostExit
<1>16. ASSUME NEW r \in Reqs, uv_queue_work(r)
       PROVE  WakeInv'
  BY Zenon, <1>16, <1>6 DEF uv_queue_work
<1> QED
  BY Zenon, <1>2, <1>3, <1>4, <1>5, <1>7, <1>8, <1>9, <1>10, <1>11, <1>12, <1>13, <1>14,
     <1>15, <1>16 DEF Next, WorkerStep, CallStep

-----------------------------------------------------------------------------
(* The theorems.                                                           *)

\* The process is gone only after the workers are, or before there were any.
EndInv ==
  lpc = "exited" => \/ \A w \in Workers : pc[w] = "gone"
                    \/ \A w \in Workers : pc[w] = "none"

\* The workers stay gone.
LEMMA EndNext ==
  ASSUME CtlInv, EndInv, [Next]_vars
  PROVE  EndInv'
<1>1. CASE lpc = "exited"
  <2>1. UNCHANGED <<pc, lpc>>
    <3>1. \A w \in Workers : ~(WorkerStep(w) \/ Spurious(w))
      BY Zenon, <1>1 DEF EndInv, WorkerStep, Take, Work, Post, Send, Write, Spurious
    <3> QED BY Zenon, <1>1, <3>1 DEF Next, uv_queue_work, uv_cancel, CallStep,
          uv__work_cancel, Repost, LoopSend, LoopWrite, Poll, Callback, OtherSend,
          uv__async_io, uv__async_event, Split, NextDone, EndDone, cleanup, Join,
          Ended, vars
  <2> QED BY Zenon, <2>1 DEF EndInv
<1>2. CASE lpc # "exited" /\ lpc' = "exited"
  <2>1. cleanup \/ Join
    <3>1. ~ \E w \in Workers : WorkerStep(w) \/ Spurious(w)
      BY Zenon, <1>2 DEF WorkerStep, Take, Work, Post, Send, Write, Spurious
    <3>2. ~LoopSend
      BY Zenon, <1>2 DEF LoopSend, uv_async_send
    <3> QED BY Zenon, <1>2, <3>1, <3>2 DEF Next, uv_queue_work, uv_cancel, CallStep,
          uv__work_cancel, Repost, LoopWrite, Poll, Callback, OtherSend,
          uv__async_io, uv__async_event, Split, NextDone, EndDone, Ended, vars
  <2> QED BY Zenon, <1>2, <2>1 DEF cleanup, Join, EndInv
<1>3. CASE lpc' # "exited"
  BY Zenon, <1>3 DEF EndInv
<1> QED BY Zenon, <1>1, <1>2, <1>3

PoolInv ==
  CtlInv /\ PlaceInv /\ TargetInv /\ ExitInv /\ AwakeInv /\ WakeInv /\ EndInv

\* The inductive invariant of the pool.
LEMMA PoolInductive ==
  ASSUME ~Recancel
  PROVE  Spec => []PoolInv
<1>1. Init => PoolInv
  <2> SUFFICES ASSUME Init PROVE PoolInv
    OBVIOUS
  <2>1. TargetInv /\ ExitInv /\ EndInv
    BY DEF Init, TargetInv, ExitInv, EndInv, Elems
  <2>2. AwakeInv /\ WakeInv
    BY DEF Init, AwakeInv, WakeInv
  <2> QED BY Zenon, <2>1, <2>2, CtlInit, PlaceInit DEF PoolInv
<1>2. PoolInv /\ [Next]_vars => PoolInv'
  BY Zenon, CtlNext, PlaceNext, TargetNext, ExitNext, AwakeNext, WakeNext, EndNext DEF PoolInv
<1> QED BY <1>1, <1>2, PTL DEF Spec

\* Requests are where the invariant says, and nowhere else.
LEMMA PlacesAccounted == PoolInv => Accounted
<1> SUFFICES ASSUME PoolInv, NEW r \in Reqs
             PROVE  IF r \in active THEN \E p \in Places(r) : Places(r) = {p}
                    ELSE Places(r) = {}
  BY Zenon DEF Accounted
<1> DEFINE Q == At(wq, r)
           B == At(loop_wq, r)
           D == At(wd, r)
           C == {w \in Workers : cur[w] = r}
           H == IF lpc = "repost" /\ target = r THEN {r} ELSE {}
<1>1. Places(r) = ({"wq"} \X Q) \cup ({"loop"} \X B) \cup ({"done"} \X D)
                  \cup ({"worker"} \X C) \cup ({"cancel"} \X H)
  BY Zenon DEF Places
<1>2. /\ Q # {} <=> r \in Elems(wq)
      /\ B # {} <=> r \in Elems(loop_wq)
      /\ D # {} <=> r \in Elems(wd)
      /\ C # {} <=> \E w \in Workers : cur[w] = r
      /\ H # {} <=> r \in Hand
  BY Zenon DEF At, Elems, Hand
<1>3. /\ \A i, j \in Q : i = j
      /\ \A i, j \in B : i = j
      /\ \A i, j \in D : i = j
      /\ \A i, j \in C : i = j
      /\ \A i, j \in H : i = j
  <2>1. (\A i, j \in Q : i = j) /\ (\A i, j \in B : i = j) /\ (\A i, j \in D : i = j)
    BY Zenon DEF PoolInv, PlaceInv, QueueInv, BackInv, At, Inj
  <2>2. \A i, j \in C : i = j
    BY Names, SMTT(30) DEF PoolInv, PlaceInv, WorkerInv
  <2> QED BY Zenon, <2>1, <2>2
<1>4. r # Exit /\ r # None
  BY Zenon, PoolAssumption, Names
<1>5. r \in Elems(wq) => work[r] = "work" /\ r \in linked /\ r \in active
  BY Zenon, <1>4 DEF PoolInv, PlaceInv, QueueInv
<1>6. (\E w \in Workers : cur[w] = r) =>
        work[r] = "work" /\ r \notin linked /\ r \in active
  BY <1>4 DEF PoolInv, PlaceInv, WorkerInv
<1>7. r \in Elems(loop_wq) \cup Elems(wd) \cup Hand => work[r] # "work" /\ r \in active
  BY Zenon DEF PoolInv, PlaceInv, BackInv
<1>8. /\ ~(r \in Elems(loop_wq) /\ r \in Elems(wd))
      /\ ~(r \in Elems(loop_wq) /\ r \in Hand) /\ ~(r \in Elems(wd) /\ r \in Hand)
  BY Zenon DEF PoolInv, PlaceInv, BackInv
<1>9. r \in active => \/ r \in Elems(wq) \cup Elems(loop_wq) \cup Elems(wd) \cup Hand
                      \/ \E v \in Workers : cur[v] = r
  BY Zenon DEF PoolInv, PlaceInv, ActiveInv
<1> HIDE DEF Q, B, D, C, H
<1>10. CASE r \notin active
  BY Zenon, <1>10, <1>1, <1>2, <1>5, <1>6, <1>7
<1>11. CASE r \in active
  <2>1. CASE Q # {}
    <3>1. B = {} /\ D = {} /\ C = {} /\ H = {}
      BY Zenon, <2>1, <1>2, <1>5, <1>6, <1>7
    <3>2. PICK i : Q = {i}
      BY <2>1, <1>3
    <3>3. Places(r) = {<<"wq", i>>}
      BY <3>1, <3>2, <1>1
    <3> QED BY Zenon, <3>3, <1>11
  <2>2. CASE B # {}
    <3>1. Q = {} /\ D = {} /\ C = {} /\ H = {}
      BY Zenon, <2>2, <1>2, <1>5, <1>6, <1>7, <1>8
    <3>2. PICK i : B = {i}
      BY <2>2, <1>3
    <3>3. Places(r) = {<<"loop", i>>}
      BY <3>1, <3>2, <1>1
    <3> QED BY Zenon, <3>3, <1>11
  <2>3. CASE D # {}
    <3>1. Q = {} /\ B = {} /\ C = {} /\ H = {}
      BY Zenon, <2>3, <1>2, <1>5, <1>6, <1>7, <1>8
    <3>2. PICK i : D = {i}
      BY <2>3, <1>3
    <3>3. Places(r) = {<<"done", i>>}
      BY <3>1, <3>2, <1>1
    <3> QED BY Zenon, <3>3, <1>11
  <2>4. CASE C # {}
    <3>1. Q = {} /\ B = {} /\ D = {} /\ H = {}
      BY Zenon, <2>4, <1>2, <1>5, <1>6, <1>7
    <3>2. PICK i : C = {i}
      BY <2>4, <1>3
    <3>3. Places(r) = {<<"worker", i>>}
      BY <3>1, <3>2, <1>1
    <3> QED BY Zenon, <3>3, <1>11
  <2>5. CASE H # {}
    <3>1. Q = {} /\ B = {} /\ D = {} /\ C = {}
      BY Zenon, <2>5, <1>2, <1>5, <1>6, <1>7, <1>8
    <3>2. PICK i : H = {i}
      BY <2>5, <1>3
    <3>3. Places(r) = {<<"cancel", i>>}
      BY <3>1, <3>2, <1>1
    <3> QED BY Zenon, <3>3, <1>11
  <2> QED BY Zenon, <1>2, <1>9, <1>11, <2>1, <2>2, <2>3, <2>4, <2>5
<1> QED BY Zenon, <1>10, <1>11

\* Between uv_queue_work and its report a request is in exactly one queue or
\* hand: the pool loses no request and handles none twice.
THEOREM NoRequestLost ==
  ASSUME ~Recancel
  PROVE  Spec => []Accounted
  BY PoolInductive, PlacesAccounted, PTL

\* Every request is reported at most once, and truly.
THEOREM ReportsAreTrue ==
  ASSUME ~Recancel
  PROVE  Spec => []ReportedTruly
<1>1. PoolInv => ReportedTruly
  <2> SUFFICES ASSUME PoolInv, NEW r \in Reqs
               PROVE  /\ Len(done[r]) <= 1
                      /\ done[r] = <<"ECANCELED">> => r \notin ran
                      /\ done[r] = <<"ok">> => r \in ran
    BY Zenon DEF ReportedTruly
  <2>1. \/ done[r] = << >>
        \/ done[r] = <<Status(r)>> /\ work[r] \in {"null", "cancelled"}
           /\ (r \in ran <=> work[r] = "null")
    BY Zenon DEF PoolInv, PlaceInv, ActiveInv
  <2>2. CASE done[r] = << >>
    BY <2>2
  <2>3. CASE done[r] = <<Status(r)>> /\ work[r] \in {"null", "cancelled"}
             /\ (r \in ran <=> work[r] = "null")
    BY <2>3 DEF Status
  <2> QED BY Zenon, <2>1, <2>2, <2>3
<1> QED BY <1>1, PoolInductive, PTL

\* A request to report never waits for a wakeup that was lost.
THEOREM WakeupsArrive ==
  ASSUME ~Recancel
  PROVE  Spec => []NoLostWakeup
<1>1. PoolInv => NoLostWakeup
  <2> SUFFICES ASSUME PoolInv, loop_wq # << >>, wq_mutex = None
               PROVE  lpc = "split" \/ (pending = 1 /\ (eventfd \/ lpc = "event"))
    BY Zenon DEF NoLostWakeup
  <2>1. ~Writing
    BY Zenon, Names DEF PoolInv, CtlInv, Held, Writing
  <2> QED BY Zenon, <2>1 DEF PoolInv, WakeInv
<1> QED BY <1>1, PoolInductive, PTL

\* The pool does not sleep over queued work, and drains the queue before it
\* exits.
THEOREM PoolStaysAwake ==
  ASSUME ~Recancel
  PROVE  Spec => []NotAllAsleep
<1>1. PoolInv => NotAllAsleep
  <2> SUFFICES ASSUME PoolInv
               PROVE  NotAllAsleep
    OBVIOUS
  <2>1. (\E w \in Workers : pc[w] = "gone") => wq = <<Exit>>
    BY Zenon DEF PoolInv, ExitInv
  <2>2. wq # << >> => \/ \E w \in Workers : pc[w] \notin {"wait", "gone"}
                      \/ \A w \in Workers : pc[w] = "gone"
    BY Zenon DEF PoolInv, AwakeInv, Awake
  <2> QED BY Zenon, <2>1, <2>2 DEF NotAllAsleep
<1> QED BY <1>1, PoolInductive, PTL

\* When the process has joined its workers no request is left undone.
THEOREM ExitIsClean ==
  ASSUME ~Recancel
  PROVE  Spec => []ExitDrains
<1>1. PoolInv => ExitDrains
  <2> SUFFICES ASSUME PoolInv, lpc = "exited", NEW r \in active
               PROVE  r \in ran \/ work[r] = "cancelled"
    BY Zenon DEF ExitDrains
  <2>1. r \in Reqs /\ r # Exit
    BY Zenon, PoolAssumption DEF PoolInv, CtlInv, TypeOK
  <2>2. \A w \in Workers : pc[w] = "gone"
    BY Zenon, PoolAssumption DEF PoolInv, EndInv, AwakeInv
  <2>3. wq = <<Exit>>
    BY Zenon, <2>2, PoolAssumption DEF PoolInv, ExitInv
  <2>4. r \notin Elems(wq)
    BY <2>1, <2>3 DEF Elems
  <2>5. \A w \in Workers : cur[w] = None
    BY Zenon, <2>2 DEF PoolInv, CtlInv, Held
  <2>6. r \in Elems(loop_wq) \cup Elems(wd) \cup Hand
    BY Zenon, <2>1, <2>4, <2>5, Names DEF PoolInv, PlaceInv, ActiveInv
  <2> QED BY Zenon, <2>6 DEF PoolInv, PlaceInv, BackInv
<1> QED BY <1>1, PoolInductive, PTL

\* uv_cancel succeeds only for a request nobody has run or reported.
THEOREM CancelIsSafe ==
  ASSUME ~Recancel
  PROVE  Spec => CancelFails
<1>1. PoolInv /\ [Next]_vars => [CancelStep]_vars
  <2> SUFFICES ASSUME PoolInv, uv__work_cancel, lpc' = "repost"
               PROVE  /\ target \notin ran /\ done[target] = << >>
                      /\ \A w \in Workers : cur[w] # target
    BY Zenon DEF CancelStep
  <2>1. Cancellable(target) /\ lpc = "cancel" /\ target \in Reqs
    BY Zenon DEF uv__work_cancel, PoolInv, CtlInv, TypeOK, Held
  <2>2. work[target] = "work" /\ target \in linked /\ target \in Elems(wq)
    BY Zenon, <2>1 DEF Cancellable, PoolInv, TargetInv, PlaceInv, ActiveInv
  <2>3. target \in active /\ target \notin ran
    BY Zenon, <2>1, <2>2, PoolAssumption DEF PoolInv, PlaceInv, QueueInv
  <2>4. \A w \in Workers : cur[w] # target
    BY <2>1, <2>2, Names DEF PoolInv, PlaceInv, WorkerInv
  <2> QED BY Zenon, <2>3, <2>4 DEF PoolInv, PlaceInv, ActiveInv
<1> QED BY <1>1, PoolInductive, PTL DEF Spec, CancelFails

-----------------------------------------------------------------------------
(* The refinement.                                                         *)

PhaseMap == [r \in Reqs |-> Phase(r)]

\* A step that moves one request from one phase to the next.
LEMMA PhaseMoves ==
  ASSUME NEW h \in Reqs, NEW from, NEW to, Phase(h) = from, Phase(h)' = to,
         \A r \in Reqs : r # h => Phase(r)' = Phase(r)
  PROVE  PhaseMap[h] = from /\ PhaseMap' = [PhaseMap EXCEPT ![h] = to]
<1>1. PhaseMap' = [r \in Reqs |-> Phase(r)']
  BY Zenon DEF PhaseMap
<1>2. \A r \in Reqs : Phase(r)' = IF r = h THEN to ELSE Phase(r)
  OBVIOUS
<1> HIDE DEF Phase
<1> QED BY Zenon, <1>1, <1>2 DEF PhaseMap

\* A step that changes no phase.
LEMMA PhaseStays ==
  ASSUME \A r \in Reqs : Phase(r)' = Phase(r)
  PROVE  PhaseMap' = PhaseMap
<1>1. PhaseMap' = [r \in Reqs |-> Phase(r)']
  BY Zenon DEF PhaseMap
<1> HIDE DEF Phase
<1> QED BY Zenon, <1>1 DEF PhaseMap

\* The phase depends on these variables only.
LEMMA PhaseFrame ==
  ASSUME UNCHANGED <<done, work, ran, cur>>
  PROVE  PhaseMap' = PhaseMap
<1>1. \A r \in Reqs : Phase(r)' = Phase(r)
  BY Zenon DEF Phase
<1> QED BY Zenon, <1>1, PhaseStays

\* uv_queue_work, Take, Work, uv__work_cancel and NextDone move one request.
LEMMA PhaseQueue ==
  ASSUME PoolInv, NEW h \in Reqs, uv_queue_work(h)
  PROVE  Abstract!Next
<1>1. /\ work[h] = "unset" /\ work'[h] = "work" /\ UNCHANGED <<done, ran, cur>>
      /\ \A r \in Reqs : r # h => work'[r] = work[r]
  BY Zenon DEF uv_queue_work, PoolInv, CtlInv, TypeOK
<1>2. h \notin active
  BY Zenon, <1>1 DEF PoolInv, PlaceInv, ActiveInv
<1>3. done[h] = << >> /\ h \notin ran
  BY Zenon, <1>1, <1>2 DEF PoolInv, PlaceInv, ActiveInv
<1>4. \A w \in Workers : cur[w] # h
  BY <1>2, Names DEF PoolInv, PlaceInv, WorkerInv
<1>5. Phase(h) = "new" /\ Phase(h)' = "queued"
  BY Zenon, <1>1, <1>3, <1>4 DEF Phase
<1>6. \A r \in Reqs : r # h => Phase(r)' = Phase(r)
  BY Zenon, <1>1 DEF Phase
<1>7. PhaseMap[h] = "new" /\ PhaseMap' = [PhaseMap EXCEPT ![h] = "queued"]
  BY Zenon, <1>5, <1>6, PhaseMoves
<1> QED BY Zenon, <1>7 DEF PhaseMap, Abstract!Next, Abstract!Queue, Abstract!Move

\* A worker takes a request, or none.
LEMMA PhaseTake ==
  ASSUME PoolInv, NEW w \in Workers, Take(w)
  PROVE  Abstract!Next \/ PhaseMap' = PhaseMap
<1>1. UNCHANGED <<done, work, ran>> /\ pc[w] = "take"
  BY Zenon DEF Take
<1>2. CASE UNCHANGED cur
  BY Zenon, <1>1, <1>2, PhaseFrame
<1>3. CASE wq # << >> /\ ~ExitFirst /\ cur' = [cur EXCEPT ![w] = Head(wq)]
  <2>1. PICK h \in Reqs : h = Head(wq) /\ h \in Elems(wq)
    BY <1>3, TailFacts DEF ExitFirst, PoolInv, CtlInv, TypeOK
  <2>2. h \in active /\ work[h] = "work" /\ h \notin ran /\ h \in linked
    BY Zenon, <2>1, PoolAssumption DEF PoolInv, PlaceInv, QueueInv
  <2>3. done[h] = << >> /\ \A v \in Workers : cur[v] # h
    <3>1. done[h] = << >>
      BY Zenon, <2>2 DEF PoolInv, PlaceInv, ActiveInv
    <3>2. \A v \in Workers : cur[v] # h
      BY Zenon, <2>2, Names DEF PoolInv, PlaceInv, WorkerInv
    <3> QED
      BY Zenon, <3>1, <3>2
  <2>4. cur[w] = None /\ cur'[w] = h /\ \A v \in Workers : v # w => cur'[v] = cur[v]
    BY Zenon, <1>1, <1>3, <2>1 DEF PoolInv, CtlInv, TypeOK, Held
  <2>5. Phase(h) = "queued" /\ Phase(h)' = "running"
    BY Zenon, <1>1, <2>2, <2>3, <2>4 DEF Phase
  <2>6. ASSUME NEW r \in Reqs, r # h
        PROVE  (\E v \in Workers : cur'[v] = r) <=> (\E v \in Workers : cur[v] = r)
    BY Zenon, <2>4, <2>6, Names
  <2>7. \A r \in Reqs : r # h => Phase(r)' = Phase(r)
    BY Zenon, <1>1, <2>6 DEF Phase
  <2>8. PhaseMap[h] = "queued" /\ PhaseMap' = [PhaseMap EXCEPT ![h] = "running"]
    BY Zenon, <2>1, <2>5, <2>7, PhaseMoves
  <2> QED BY Zenon, <2>1, <2>8 DEF PhaseMap, Abstract!Next, Abstract!Start, Abstract!Move
<1> QED BY Zenon, <1>2, <1>3 DEF Take

\* A worker runs its request.
LEMMA PhaseWork ==
  ASSUME PoolInv, NEW w \in Workers, Work(w)
  PROVE  Abstract!Next
<1>1. PICK h \in Reqs :
        /\ h = cur[w] /\ pc[w] = "work" /\ ran' = ran \cup {h}
        /\ UNCHANGED <<cur, work, done>>
  BY Zenon DEF Work, PoolInv, CtlInv, TypeOK, Held
<1>2. h \in active /\ work[h] = "work" /\ h \notin ran
  BY Zenon, <1>1, Names DEF PoolInv, PlaceInv, WorkerInv
<1>3. done[h] = << >>
  BY Zenon, <1>2 DEF PoolInv, PlaceInv, ActiveInv
<1>4. cur[w] = h
  BY Zenon, <1>1
<1>5. Phase(h) = "running" /\ Phase(h)' = "ran"
  BY Zenon, <1>1, <1>2, <1>3, <1>4 DEF Phase
<1>6. \A r \in Reqs : r # h => Phase(r)' = Phase(r)
  BY Zenon, <1>1 DEF Phase
<1>7. PhaseMap[h] = "running" /\ PhaseMap' = [PhaseMap EXCEPT ![h] = "ran"]
  BY Zenon, <1>1, <1>5, <1>6, PhaseMoves
<1> QED BY Zenon, <1>1, <1>7 DEF PhaseMap, Abstract!Next, Abstract!Finish, Abstract!Move

\* Handing a request back changes no phase.
LEMMA PhasePost ==
  ASSUME PoolInv, NEW w \in Workers, Post(w)
  PROVE  PhaseMap' = PhaseMap
<1>1. PICK h \in Reqs :
        /\ h = cur[w] /\ pc[w] = "post" /\ UNCHANGED <<done, ran>>
        /\ work'[h] = "null" /\ cur'[w] = None
        /\ \A v \in Workers : v # w => cur'[v] = cur[v]
        /\ \A r \in Reqs : r # h => work'[r] = work[r]
  BY DEF Post, Worked, PoolInv, CtlInv, TypeOK, Held
<1>2. h \in active /\ work[h] = "work" /\ h \in ran
  BY Zenon, <1>1, Names DEF PoolInv, PlaceInv, WorkerInv
<1>3. ASSUME NEW r \in Reqs, r # h
      PROVE  (\E v \in Workers : cur'[v] = r) <=> (\E v \in Workers : cur[v] = r)
  BY Zenon, <1>1, <1>3, Names
<1>4. Phase(h)' = Phase(h)
  BY Zenon, <1>1, <1>2 DEF Phase
<1>5. \A r \in Reqs : r # h => Phase(r)' = Phase(r)
  BY Zenon, <1>1, <1>3 DEF Phase
<1> QED BY Zenon, <1>4, <1>5, PhaseStays

\* uv_cancel cancels a queued request, or none.
LEMMA PhaseCancel ==
  ASSUME PoolInv, uv__work_cancel
  PROVE  Abstract!Next \/ PhaseMap' = PhaseMap
<1>1. UNCHANGED <<done, ran, cur>> /\ lpc = "cancel" /\ target \in Reqs
  BY Zenon DEF uv__work_cancel, PoolInv, CtlInv, TypeOK, Held
<1>2. CASE ~Cancellable(target)
  <2>1. UNCHANGED work
    BY Zenon, <1>2 DEF uv__work_cancel
  <2> QED BY Zenon, <1>1, <2>1, PhaseFrame
<1>3. CASE Cancellable(target)
  <2>1. PICK h \in Reqs :
          /\ h = target /\ work'[h] = "cancelled"
          /\ \A r \in Reqs : r # h => work'[r] = work[r]
    BY Zenon, <1>1, <1>3 DEF uv__work_cancel, PoolInv, CtlInv, TypeOK
  <2>2. work[h] = "work" /\ h \in linked /\ h \in Elems(wq)
    BY Zenon, <1>1, <1>3, <2>1 DEF Cancellable, PoolInv, TargetInv, PlaceInv, ActiveInv
  <2>3. h \in active /\ h \notin ran
    BY Zenon, <1>1, <2>2, PoolAssumption DEF PoolInv, PlaceInv, QueueInv
  <2>4. done[h] = << >> /\ \A w \in Workers : cur[w] # h
    <3>1. done[h] = << >>
      BY Zenon, <2>3 DEF PoolInv, PlaceInv, ActiveInv
    <3>2. \A w \in Workers : cur[w] # h
      BY Zenon, <2>2, Names DEF PoolInv, PlaceInv, WorkerInv
    <3> QED
      BY Zenon, <3>1, <3>2
  <2>5. h \in Reqs
    OBVIOUS
  <2>6. Phase(h) = "queued" /\ Phase(h)' = "cancelled"
    BY Zenon, <1>1, <2>1, <2>2, <2>3, <2>4 DEF Phase
  <2>7. \A r \in Reqs : r # h => Phase(r)' = Phase(r)
    BY Zenon, <1>1, <2>1 DEF Phase
  <2>8. PhaseMap[h] = "queued" /\ PhaseMap' = [PhaseMap EXCEPT ![h] = "cancelled"]
    BY Zenon, <2>5, <2>6, <2>7, PhaseMoves
  <2> QED BY Zenon, <2>5, <2>8 DEF PhaseMap, Abstract!Next, Abstract!Cancel, Abstract!Move
<1> QED BY Zenon, <1>2, <1>3

\* uv__work_done reports a request with its outcome.
LEMMA PhaseDone ==
  ASSUME PoolInv, NextDone
  PROVE  Abstract!Next
<1>1. PICK h \in Reqs : h = Head(wd) /\ h \in Elems(wd)
                         /\ UNCHANGED <<work, ran, cur>>
  BY Zenon, TailFacts DEF NextDone, PoolInv, CtlInv, TypeOK
<1>2. h \in active /\ work[h] \in {"null", "cancelled"} /\ (h \in ran <=> work[h] = "null")
  BY Zenon, <1>1 DEF PoolInv, PlaceInv, BackInv
<1>3. done[h] = << >>
  BY Zenon, <1>2 DEF PoolInv, PlaceInv, ActiveInv
<1>4. done'[h] = <<Status(h)>> /\ \A r \in Reqs : r # h => done'[r] = done[r]
  <2>1. done' = [done EXCEPT ![h] = Append(done[h], Status(h))]
        /\ done \in [Reqs -> Seq({"ok", "ECANCELED"})]
    BY Zenon, <1>1 DEF NextDone, PoolInv, CtlInv, TypeOK
  <2>2. Append(<< >>, Status(h)) = <<Status(h)>>
    OBVIOUS
  <2> QED BY Zenon, <2>1, <2>2, <1>1, <1>3
<1>5. \A r \in Reqs : r # h => Phase(r)' = Phase(r)
  BY Zenon, <1>1, <1>4 DEF Phase
<1>6. done'[h] # << >> /\ Head(done'[h]) = Status(h)
  BY <1>4
<1>7. CASE work[h] = "null"
  <2>1. Phase(h) = "ran" /\ Phase(h)' = "ok"
    BY Zenon, <1>1, <1>2, <1>3, <1>6, <1>7 DEF Phase, Status
  <2>2. PhaseMap[h] = "ran" /\ PhaseMap' = [PhaseMap EXCEPT ![h] = "ok"]
    BY Zenon, <1>1, <1>5, <2>1, PhaseMoves
  <2> QED BY Zenon, <1>1, <2>2 DEF PhaseMap, Abstract!Next, Abstract!Report, Abstract!Move
<1>8. CASE work[h] = "cancelled"
  <2>1. Phase(h) = "cancelled" /\ Phase(h)' = "ECANCELED"
    BY Zenon, <1>1, <1>2, <1>3, <1>6, <1>8 DEF Phase, Status
  <2>2. PhaseMap[h] = "cancelled" /\ PhaseMap' = [PhaseMap EXCEPT ![h] = "ECANCELED"]
    BY Zenon, <1>1, <1>5, <2>1, PhaseMoves
  <2> QED BY Zenon, <1>1, <2>2 DEF PhaseMap, Abstract!Next, Abstract!Report, Abstract!Move
<1> QED BY Zenon, <1>2, <1>7, <1>8

\* The pool implements the abstract life of a work request: it is run at most
\* once, never after it was cancelled, and reported once with its outcome.
THEOREM PoolImplements ==
  ASSUME ~Recancel
  PROVE  Spec => Implements
<1>1. Init => Abstract!Init
  <2> SUFFICES ASSUME Init PROVE [r \in Reqs |-> Phase(r)] = [r \in Reqs |-> "new"]
    BY Zenon DEF Abstract!Init
  <2>1. \A r \in Reqs : Phase(r) = "new"
    BY Zenon DEF Init, Phase
  <2> QED BY Zenon, <2>1
<1>2. PoolInv /\ [Next]_vars => [Abstract!Next]_PhaseMap
  <2> SUFFICES ASSUME PoolInv, [Next]_vars
               PROVE  Abstract!Next \/ PhaseMap' = PhaseMap
    BY Zenon DEF PhaseMap
  <2>1. CASE \E w \in Workers : Send(w) \/ Write(w) \/ Spurious(w)
    BY Zenon, <2>1, PhaseFrame DEF Send, Write, Spurious
  <2>2. CASE \/ \E r \in Reqs : uv_cancel(r)
             \/ Repost \/ LoopSend \/ LoopWrite \/ Poll \/ Callback \/ OtherSend
             \/ uv__async_io \/ uv__async_event \/ Split \/ EndDone
             \/ cleanup \/ Join \/ Ended \/ UNCHANGED vars
    BY Zenon, <2>2, PhaseFrame DEF uv_cancel, Repost, LoopSend, LoopWrite, Poll, Callback,
       OtherSend, uv__async_io, uv__async_event, Split, EndDone, cleanup, Join,
       Ended, vars
  <2> QED BY Zenon, <2>1, <2>2, PhaseQueue, PhaseTake, PhaseWork, PhasePost, PhaseCancel,
            PhaseDone DEF Next, WorkerStep, CallStep
<1> QED
  BY <1>1, <1>2, PoolInductive, PTL DEF Spec, Implements, Abstract!Spec, PhaseMap

=============================================================================
