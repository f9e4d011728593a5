------------------------ MODULE UvStreamQueueProofs ------------------------
(***************************************************************************)
(* The inductive invariant of a stream, and what the operations of the     *)
(* write queues do to it, for any number of write requests of any sizes:   *)
(* uv__write, uv_write2, the request that uv_try_write takes back, the     *)
(* callbacks and the flush; and the lists of the steps of a call.          *)
(***************************************************************************)
EXTENDS UvStream, TLAPS

\* A request has some number of bytes.
Instance == Sizes \subseteq [Writes -> Nat] /\ ReadCount \in Nat

Flags == {"READING", "ACTIVE", "PARTIAL", "EOF", "SHUTTING", "SHUT", "CLOSING", "CLOSED"}

StepNames == {"cb", "open", "read", "failed", "ended", "partial", "eof", "write",
              "callbacks", "drain", "flush", "cancel"}

\* The records that writing goes through.
Rec == [queue : Seq(Writes), completed : Seq(Writes), left : [Writes -> Nat],
        error : [Writes -> {"ok", "failed"}], size : Nat,
        pevents : SUBSET {"in", "out"}, fed : BOOLEAN, flags : SUBSET Flags,
        wire : Seq(Writes), dead : BOOLEAN]

TypeInv ==
  /\ bytes \in [Writes -> Nat]
  /\ connect \in {"none", "inprogress", "delayed", "done"}
  /\ Now \in Rec
  /\ todo \in Seq(StepNames)
  /\ count \in Nat
  /\ state \in [Writes -> {"new", "queued", "tried", "done"}]
  /\ asked \in Seq(Writes)
  /\ before \subseteq Writes
  /\ stranded \in BOOLEAN

-----------------------------------------------------------------------------
(* The requests of the two queues, as one sequence.                        *)

Cnt(v) == Len(v.completed) + Len(v.queue)

It(v, k) == IF k <= Len(v.completed) THEN v.completed[k] ELSE v.queue[k - Len(v.completed)]

Once(v) == \A j, k \in 1 .. Cnt(v) : It(v, j) = It(v, k) => j = k

\* P[k]: what the first k requests have left.
Sums(v, P) ==
  /\ P \in [0 .. Cnt(v) -> Nat]
  /\ P[0] = 0 /\ P[Cnt(v)] = v.size
  /\ \A k \in 1 .. Cnt(v) : P[k] = P[k - 1] + v.left[It(v, k)]
  /\ \A j, k \in 0 .. Cnt(v) : j <= k => P[j] <= P[k]

\* The bytes may still be written.
Sending(v) == ~v.dead /\ v.flags \cap {"SHUT", "CLOSING"} = {}

\* What was asked for is on the wire or waits, in this order.
Unsent(v, P, ask) ==
  /\ P[Len(v.completed)] = 0
  /\ Len(ask) = Len(v.wire) + v.size
  /\ \A k \in Len(v.completed) + 1 .. Cnt(v) : \A n \in 1 .. v.left[It(v, k)] :
       ask[Len(v.wire) + P[k - 1] + n] = It(v, k)

Prefix(s, t) == Len(s) <= Len(t) /\ \A k \in 1 .. Len(s) : s[k] = t[k]

Good(v, ask) ==
  /\ Once(v)
  /\ \A k \in 1 .. Len(v.completed) :
       v.error[v.completed[k]] = "ok" => v.left[v.completed[k]] = 0
  /\ Prefix(v.wire, ask)
  /\ \E P : Sums(v, P) /\ (Sending(v) => Unsent(v, P, ask))

\* The requests that are called back later, and those that were.
CallInv ==
  /\ \A r \in Writes : state[r] = "queued" <=> \E k \in 1 .. Cnt(Now) : It(Now, k) = r
  /\ \A r \in Writes : state[r] = "new" => left[r] = bytes[r] /\ error[r] = "ok"
  /\ \A r \in Writes : state[r] = "done" /\ error[r] = "ok" => left[r] = 0
  /\ \A r \in before : state[r] \in {"queued", "done"}

-----------------------------------------------------------------------------
(* The steps of a call from the loop.                                      *)

Among(x, s) == \E k \in 1 .. Len(s) : s[k] = x

In(step) == Among(step, todo)

\* What precedes and follows a step.
Plan(s) ==
  /\ \A k \in 1 .. Len(s) :
       /\ s[k] = "write" /\ k > 1 => s[k - 1] = "open"
       /\ s[k] = "drain" => k = Len(s) /\ (k > 1 => s[k - 1] = "callbacks")
       /\ s[k] = "read" => k = 1 \/ (k = 2 /\ s[1] = "cb")
       /\ s[k] = "flush" => k < Len(s) /\ s[k + 1] = "callbacks"
  /\ ~(Among("ended", s) /\ Among("read", s))

PlanInv ==
  /\ Plan(todo)
  /\ Has("CLOSED") =>
       /\ Has("CLOSING")
       /\ \A k \in 1 .. Len(todo) : todo[k] \in {"cb", "flush", "callbacks", "cancel"}

\* What holds at a step.
AtInv ==
  /\ At("write") => Open
  /\ At("drain") => completed = << >>
  /\ Has("CLOSED") => /\ queue # << >> => In("flush")
                      /\ completed # << >> => In("callbacks")

ConnInv ==
  /\ todo # << >> => connect = "done"
  /\ connect = "none" =>
       /\ pevents = {} /\ ~fed /\ queue = << >> /\ completed = << >>
       /\ flags \subseteq {"CLOSING"}
  /\ connect # "done" => ~dead /\ completed = << >> /\ ~Has("SHUT")
  /\ connect = "inprogress" /\ ~Has("CLOSING") => "out" \in pevents
  /\ connect = "delayed" /\ ~Has("CLOSING") => fed

\* Whatever waits is going to be called for.
StallInv ==
  /\ Has("SHUTTING") => ~Has("SHUT")
  /\ Open =>
       /\ queue # << >> => fed \/ "out" \in pevents \/ In("write") \/ In("flush")
       /\ completed # << >> => fed \/ In("callbacks")
       /\ Has("SHUTTING") /\ ~stranded => fed \/ "out" \in pevents \/ In("drain")
       /\ "in" \in pevents => Has("ACTIVE")
       /\ Has("READING") /\ ~In("ended") => Has("ACTIVE") /\ "in" \in pevents

\* A closing stream waits for nothing, and requests are failed only when none can
\* be sent any more.
ClosingInv ==
  /\ Has("CLOSING") => pevents = {} /\ ~fed /\ ~Has("READING")
  /\ In("flush") => dead \/ Has("CLOSING")

Inv ==
  /\ TypeInv /\ Good(Now, asked) /\ CallInv
  /\ PlanInv /\ AtInv /\ ConnInv /\ StallInv /\ ClosingInv

-----------------------------------------------------------------------------
(* Sequences.                                                              *)

LEMMA AppendIs ==
  ASSUME NEW S, NEW s \in Seq(S), NEW x \in S
  PROVE  /\ Append(s, x) \in Seq(S) /\ Len(Append(s, x)) = Len(s) + 1
         /\ \A k \in 1 .. Len(s) : Append(s, x)[k] = s[k]
         /\ Append(s, x)[Len(s) + 1] = x
  OBVIOUS

LEMMA TailIs ==
  ASSUME NEW S, NEW s \in Seq(S), s # << >>
  PROVE  /\ Tail(s) \in Seq(S) /\ Len(Tail(s)) = Len(s) - 1 /\ Len(s) > 0
         /\ \A k \in 1 .. Len(s) - 1 : Tail(s)[k] = s[k + 1]
         /\ Head(s) = s[1] /\ Head(s) \in S
  OBVIOUS

LEMMA ConcatIs ==
  ASSUME NEW S, NEW s \in Seq(S), NEW t \in Seq(S)
  PROVE  /\ s \o t \in Seq(S) /\ Len(s \o t) = Len(s) + Len(t)
         /\ \A k \in 1 .. Len(s) : (s \o t)[k] = s[k]
         /\ \A k \in 1 .. Len(t) : (s \o t)[Len(s) + k] = t[k]
  OBVIOUS

LEMMA CopiesAre ==
  ASSUME NEW r \in Writes, NEW n \in Nat
  PROVE  /\ Copies(r, n) \in Seq(Writes) /\ Len(Copies(r, n)) = n
         /\ \A k \in 1 .. n : Copies(r, n)[k] = r
  BY DEF Copies

\* A request that is not the last one is left where it is.
LEMMA WithoutIs ==
  ASSUME NEW s \in Seq(Writes), NEW r \in Writes
  PROVE  /\ Without(s, r) \in Seq(Writes)
         /\ s # << >> /\ s[Len(s)] = r => Len(Without(s, r)) = Len(s) - 1
         /\ ~(s # << >> /\ s[Len(s)] = r) => Without(s, r) = s
         /\ \A k \in 1 .. Len(Without(s, r)) : Without(s, r)[k] = s[k]
<1>1. CASE s # << >> /\ s[Len(s)] = r
  <2>1. Len(s) \in Nat /\ Len(s) > 0
    BY <1>1
  <2>2. Without(s, r) = SubSeq(s, 1, Len(s) - 1)
    BY Zenon, <1>1 DEF Without
  <2> DEFINE n == Len(s) - 1
  <2>3. n \in 0 .. Len(s)
    BY <2>1
  <2> HIDE DEF n
  <2>4. /\ SubSeq(s, 1, n) \in Seq(Writes) /\ Len(SubSeq(s, 1, n)) = n
        /\ \A k \in 1 .. n : SubSeq(s, 1, n)[k] = s[k]
    BY <2>3
  <2> QED
    BY Zenon, <1>1, <2>1, <2>2, <2>4 DEF n
<1>2. CASE ~(s # << >> /\ s[Len(s)] = r)
  BY Zenon, <1>2 DEF Without
<1> QED
  BY Zenon, <1>1, <1>2

-----------------------------------------------------------------------------
(* What one write does to the record.                                      *)

LEMMA Fields ==
  ASSUME NEW w \in Rec
  PROVE  /\ w.queue \in Seq(Writes) /\ w.completed \in Seq(Writes)
         /\ w.left \in [Writes -> Nat] /\ w.error \in [Writes -> {"ok", "failed"}]
         /\ w.size \in Nat /\ w.pevents \subseteq {"in", "out"} /\ w.fed \in BOOLEAN
         /\ w.flags \subseteq Flags /\ w.wire \in Seq(Writes) /\ w.dead \in BOOLEAN
         /\ Len(w.queue) \in Nat /\ Len(w.completed) \in Nat /\ Len(w.wire) \in Nat
  BY DEF Rec

LEMMA Lengths ==
  ASSUME NEW w \in Rec
  PROVE  /\ Len(w.queue) \in Nat /\ Len(w.completed) \in Nat /\ Len(w.wire) \in Nat
         /\ \A k \in 1 .. Len(w.queue) : w.queue[k] \in Writes
         /\ \A k \in 1 .. Len(w.completed) : w.completed[k] \in Writes
  BY Fields

\* The last step of a request, whatever became of it.
Moved(w, v) ==
  /\ v.queue = Tail(w.queue) /\ v.completed = Append(w.completed, Head(w.queue))
  /\ v.fed = TRUE

\* v is w with n bytes of the head written.
SentTo(w, v, n) ==
  LET r == Head(w.queue)
  IN  /\ v \in Rec
      /\ v.left = [w.left EXCEPT ![r] = @ - n] /\ v.size = w.size - n
      /\ v.wire = w.wire \o Copies(r, n)
      /\ v.error = w.error /\ v.flags = w.flags /\ v.dead = w.dead
      /\ w.left[r] = n => Moved(w, v) /\ v.pevents = w.pevents
      /\ w.left[r] # n => /\ v.queue = w.queue /\ v.completed = w.completed
                          /\ v.fed = w.fed /\ v.pevents = w.pevents \cup {"out"}

\* v is w with the head failed.
FailedTo(w, v) ==
  /\ v \in Rec /\ Moved(w, v)
  /\ v.error = [w.error EXCEPT ![Head(w.queue)] = "failed"]
  /\ v.left = w.left /\ v.size = w.size /\ v.wire = w.wire
  /\ v.dead = TRUE /\ v.pevents = w.pevents \ {"out"}
  /\ v.flags = IF "in" \in w.pevents THEN w.flags ELSE w.flags \ {"ACTIVE"}

\* v is w, waiting for POLLOUT.
WaitsTo(w, v) ==
  /\ v \in Rec /\ v.pevents = w.pevents \cup {"out"}
  /\ v.queue = w.queue /\ v.completed = w.completed /\ v.left = w.left
  /\ v.error = w.error /\ v.size = w.size /\ v.fed = w.fed /\ v.flags = w.flags
  /\ v.wire = w.wire /\ v.dead = w.dead

\* What uv__write may do to a record whose queue is not empty.
Outcome(w, v) ==
  \/ FailedTo(w, v)
  \/ ~dead /\ ~Has("SHUT") /\ WaitsTo(w, v)
  \/ ~dead /\ ~Has("SHUT") /\ \E n \in 0 .. w.left[Head(w.queue)] : SentTo(w, v, n)

LEMMA WaitsIs ==
  ASSUME NEW w \in Rec
  PROVE  WaitsTo(w, WatchOut(w))
  BY Zenon DEF WaitsTo, WatchOut, Rec

LEMMA FailedIs ==
  ASSUME NEW w \in Rec, w.queue # << >>
  PROVE  FailedTo(w, Failed(w))
<1> DEFINE r == Head(w.queue)
<1>1. /\ Tail(w.queue) \in Seq(Writes) /\ r \in Writes
      /\ Append(w.completed, r) \in Seq(Writes)
  BY Zenon, Fields, TailIs, AppendIs
<1> DEFINE f == uv__write_req_finish(w)
<1>2. /\ f.queue = Tail(w.queue) /\ f.completed = Append(w.completed, r) /\ f.fed = TRUE
      /\ f.left = w.left /\ f.error = w.error /\ f.size = w.size
      /\ f.pevents = w.pevents /\ f.flags = w.flags /\ f.wire = w.wire
      /\ f.dead = w.dead /\ f \in Rec
  BY Zenon, <1>1 DEF uv__write_req_finish, Rec
<1>3. Failed(w) = [f EXCEPT !.error = [f.error EXCEPT ![r] = "failed"], !.dead = TRUE,
                     !.pevents = f.pevents \ {"out"},
                     !.flags = IF "in" \in w.pevents THEN f.flags ELSE f.flags \ {"ACTIVE"}]
  BY Zenon, <1>2 DEF Failed, Rec
<1> HIDE DEF f
<1> DEFINE v == Failed(w)
<1> DEFINE e == [f.error EXCEPT ![r] = "failed"]
           p == f.pevents \ {"out"}
           g == IF "in" \in w.pevents THEN f.flags ELSE f.flags \ {"ACTIVE"}
<1>4. /\ e \in [Writes -> {"ok", "failed"}] /\ p \in SUBSET {"in", "out"}
      /\ g \in SUBSET Flags
  BY Zenon, <1>1, <1>2 DEF Rec
<1>5. v = [f EXCEPT !.error = e, !.dead = TRUE, !.pevents = p, !.flags = g]
  BY Zenon, <1>3
<1> HIDE DEF e, p, g, v, r
<1>6. /\ v \in Rec
      /\ v.queue = f.queue /\ v.completed = f.completed /\ v.fed = f.fed
      /\ v.left = f.left /\ v.size = f.size /\ v.wire = f.wire /\ v.dead = TRUE
      /\ v.pevents = p /\ v.flags = g /\ v.error = e
  BY Zenon, <1>2, <1>4, <1>5 DEF Rec
<1> USE DEF e, p, g, v, r
<1> QED
  BY Zenon, <1>2, <1>6 DEF FailedTo, Moved

LEMMA SentIs ==
  ASSUME NEW w \in Rec, w.queue # << >>,
         NEW n \in 0 .. w.left[Head(w.queue)], n <= w.size
  PROVE  SentTo(w, Sent(w, n), n)
<1> DEFINE r == Head(w.queue)
           l == [w.left EXCEPT ![r] = @ - n]
           u == [w EXCEPT !.left = l, !.size = w.size - n, !.wire = w.wire \o Copies(r, n)]
<1>1. /\ Tail(w.queue) \in Seq(Writes) /\ r \in Writes
      /\ Append(w.completed, r) \in Seq(Writes)
  BY Zenon, Fields, TailIs, AppendIs
<1>2. n \in Nat /\ w.left[r] \in Nat /\ w.left[r] - n \in Nat /\ w.size - n \in Nat
  <2>1. PICK a, s \in Nat : a = w.left[r] /\ s = w.size
    BY Zenon, <1>1, Fields
  <2>2. n \in 0 .. a /\ n <= s
    BY Zenon, <2>1
  <2>3. n \in Nat /\ a - n \in Nat /\ s - n \in Nat
    BY ONLY <2>1, <2>2
  <2> QED
    BY Zenon, <2>1, <2>3
<1>3. w.wire \o Copies(r, n) \in Seq(Writes)
  BY Zenon, <1>1, <1>2, Fields, ConcatIs, CopiesAre
<1>4. l \in [Writes -> Nat] /\ l[r] = w.left[r] - n
  BY Zenon, <1>1, <1>2, Fields
<1>5. /\ u \in Rec /\ u.left = l /\ u.size = w.size - n
      /\ u.wire = w.wire \o Copies(r, n) /\ u.queue = w.queue
      /\ u.completed = w.completed /\ u.error = w.error /\ u.flags = w.flags
      /\ u.dead = w.dead /\ u.fed = w.fed /\ u.pevents = w.pevents
  <2> HIDE DEF l, r
  <2> QED
    BY Zenon, <1>2, <1>3, <1>4 DEF Rec
<1>6. Sent(w, n) = IF u.left[r] = 0 THEN uv__write_req_finish(u) ELSE WatchOut(u)
  BY Zenon DEF Sent, Rec
<1>7. u.left[r] = 0 <=> w.left[r] = n
  BY <1>2, <1>4, <1>5
<1> HIDE DEF u
<1>8. CASE w.left[r] = n
  <2>1. Sent(w, n) = uv__write_req_finish(u)
    BY Zenon, <1>6, <1>7, <1>8
  <2> DEFINE f == uv__write_req_finish(u)
  <2>2. /\ f.queue = Tail(w.queue) /\ f.completed = Append(w.completed, r) /\ f.fed = TRUE
        /\ f.left = u.left /\ f.error = u.error /\ f.size = u.size
        /\ f.pevents = u.pevents /\ f.flags = u.flags /\ f.wire = u.wire
        /\ f.dead = u.dead /\ f \in Rec
    BY Zenon, <1>1, <1>5 DEF uv__write_req_finish, Rec
  <2> QED
    BY Zenon, <1>5, <1>8, <2>1, <2>2 DEF SentTo, Moved
<1>9. CASE w.left[r] # n
  <2>1. Sent(w, n) = WatchOut(u)
    BY Zenon, <1>6, <1>7, <1>9
  <2>2. WaitsTo(u, WatchOut(u))
    BY Zenon, <1>5, WaitsIs
  <2> QED
    BY Zenon, <1>5, <1>9, <2>1, <2>2 DEF SentTo, WaitsTo
<1> QED
  BY Zenon, <1>8, <1>9

LEMMA WriteIs ==
  ASSUME NEW w \in Rec, w.queue # << >>, w.left[Head(w.queue)] <= w.size,
         NEW v \in uv__write(w)
  PROVE  Outcome(w, v)
<1> DEFINE m == w.left[Head(w.queue)]
<1>1. m \in Nat
  BY Zenon, Fields, TailIs
<1>2. CASE v = Failed(w)
  BY Zenon, <1>2, FailedIs DEF Outcome
<1>3. CASE ~dead /\ ~Has("SHUT") /\ v = WatchOut(w)
  BY Zenon, <1>3, WaitsIs DEF Outcome
<1>4. ASSUME NEW n \in 0 .. m, ~dead, ~Has("SHUT"), v = Sent(w, n)
      PROVE  Outcome(w, v)
  <2>1. n <= w.size
    BY <1>1, Fields
  <2>2. SentTo(w, v, n)
    BY Zenon, <1>4, <2>1, SentIs
  <2> QED
    BY Zenon, <1>4, <2>2 DEF Outcome
<1>5. \/ v = Failed(w)
      \/ ~dead /\ ~Has("SHUT") /\ v = WatchOut(w)
      \/ ~dead /\ ~Has("SHUT") /\ \E n \in 0 .. m : v = Sent(w, n)
  BY <1>1 DEF uv__write
<1> QED
  BY Zenon, <1>2, <1>3, <1>4, <1>5

-----------------------------------------------------------------------------
(* Writing keeps the queues good.                                          *)

LEMMA CntIs ==
  ASSUME NEW w \in Rec
  PROVE  \E c, q \in Nat :
           /\ Len(w.completed) = c /\ Len(w.queue) = q /\ Cnt(w) = c + q
           /\ \A k : It(w, k) = IF k <= c THEN w.completed[k] ELSE w.queue[k - c]
           /\ \A k \in 1 .. q : w.queue[k] \in Writes
           /\ \A k \in 1 .. c : w.completed[k] \in Writes
<1>1. Len(w.queue) \in Nat /\ Len(w.completed) \in Nat
  BY Zenon, Lengths
<1>2. /\ Cnt(w) = Len(w.completed) + Len(w.queue)
      /\ \A k : It(w, k) = IF k <= Len(w.completed) THEN w.completed[k]
                           ELSE w.queue[k - Len(w.completed)]
  BY Zenon DEF Cnt, It
<1> QED
  BY Zenon, <1>1, <1>2, Lengths

LEMMA Items ==
  ASSUME NEW w \in Rec
  PROVE  /\ Cnt(w) \in Nat /\ Len(w.completed) <= Cnt(w)
         /\ \A k \in 1 .. Cnt(w) : It(w, k) \in Writes /\ w.left[It(w, k)] \in Nat
         /\ w.queue # << >> => /\ Len(w.completed) + 1 <= Cnt(w)
                               /\ It(w, Len(w.completed) + 1) = Head(w.queue)
         /\ \A k \in 1 .. Len(w.completed) : It(w, k) = w.completed[k]
<1>1. PICK c, q \in Nat :
        /\ Len(w.completed) = c /\ Len(w.queue) = q /\ Cnt(w) = c + q
        /\ \A k : It(w, k) = IF k <= c THEN w.completed[k] ELSE w.queue[k - c]
        /\ \A k \in 1 .. q : w.queue[k] \in Writes
        /\ \A k \in 1 .. c : w.completed[k] \in Writes
  BY Zenon, CntIs
<1>2. Cnt(w) \in Nat /\ c <= Cnt(w)
  BY <1>1
<1>3. ASSUME NEW k \in 1 .. Cnt(w)
      PROVE  It(w, k) \in Writes
  <2>1. CASE k <= c
    BY <1>1, <2>1
  <2>2. CASE k > c
    <3>1. k - c \in 1 .. q /\ It(w, k) = w.queue[k - c]
      BY <1>1, <2>2
    <3> QED
      BY Zenon, <1>1, <3>1
  <2> QED
    BY <1>1, <2>1, <2>2
<1>4. ASSUME w.queue # << >>
      PROVE  c + 1 <= Cnt(w) /\ It(w, c + 1) = Head(w.queue)
  <2>1. q > 0 /\ Head(w.queue) = w.queue[1]
    BY Zenon, <1>1, <1>4, Fields, TailIs
  <2>2. It(w, c + 1) = w.queue[c + 1 - c]
    BY <1>1
  <2> QED
    BY <1>1, <2>1, <2>2
<1>5. \A k \in 1 .. c : It(w, k) = w.completed[k]
  BY <1>1
<1>6. w.left \in [Writes -> Nat]
  BY Zenon, Fields
<1> QED
  BY Zenon, <1>1, <1>2, <1>3, <1>4, <1>5, <1>6

\* Both queues together keep their order when the head completes.
LEMMA MovedKeeps ==
  ASSUME NEW w \in Rec, NEW v \in Rec, w.queue # << >>, Moved(w, v)
  PROVE  /\ Cnt(v) = Cnt(w) /\ Len(v.completed) = Len(w.completed) + 1
         /\ \A k \in 1 .. Cnt(w) : It(v, k) = It(w, k)
         /\ \A k \in 1 .. Len(w.completed) : v.completed[k] = w.completed[k]
         /\ v.completed[Len(w.completed) + 1] = Head(w.queue)
<1>1. PICK c, q \in Nat :
        /\ Len(w.completed) = c /\ Len(w.queue) = q /\ Cnt(w) = c + q
        /\ \A k : It(w, k) = IF k <= c THEN w.completed[k] ELSE w.queue[k - c]
  BY Zenon, CntIs
<1>2. PICK d, p \in Nat :
        /\ Len(v.completed) = d /\ Len(v.queue) = p /\ Cnt(v) = d + p
        /\ \A k : It(v, k) = IF k <= d THEN v.completed[k] ELSE v.queue[k - d]
  BY Zenon, CntIs
<1>3. /\ p = q - 1 /\ q > 0 /\ \A k \in 1 .. q - 1 : v.queue[k] = w.queue[k + 1]
      /\ Head(w.queue) = w.queue[1] /\ Head(w.queue) \in Writes
  <2>1. w.queue \in Seq(Writes) /\ v.queue = Tail(w.queue)
    BY Zenon, Fields DEF Moved
  <2> QED
    BY <1>1, <1>2, <2>1, TailIs
<1>4. /\ d = c + 1 /\ v.completed[c + 1] = Head(w.queue)
      /\ \A k \in 1 .. c : v.completed[k] = w.completed[k]
  <2>1. w.completed \in Seq(Writes) /\ v.completed = Append(w.completed, Head(w.queue))
    BY Zenon, Fields DEF Moved
  <2>2. /\ Len(v.completed) = Len(w.completed) + 1
        /\ v.completed[Len(w.completed) + 1] = Head(w.queue)
        /\ \A k \in 1 .. Len(w.completed) : v.completed[k] = w.completed[k]
    BY <1>3, <2>1, AppendIs
  <2> QED
    BY Zenon, <1>1, <1>2, <2>2
<1>5. ASSUME NEW k \in 1 .. c + q
      PROVE  It(v, k) = It(w, k)
  <2>1. CASE k <= c
    <3>1. k \in 1 .. c /\ k <= d
      BY <1>4, <2>1
    <3>2. It(w, k) = w.completed[k] /\ It(v, k) = v.completed[k]
      BY Zenon, <1>1, <1>2, <2>1, <3>1
    <3> QED
      BY Zenon, <1>4, <3>1, <3>2
  <2>2. CASE k = c + 1
    <3>1. c + 1 - c = 1 /\ ~(c + 1 <= c) /\ c + 1 <= c + 1
      OBVIOUS
    <3>2. It(w, c + 1) = w.queue[1]
      <4>1. It(w, k) = IF k <= c THEN w.completed[k] ELSE w.queue[k - c]
        BY Zenon, <1>1
      <4>2. ~(k <= c) /\ k - c = 1
        BY <2>2
      <4>3. It(w, k) = w.queue[k - c]
        BY Zenon, <4>1, <4>2
      <4> QED
        BY Zenon, <2>2, <4>2, <4>3
    <3>3. It(v, c + 1) = v.completed[c + 1]
      BY Zenon, <1>2, <1>4, <3>1
    <3> QED
      BY Zenon, <1>3, <1>4, <2>2, <3>2, <3>3
  <2>3. CASE k > c + 1
    <3>1. It(v, k) = v.queue[k - (c + 1)] /\ k - (c + 1) \in 1 .. q - 1
      BY <1>2, <1>4, <2>3
    <3>2. It(v, k) = w.queue[k - (c + 1) + 1] /\ k - (c + 1) + 1 = k - c
      BY <1>3, <3>1
    <3> QED
      BY <1>1, <2>3, <3>2
  <2> QED
    BY <2>1, <2>2, <2>3
<1> QED
  BY <1>1, <1>2, <1>3, <1>4, <1>5

\* What the head has left is counted.
LEMMA HeadFits ==
  ASSUME NEW w \in Rec, NEW ask, Good(w, ask), w.queue # << >>
  PROVE  w.left[Head(w.queue)] <= w.size
<1>1. PICK P : Sums(w, P)
  BY Zenon DEF Good
<1> DEFINE c == Len(w.completed)
<1>2. c \in Nat /\ c + 1 \in 1 .. Cnt(w) /\ It(w, c + 1) = Head(w.queue) /\ Cnt(w) \in Nat
  BY Items, Fields
<1>3. P[c + 1] = P[c + 1 - 1] + w.left[Head(w.queue)] /\ P[c + 1] <= P[Cnt(w)]
  BY <1>1, <1>2 DEF Sums
<1>4. P[c + 1] \in Nat /\ P[c + 1 - 1] \in Nat /\ P[Cnt(w)] = w.size
  BY <1>1, <1>2 DEF Sums
<1>5. w.left[Head(w.queue)] \in Nat /\ w.size \in Nat
  BY Zenon, <1>2, Items, Fields
<1>6. PICK a, b, l, s \in Nat : /\ a = P[c + 1] /\ b = P[c + 1 - 1]
                               /\ l = w.left[Head(w.queue)] /\ s = w.size
  BY Zenon, <1>4, <1>5
<1>7. a = b + l /\ a <= s
  BY Zenon, <1>3, <1>4, <1>6
<1>8. l <= s
  BY <1>7
<1> QED
  BY Zenon, <1>6, <1>8

LEMMA ItemFits ==
  ASSUME NEW w \in Rec, NEW ask, Good(w, ask), NEW j \in 1 .. Cnt(w)
  PROVE  w.left[It(w, j)] <= w.size
<1>1. PICK P : Sums(w, P)
  BY Zenon DEF Good
<1>2. Cnt(w) \in Nat
  BY Zenon, Items
<1>3. j \in 0 .. Cnt(w) /\ j - 1 \in 0 .. Cnt(w) /\ Cnt(w) \in 0 .. Cnt(w) /\ j <= Cnt(w)
  BY <1>2
<1>4. P[j] = P[j - 1] + w.left[It(w, j)] /\ P[j] <= P[Cnt(w)] /\ P[Cnt(w)] = w.size
  BY Zenon, <1>1, <1>3 DEF Sums
<1>5. P[j] \in Nat /\ P[j - 1] \in Nat /\ w.left[It(w, j)] \in Nat /\ w.size \in Nat
  BY Zenon, <1>1, <1>3, Items, Fields DEF Sums
<1> QED
  BY <1>4, <1>5

\* Only the other fields change.
LEMMA SameGood ==
  ASSUME NEW w \in Rec, NEW v \in Rec, NEW ask, Good(w, ask),
         v.queue = w.queue, v.completed = w.completed, v.left = w.left,
         v.error = w.error, v.size = w.size, v.wire = w.wire,
         Sending(v) => Sending(w)
  PROVE  Good(v, ask)
<1>1. PICK P : Sums(w, P) /\ (Sending(w) => Unsent(w, P, ask))
  BY Zenon DEF Good
<1>2. Cnt(v) = Cnt(w) /\ \A k : It(v, k) = It(w, k)
  BY Zenon DEF Cnt, It
<1>3. Sums(v, P)
  BY Zenon, <1>1, <1>2 DEF Sums
<1>4. Sending(v) => Unsent(v, P, ask)
  BY Zenon, <1>1, <1>2 DEF Unsent
<1>5. Once(v) /\ Prefix(v.wire, ask)
  BY Zenon, <1>2 DEF Good, Once
<1> QED
  BY Zenon, <1>3, <1>4, <1>5 DEF Good

LEMMA FailedGood ==
  ASSUME NEW w \in Rec, NEW v, NEW ask, Good(w, ask), w.queue # << >>, FailedTo(w, v)
  PROVE  Good(v, ask)
<1>1. PICK P : Sums(w, P)
  BY Zenon DEF Good
<1>2. /\ v \in Rec /\ Moved(w, v) /\ v.left = w.left /\ v.size = w.size
      /\ v.wire = w.wire /\ v.dead
      /\ v.error = [w.error EXCEPT ![Head(w.queue)] = "failed"]
  BY Zenon DEF FailedTo
<1>3. /\ Cnt(v) = Cnt(w) /\ Len(v.completed) = Len(w.completed) + 1
      /\ \A k \in 1 .. Cnt(w) : It(v, k) = It(w, k)
      /\ \A k \in 1 .. Len(w.completed) : v.completed[k] = w.completed[k]
      /\ v.completed[Len(w.completed) + 1] = Head(w.queue)
  BY Zenon, <1>2, MovedKeeps
<1>4. Sums(v, P)
  BY Zenon, <1>1, <1>2, <1>3 DEF Sums
<1>5. ~Sending(v)
  BY Zenon, <1>2 DEF Sending
<1>6. Once(v)
  BY Zenon, <1>3 DEF Once, Good
<1>7. ASSUME NEW k \in 1 .. Len(v.completed), v.error[v.completed[k]] = "ok"
      PROVE  v.left[v.completed[k]] = 0
  <2>1. Head(w.queue) \in Writes
    BY Zenon, Fields, TailIs
  <2>2. k # Len(w.completed) + 1
    BY <1>2, <1>3, <1>7, <2>1, Fields
  <2>3. k \in 1 .. Len(w.completed) /\ v.completed[k] = w.completed[k]
    BY <1>3, <2>2, Fields
  <2>4. w.completed[k] \in Writes
    BY <2>3, Fields
  <2>5. w.error[w.completed[k]] = "ok"
    BY <1>2, <1>7, <2>1, <2>3, <2>4, Fields
  <2> QED
    BY Zenon, <1>2, <2>3, <2>5 DEF Good
<1>8. Prefix(v.wire, ask)
  BY Zenon, <1>2 DEF Good
<1> QED
  BY Zenon, <1>4, <1>5, <1>6, <1>7, <1>8 DEF Good

\* The first request that waits is next on the wire.
LEMMA SentGood ==
  ASSUME NEW w \in Rec, NEW v, NEW ask \in Seq(Writes), Good(w, ask), Sending(w),
         w.queue # << >>, NEW n \in 0 .. w.left[Head(w.queue)], SentTo(w, v, n)
  PROVE  Good(v, ask)
<1>1. PICK P : Sums(w, P) /\ Unsent(w, P, ask)
  BY Zenon DEF Good
<1>2. PICK h \in Writes : h = Head(w.queue)
  BY Zenon, Fields, TailIs
<1>3. PICK c \in Nat : c = Len(w.completed)
  BY Zenon, Fields
<1>4. PICK N \in Nat : N = Cnt(w)
  BY Zenon, Items
<1>5. PICK L \in Nat : L = Len(w.wire)
  BY Zenon, Fields
<1>6. PICK l : l = w.left
  OBVIOUS
<1>7. l \in [Writes -> Nat] /\ n \in Nat /\ l[h] \in Nat /\ n <= l[h]
  BY <1>2, <1>6, Fields
<1>8. /\ c + 1 <= N /\ It(w, c + 1) = h
      /\ \A k \in 1 .. N : It(w, k) \in Writes
      /\ \A k \in 1 .. c : It(w, k) = w.completed[k]
  BY Zenon, <1>2, <1>3, <1>4, Items
<1>9. /\ v \in Rec /\ v.left = [l EXCEPT ![h] = @ - n] /\ v.size = w.size - n
      /\ v.wire = w.wire \o Copies(h, n) /\ v.error = w.error
      /\ l[h] = n => Moved(w, v)
      /\ l[h] # n => v.queue = w.queue /\ v.completed = w.completed
  BY Zenon, <1>2, <1>6 DEF SentTo
<1>10. PICK d \in Nat :
         /\ d = Len(v.completed) /\ d = IF l[h] = n THEN c + 1 ELSE c
         /\ Cnt(v) = N /\ \A k \in 1 .. N : It(v, k) = It(w, k)
         /\ \A k \in 1 .. c : v.completed[k] = w.completed[k]
         /\ d = c + 1 => v.completed[c + 1] = h
  <2>1. CASE l[h] = n
    BY <1>2, <1>3, <1>4, <1>9, <2>1, MovedKeeps
  <2>2. CASE l[h] # n
    <3>1. Cnt(v) = Cnt(w) /\ \A k : It(v, k) = It(w, k)
      BY Zenon, <1>9, <2>2 DEF Cnt, It
    <3> QED
      BY <1>3, <1>4, <1>9, <2>2, <3>1
  <2> QED
    BY Zenon, <2>1, <2>2
<1>11. /\ P \in [0 .. N -> Nat] /\ P[0] = 0 /\ P[N] = w.size /\ P[c] = 0
       /\ \A k \in 1 .. N : P[k] = P[k - 1] + l[It(w, k)]
       /\ \A j, k \in 0 .. N : j <= k => P[j] <= P[k]
  BY Zenon, <1>1, <1>3, <1>4, <1>6 DEF Sums, Unsent
<1>12. /\ Len(ask) = L + w.size
       /\ \A k \in c + 1 .. N : \A m \in 1 .. l[It(w, k)] : ask[L + P[k - 1] + m] = It(w, k)
  BY Zenon, <1>1, <1>3, <1>4, <1>5, <1>6 DEF Unsent
<1>13. \A j, k \in 1 .. N : It(w, j) = It(w, k) => j = k
  BY Zenon, <1>4 DEF Good, Once
<1>14. P[c + 1] = l[h] /\ \A k \in c + 1 .. N : P[k] \in Nat /\ n <= P[k]
  <2>1. c + 1 \in 1 .. N /\ c + 1 - 1 = c /\ c \in 0 .. N /\ c + 1 \in 0 .. N
    BY <1>8
  <2>2. P[c + 1] = l[h]
    BY <1>7, <1>8, <1>11, <2>1
  <2> QED
    BY <1>7, <1>11, <2>1, <2>2
<1>15. \A k \in 0 .. c : P[k] = 0
  <2> SUFFICES ASSUME NEW k \in 0 .. c PROVE P[k] = 0
    OBVIOUS
  <2>1. k \in 0 .. N /\ c \in 0 .. N /\ k <= c
    BY <1>8
  <2>2. P[k] <= P[c] /\ P[k] \in Nat
    BY Zenon, <1>11, <2>1
  <2> QED
    BY <1>11, <2>2
<1>16. /\ v.left[h] = l[h] - n
       /\ \A k \in 1 .. N : k # c + 1 => v.left[It(w, k)] = l[It(w, k)]
  <2>1. \A k \in 1 .. N : k # c + 1 => It(w, k) # h
    BY <1>8, <1>13
  <2> QED
    BY Zenon, <1>7, <1>8, <1>9, <2>1
<1> DEFINE Q == [k \in 0 .. N |-> IF k <= c THEN 0 ELSE P[k] - n]
<1>17. Sums(v, Q)
  <2>1. Q \in [0 .. N -> Nat]
    BY <1>7, <1>14
  <2>2. Q[0] = 0 /\ Q[N] = w.size - n
    BY <1>8, <1>11
  <2>3. ASSUME NEW k \in 1 .. N
        PROVE  Q[k] = Q[k - 1] + v.left[It(w, k)]
    <3>0. k - 1 \in 0 .. N /\ k \in 0 .. N /\ P[k] = P[k - 1] + l[It(w, k)]
      BY <1>11
    <3>1. CASE k <= c
      <4>1. P[k] = 0 /\ P[k - 1] = 0 /\ l[It(w, k)] \in Nat
        BY <1>7, <1>8, <1>15, <3>1
      <4>2. v.left[It(w, k)] = l[It(w, k)]
        BY <1>16, <3>1
      <4> QED
        BY <3>0, <3>1, <4>1, <4>2
    <3>2. CASE k = c + 1
      BY <1>7, <1>8, <1>14, <1>16, <3>0, <3>2
    <3>3. CASE k > c + 1
      <4>1. P[k] \in Nat /\ P[k - 1] \in Nat /\ l[It(w, k)] \in Nat
        BY Zenon, <1>7, <1>8, <1>11, <3>0
      <4>2. v.left[It(w, k)] = l[It(w, k)] /\ ~(k <= c) /\ ~(k - 1 <= c)
        BY <1>16, <3>3
      <4>3. Q[k] = P[k] - n /\ Q[k - 1] = P[k - 1] - n
        BY Zenon, <3>0, <4>2
      <4>4. PICK a, b, m \in Nat : a = P[k] /\ b = P[k - 1] /\ m = l[It(w, k)]
        BY Zenon, <4>1
      <4>5. a = b + m
        BY Zenon, <3>0, <4>4
      <4>6. a - n = (b - n) + m
        BY <1>7, <4>5
      <4> QED
        BY Zenon, <4>2, <4>3, <4>4, <4>6
    <3> QED
      BY <3>1, <3>2, <3>3
  <2>4. ASSUME NEW j \in 0 .. N, NEW k \in 0 .. N, j <= k
        PROVE  Q[j] <= Q[k]
    <3>1. P[j] <= P[k] /\ P[j] \in Nat /\ P[k] \in Nat
      BY Zenon, <1>11, <2>4
    <3>2. Q[k] \in Nat
      BY Zenon, <2>1
    <3> QED
      BY <1>7, <2>4, <3>1, <3>2
  <2> HIDE DEF Q
  <2>5. \A k \in 1 .. N : Q[k] = Q[k - 1] + v.left[It(v, k)]
    BY Zenon, <1>10, <2>3
  <2> QED
    BY Zenon, <1>9, <1>10, <2>1, <2>2, <2>4, <2>5 DEF Sums
<1>18. PICK e : e = Copies(h, n) /\ e \in Seq(Writes) /\ Len(e) = n /\ \A k \in 1 .. n : e[k] = h
  <2>1. /\ Copies(h, n) \in Seq(Writes) /\ Len(Copies(h, n)) = n
        /\ \A k \in 1 .. n : Copies(h, n)[k] = h
    BY Zenon, <1>7, CopiesAre
  <2> QED
    BY Zenon, <2>1
<1>19. /\ Len(v.wire) = L + n /\ \A k \in 1 .. L : v.wire[k] = w.wire[k]
       /\ \A k \in 1 .. n : v.wire[L + k] = h
  <2>1. w.wire \in Seq(Writes) /\ v.wire = w.wire \o e /\ e \in Seq(Writes)
    BY Zenon, <1>9, <1>18, Fields
  <2>2. /\ Len(v.wire) = Len(w.wire) + Len(e) /\ \A k \in 1 .. Len(w.wire) : v.wire[k] = w.wire[k]
        /\ \A k \in 1 .. Len(e) : v.wire[Len(w.wire) + k] = e[k]
    BY <2>1, ConcatIs
  <2> QED
    BY Zenon, <1>5, <1>18, <2>2
<1>20. Unsent(v, Q, ask)
  <2>1. Q[d] = 0
    <3>1. d \in 0 .. N /\ (d = c \/ (d = c + 1 /\ l[h] = n))
      BY <1>8, <1>10
    <3> QED
      BY <1>7, <1>14, <3>1
  <2>2. Len(ask) = L + n + (w.size - n)
    BY <1>7, <1>12, Fields
  <2>3. ASSUME NEW k \in d + 1 .. N, NEW m \in 1 .. v.left[It(w, k)]
        PROVE  ask[L + n + Q[k - 1] + m] = It(w, k)
    <3>0. k \in c + 1 .. N /\ k \in 1 .. N /\ k - 1 \in 0 .. N
      BY <1>10
    <3>1. CASE k = c + 1
      <4>1. l[h] - n \in Nat /\ m \in 1 .. l[h] - n
        BY <1>7, <1>8, <1>16, <3>1
      <4>2. n + m \in 1 .. l[It(w, k)]
        BY <1>7, <1>8, <3>1, <4>1
      <4>3. ask[L + P[k - 1] + (n + m)] = It(w, k)
        BY Zenon, <1>12, <3>0, <4>2
      <4>4. P[k - 1] = 0 /\ Q[k - 1] = 0
        BY <1>11, <3>0, <3>1
      <4>5. L + P[k - 1] + (n + m) = L + n + Q[k - 1] + m
        BY <1>7, <4>1, <4>4
      <4> QED
        BY Zenon, <4>3, <4>5
    <3>2. CASE k # c + 1
      <4>1. m \in 1 .. l[It(w, k)] /\ l[It(w, k)] \in Nat
        BY Zenon, <1>7, <1>8, <1>16, <3>0, <3>2
      <4>2. ask[L + P[k - 1] + m] = It(w, k)
        BY Zenon, <1>12, <3>0, <4>1
      <4>3. P[k - 1] \in Nat /\ Q[k - 1] = P[k - 1] - n
        BY <1>11, <3>0, <3>2
      <4>4. L + P[k - 1] + m = L + n + Q[k - 1] + m
        BY <1>7, <4>1, <4>3
      <4> QED
        BY Zenon, <4>2, <4>4
    <3> QED
      BY Zenon, <3>1, <3>2
  <2> HIDE DEF Q
  <2>4. \A k \in d + 1 .. N : \A m \in 1 .. v.left[It(v, k)] :
           ask[L + n + Q[k - 1] + m] = It(v, k)
    <3> SUFFICES ASSUME NEW k \in d + 1 .. N
                 PROVE  \A m \in 1 .. v.left[It(v, k)] : ask[L + n + Q[k - 1] + m] = It(v, k)
      OBVIOUS
    <3>1. It(v, k) = It(w, k)
      BY <1>10
    <3> QED
      BY Zenon, <2>3, <3>1
  <2> QED
    BY <1>9, <1>10, <1>19, <2>1, <2>2, <2>4 DEF Unsent
<1>21. Prefix(v.wire, ask)
  <2>1. L + n <= Len(ask)
    <3>1. n <= P[N] /\ P[N] = w.size /\ w.size \in Nat
      BY <1>8, <1>11, <1>14, Fields
    <3> QED
      BY <1>7, <1>12, <3>1
  <2>2. \A k \in 1 .. L : w.wire[k] = ask[k]
    BY Zenon, <1>5 DEF Good, Prefix
  <2>3. ASSUME NEW k \in 1 .. n
        PROVE  v.wire[L + k] = ask[L + k]
    <3>1. PICK i \in c + 1 .. N : i = c + 1 /\ i - 1 = c
      BY <1>8
    <3>2. k \in 1 .. l[h]
      BY <1>7
    <3>3. k \in 1 .. l[It(w, i)] /\ It(w, i) = h /\ P[i - 1] = 0
      BY Zenon, <1>8, <1>11, <3>1, <3>2
    <3>4. ask[L + P[i - 1] + k] = h
      BY Zenon, <1>12, <3>3
    <3>5. L + P[i - 1] + k = L + k
      BY <3>3
    <3>6. v.wire[L + k] = h
      BY Zenon, <1>19
    <3> QED
      BY Zenon, <3>4, <3>5, <3>6
  <2>4. ASSUME NEW k \in 1 .. L + n
        PROVE  v.wire[k] = ask[k]
    <3>1. CASE k <= L
      BY <1>7, <1>19, <2>2, <3>1
    <3>2. CASE k > L
      <4>1. k - L \in 1 .. n /\ L + (k - L) = k
        BY <1>7, <3>2
      <4> QED
        BY Zenon, <2>3, <4>1
    <3> QED
      BY <3>1, <3>2
  <2> QED
    BY Zenon, <1>19, <2>1, <2>4 DEF Prefix
<1>22. Once(v)
  BY Zenon, <1>10, <1>13 DEF Once
<1>23. ASSUME NEW k \in 1 .. Len(v.completed), v.error[v.completed[k]] = "ok"
       PROVE  v.left[v.completed[k]] = 0
  <2>1. CASE k \in 1 .. c
    <3>1. v.completed[k] = w.completed[k] /\ w.completed[k] = It(w, k) /\ k \in 1 .. N /\ k # c + 1
      BY <1>8, <1>10, <2>1
    <3>2. l[w.completed[k]] = 0
      BY Zenon, <1>3, <1>6, <1>9, <1>23, <2>1, <3>1 DEF Good
    <3> QED
      BY Zenon, <1>16, <3>1, <3>2
  <2>2. CASE k \notin 1 .. c
    <3>1. k = c + 1 /\ d = c + 1 /\ l[h] = n
      BY <1>10, <2>2
    <3> QED
      BY <1>7, <1>10, <1>16, <3>1
  <2> QED
    BY Zenon, <2>1, <2>2
<1> HIDE DEF Q
<1> QED
  BY Zenon, <1>17, <1>20, <1>21, <1>22, <1>23 DEF Good

\* What a write leaves as it is: the requests of the queues, and those of others.
SameItems(w, v) ==
  /\ Cnt(v) = Cnt(w) /\ \A k \in 1 .. Cnt(w) : It(v, k) = It(w, k)
  /\ \A r \in Writes : (\A k \in 1 .. Cnt(w) : It(w, k) # r) =>
       v.left[r] = w.left[r] /\ v.error[r] = w.error[r]
  /\ \A r \in Writes : v.left[r] <= w.left[r]
  /\ v.wire = w.wire \/ Sending(v)
  /\ Len(v.queue) <= Len(w.queue)

\* What a write leaves to be called for.
CalledFor(w, v) ==
  /\ v.queue # << >> => v.fed \/ "out" \in v.pevents
  /\ v.completed # << >> => w.completed # << >> \/ v.fed
  /\ w.fed => v.fed
  /\ w.dead => v.dead
  /\ "out" \in w.pevents => "out" \in v.pevents \/ v.fed
  /\ "in" \in v.pevents <=> "in" \in w.pevents
  /\ v.flags \subseteq w.flags /\ w.flags \ v.flags \subseteq {"ACTIVE"}
  /\ "in" \in w.pevents => v.flags = w.flags

\* The connection still allows to write.
AsNow(w) == w.dead = dead /\ w.flags = flags /\ ~Has("CLOSING")

LEMMA OutcomeGood ==
  ASSUME NEW w \in Rec, NEW v, NEW ask \in Seq(Writes), Good(w, ask), w.queue # << >>,
         Outcome(w, v), AsNow(w)
  PROVE  v \in Rec /\ Good(v, ask)
<1>1. CASE FailedTo(w, v)
  BY Zenon, <1>1, FailedGood DEF FailedTo
<1>2. CASE ~dead /\ ~Has("SHUT") /\ WaitsTo(w, v)
  <2>1. Sending(v) => Sending(w)
    BY Zenon, <1>2 DEF WaitsTo, Sending
  <2> QED
    BY Zenon, <1>2, <2>1, SameGood DEF WaitsTo
<1>3. ASSUME NEW n \in 0 .. w.left[Head(w.queue)], ~dead, ~Has("SHUT"), SentTo(w, v, n)
      PROVE  v \in Rec /\ Good(v, ask)
  <2>1. Sending(w)
    BY Zenon, <1>3 DEF AsNow, Has, Sending
  <2>2. v \in Rec
    BY Zenon, <1>3 DEF SentTo
  <2> QED
    BY Zenon, <1>3, <2>1, <2>2, SentGood
<1> QED
  BY Zenon, <1>1, <1>2, <1>3 DEF Outcome

LEMMA OutcomeItems ==
  ASSUME NEW w \in Rec, NEW v \in Rec, w.queue # << >>, Outcome(w, v), AsNow(w)
  PROVE  SameItems(w, v)
<1>0. /\ Head(w.queue) \in Writes /\ Len(w.completed) \in Nat /\ Cnt(w) \in Nat
      /\ w.left \in [Writes -> Nat] /\ w.error \in [Writes -> {"ok", "failed"}]
  BY Zenon, Fields, TailIs, Items
<1>1. PICK c \in 1 .. Cnt(w) : It(w, c) = Head(w.queue)
  BY <1>0, Items
<1>2. ASSUME Moved(w, v) \/ (v.queue = w.queue /\ v.completed = w.completed)
      PROVE  /\ Cnt(v) = Cnt(w) /\ \A k \in 1 .. Cnt(w) : It(v, k) = It(w, k)
             /\ Len(v.queue) <= Len(w.queue)
  <2>0. w.queue \in Seq(Writes) /\ Len(w.queue) \in Nat
    BY Zenon, Fields
  <2>1. CASE Moved(w, v)
    <3>1. Len(v.queue) = Len(w.queue) - 1
      BY Zenon, <2>0, <2>1, TailIs DEF Moved
    <3> QED
      BY <2>0, <2>1, <3>1, MovedKeeps
  <2>2. CASE v.queue = w.queue /\ v.completed = w.completed
    BY <2>0, <2>2 DEF Cnt, It
  <2> QED
    BY Zenon, <1>2, <2>1, <2>2
<1>3. CASE FailedTo(w, v)
  <2>1. /\ v.error = [w.error EXCEPT ![Head(w.queue)] = "failed"] /\ v.left = w.left
        /\ v.wire = w.wire /\ Moved(w, v)
    BY Zenon, <1>3 DEF FailedTo
  <2> QED
    BY <1>0, <1>1, <1>2, <2>1 DEF SameItems
<1>4. CASE WaitsTo(w, v)
  <2>1. /\ v.error = w.error /\ v.left = w.left /\ v.wire = w.wire
        /\ v.queue = w.queue /\ v.completed = w.completed
    BY Zenon, <1>4 DEF WaitsTo
  <2> QED
    BY <1>0, <1>2, <2>1 DEF SameItems
<1>5. ASSUME NEW n \in 0 .. w.left[Head(w.queue)], ~dead, ~Has("SHUT"), SentTo(w, v, n)
      PROVE  SameItems(w, v)
  <2>1. /\ v.left = [w.left EXCEPT ![Head(w.queue)] = @ - n] /\ v.error = w.error
        /\ v.flags = w.flags /\ v.dead = w.dead
        /\ Moved(w, v) \/ (v.queue = w.queue /\ v.completed = w.completed)
    BY Zenon, <1>5 DEF SentTo
  <2>2. Sending(v)
    BY Zenon, <1>5, <2>1 DEF AsNow, Has, Sending
  <2>3. n \in Nat /\ w.left[Head(w.queue)] \in Nat
    BY <1>0
  <2>4. \A r \in Writes : v.left[r] <= w.left[r] /\ (r # Head(w.queue) => v.left[r] = w.left[r])
    BY <1>0, <2>1, <2>3
  <2> QED
    BY Zenon, <1>1, <1>2, <2>1, <2>2, <2>4 DEF SameItems
<1> QED
  BY Zenon, <1>3, <1>4, <1>5 DEF Outcome

LEMMA OutcomeCalled ==
  ASSUME NEW w \in Rec, NEW v \in Rec, w.queue # << >>, Outcome(w, v)
  PROVE  CalledFor(w, v)
<1>1. CASE FailedTo(w, v)
  BY Zenon, <1>1 DEF FailedTo, Moved, CalledFor
<1>2. CASE WaitsTo(w, v)
  BY Zenon, <1>2 DEF WaitsTo, CalledFor
<1>3. ASSUME NEW n \in 0 .. w.left[Head(w.queue)], SentTo(w, v, n)
      PROVE  CalledFor(w, v)
  BY Zenon, <1>3 DEF SentTo, Moved, CalledFor
<1> QED
  BY Zenon, <1>1, <1>2, <1>3 DEF Outcome

\* uv__write, in whichever state of the queues.
LEMMA WriteKeeps ==
  ASSUME NEW w \in Rec, NEW ask \in Seq(Writes), Good(w, ask), AsNow(w),
         NEW v \in uv__write(w)
  PROVE  v \in Rec /\ Good(v, ask) /\ SameItems(w, v) /\ CalledFor(w, v)
<1>1. CASE w.queue = << >>
  <2>1. v = w
    BY Zenon, <1>1 DEF uv__write
  <2>2. Len(w.queue) <= Len(w.queue) /\ \A r \in Writes : w.left[r] <= w.left[r]
    BY Fields
  <2> QED
    BY Zenon, <1>1, <2>1, <2>2 DEF SameItems, CalledFor
<1>2. CASE w.queue # << >>
  <2>1. Outcome(w, v)
    BY Zenon, <1>2, HeadFits, WriteIs
  <2>2. v \in Rec /\ Good(v, ask)
    BY Zenon, <1>2, <2>1, OutcomeGood
  <2> QED
    BY Zenon, <1>2, <2>1, <2>2, OutcomeItems, OutcomeCalled
<1> QED
  BY Zenon, <1>1, <1>2

-----------------------------------------------------------------------------
(* A request enters the queue, is taken back or called back, or is failed. *)

\* u is w with r at the end of the queue.
Enters(w, u, r) ==
  /\ u.queue = Append(w.queue, r) /\ u.size = w.size + bytes[r]
  /\ u.completed = w.completed /\ u.left = w.left /\ u.error = w.error
  /\ u.wire = w.wire /\ u.flags = w.flags /\ u.dead = w.dead

LEMMA EntersItems ==
  ASSUME NEW w \in Rec, NEW u \in Rec, NEW r \in Writes, Enters(w, u, r)
  PROVE  /\ Cnt(u) = Cnt(w) + 1 /\ It(u, Cnt(w) + 1) = r
         /\ \A k \in 1 .. Cnt(w) : It(u, k) = It(w, k)
<1>1. PICK c, q \in Nat :
        /\ Len(w.completed) = c /\ Len(w.queue) = q /\ Cnt(w) = c + q
        /\ \A k : It(w, k) = IF k <= c THEN w.completed[k] ELSE w.queue[k - c]
  BY Zenon, CntIs
<1>2. PICK d, p \in Nat :
        /\ Len(u.completed) = d /\ Len(u.queue) = p /\ Cnt(u) = d + p
        /\ \A k : It(u, k) = IF k <= d THEN u.completed[k] ELSE u.queue[k - d]
  BY Zenon, CntIs
<1>3. d = c /\ u.completed = w.completed
  BY Zenon, <1>1, <1>2 DEF Enters
<1>4. w.queue \in Seq(Writes) /\ u.queue = Append(w.queue, r)
  BY Zenon, Fields DEF Enters
<1>5. /\ Len(u.queue) = Len(w.queue) + 1 /\ u.queue[Len(w.queue) + 1] = r
      /\ \A k \in 1 .. Len(w.queue) : u.queue[k] = w.queue[k]
  BY <1>4, AppendIs
<1>6. p = q + 1 /\ u.queue[q + 1] = r /\ \A k \in 1 .. q : u.queue[k] = w.queue[k]
  BY Zenon, <1>1, <1>2, <1>5
<1>7. It(u, c + q + 1) = r
  <2>1. It(u, c + q + 1) = u.queue[c + q + 1 - c] /\ c + q + 1 - c = q + 1
    BY <1>2, <1>3
  <2> QED
    BY Zenon, <1>6, <2>1
<1>8. ASSUME NEW k \in 1 .. c + q
      PROVE  It(u, k) = It(w, k)
  <2>1. CASE k <= c
    BY Zenon, <1>1, <1>2, <1>3, <2>1
  <2>2. CASE k > c
    <3>1. k - c \in 1 .. q /\ It(u, k) = u.queue[k - c] /\ It(w, k) = w.queue[k - c]
      BY <1>1, <1>2, <1>3, <2>2
    <3> QED
      BY Zenon, <1>6, <3>1
  <2> QED
    BY <2>1, <2>2
<1> QED
  BY <1>1, <1>2, <1>3, <1>6, <1>7, <1>8

LEMMA EntersGood ==
  ASSUME NEW w \in Rec, NEW u \in Rec, NEW r \in Writes, NEW ask \in Seq(Writes),
         Good(w, ask), Enters(w, u, r), w.left[r] = bytes[r],
         \A k \in 1 .. Cnt(w) : It(w, k) # r
  PROVE  Good(u, ask \o Copies(r, bytes[r]))
<1>1. PICK P : Sums(w, P) /\ (Sending(w) => Unsent(w, P, ask))
  BY Zenon DEF Good
<1>2. PICK N \in Nat : N = Cnt(w)
  BY Zenon, Items
<1>3. PICK b \in Nat : b = bytes[r]
  BY Zenon, Fields
<1>4. PICK c \in Nat : c = Len(w.completed) /\ c <= N
  BY Zenon, <1>2, Items, Fields
<1>5. PICK L \in Nat : L = Len(w.wire)
  BY Zenon, Fields
<1>6. /\ Cnt(u) = N + 1 /\ It(u, N + 1) = r /\ \A k \in 1 .. N : It(u, k) = It(w, k)
      /\ \A k \in 1 .. N : It(w, k) \in Writes /\ It(w, k) # r
  BY Zenon, <1>2, EntersItems, Items
<1>7. /\ u.left = w.left /\ u.error = w.error /\ u.completed = w.completed
      /\ u.wire = w.wire /\ u.size = w.size + b /\ (Sending(u) <=> Sending(w))
      /\ u.left[r] = b /\ w.size \in Nat
  BY Zenon, <1>3, Fields DEF Enters, Sending
<1>8. /\ P \in [0 .. N -> Nat] /\ P[0] = 0 /\ P[N] = w.size
      /\ \A k \in 1 .. N : P[k] = P[k - 1] + w.left[It(w, k)]
      /\ \A j, k \in 0 .. N : j <= k => P[j] <= P[k]
  BY Zenon, <1>1, <1>2 DEF Sums
<1> DEFINE Q == [k \in 0 .. N + 1 |-> IF k <= N THEN P[k] ELSE w.size + b]
           asks == ask \o Copies(r, b)
<1>9. Q[N + 1] = w.size + b /\ \A k \in 0 .. N : Q[k] = P[k]
  BY <1>8
<1>10. Q \in [0 .. N + 1 -> Nat]
  BY <1>7, <1>8
<1> HIDE DEF Q
<1>11. Sums(u, Q)
  <2>1. ASSUME NEW k \in 1 .. N + 1
        PROVE  Q[k] = Q[k - 1] + u.left[It(u, k)]
    <3>1. CASE k <= N
      <4>1. k \in 1 .. N /\ k \in 0 .. N /\ k - 1 \in 0 .. N
        BY <3>1
      <4>2. P[k] = P[k - 1] + w.left[It(w, k)]
        BY Zenon, <1>8, <4>1
      <4> QED
        BY Zenon, <1>6, <1>7, <1>9, <4>1, <4>2
    <3>2. CASE k = N + 1
      BY <1>6, <1>7, <1>8, <1>9, <3>2
    <3> QED
      BY <3>1, <3>2
  <2>2. ASSUME NEW j \in 0 .. N + 1, NEW k \in 0 .. N + 1, j <= k
        PROVE  Q[j] <= Q[k]
    <3>1. CASE k <= N
      <4>1. j \in 0 .. N /\ k \in 0 .. N
        BY <2>2, <3>1
      <4>2. P[j] <= P[k]
        BY Zenon, <1>8, <2>2, <4>1
      <4> QED
        BY Zenon, <1>9, <4>1, <4>2
    <3>2. CASE k = N + 1 /\ j <= N
      <4>1. j \in 0 .. N /\ N \in 0 .. N /\ j <= N
        BY <3>2
      <4>2. P[j] <= P[N] /\ P[j] \in Nat /\ P[N] = w.size
        BY Zenon, <1>8, <4>1
      <4>3. Q[j] = P[j] /\ Q[k] = w.size + b
        BY Zenon, <1>9, <3>2, <4>1
      <4> QED
        BY <1>7, <4>2, <4>3
    <3>3. CASE k = N + 1 /\ j = N + 1
      BY <1>7, <1>9, <3>3
    <3> QED
      BY <2>2, <3>1, <3>2, <3>3
  <2>3. Q[0] = 0
    BY <1>8, <1>9
  <2> QED
    BY Zenon, <1>6, <1>7, <1>9, <1>10, <2>1, <2>2, <2>3 DEF Sums
<1>12. /\ Len(asks) = Len(ask) + b /\ \A k \in 1 .. Len(ask) : asks[k] = ask[k]
       /\ \A k \in 1 .. b : asks[Len(ask) + k] = r
  <2>1. /\ Copies(r, b) \in Seq(Writes) /\ Len(Copies(r, b)) = b
        /\ \A k \in 1 .. b : Copies(r, b)[k] = r
    BY Zenon, CopiesAre
  <2>2. Copies(r, b) \in Seq(Writes)
    BY Zenon, <2>1
  <2>3. /\ Len(asks) = Len(ask) + Len(Copies(r, b)) /\ \A k \in 1 .. Len(ask) : asks[k] = ask[k]
        /\ \A k \in 1 .. Len(Copies(r, b)) : asks[Len(ask) + k] = Copies(r, b)[k]
    BY <2>2, ConcatIs
  <2> QED
    BY Zenon, <2>1, <2>3
<1> HIDE DEF asks
<1>13. ASSUME Sending(u)
       PROVE  Unsent(u, Q, asks)
  <2>1. /\ P[c] = 0 /\ Len(ask) = L + w.size
        /\ \A k \in c + 1 .. N : \A n \in 1 .. w.left[It(w, k)] :
             ask[L + P[k - 1] + n] = It(w, k)
    BY Zenon, <1>1, <1>2, <1>4, <1>5, <1>7, <1>13 DEF Unsent
  <2>2. ASSUME NEW k \in c + 1 .. N + 1, NEW n \in 1 .. w.left[It(u, k)]
        PROVE  asks[L + Q[k - 1] + n] = It(u, k)
    <3>1. CASE k <= N
      <4>1. /\ k \in c + 1 .. N /\ k - 1 \in 0 .. N /\ k \in 1 .. N /\ k \in 0 .. N
            /\ It(u, k) = It(w, k) /\ Q[k - 1] = P[k - 1]
        BY <1>6, <1>9, <3>1
      <4>2. /\ P[k] = P[k - 1] + w.left[It(w, k)] /\ P[k] <= w.size
            /\ P[k - 1] \in Nat /\ P[k] \in Nat
        BY <1>8, <4>1
      <4>3. w.left[It(w, k)] \in Nat /\ n \in 1 .. w.left[It(w, k)]
        BY Zenon, <1>6, <4>1, Fields
      <4>4. ask[L + P[k - 1] + n] = It(w, k)
        BY Zenon, <2>1, <4>1, <4>3
      <4>5. L + P[k - 1] + n \in 1 .. Len(ask)
        <5>1. Len(ask) = L + w.size /\ n >= 1 /\ n <= w.left[It(w, k)] /\ n \in Nat
          BY <2>1, <4>3
        <5>2. PICK m, i \in Nat : m = P[k - 1] /\ i = w.left[It(w, k)]
          BY Zenon, <4>2, <4>3
        <5>3. m + i <= w.size
          BY Zenon, <4>2, <5>2
        <5>4. n >= 1 /\ n <= i /\ n \in Nat
          BY Zenon, <5>1, <5>2
        <5>5. L + m + n \in 1 .. L + w.size
          BY <1>7, <5>3, <5>4
        <5> QED
          BY Zenon, <5>1, <5>2, <5>5
      <4> QED
        BY Zenon, <1>12, <4>1, <4>4, <4>5
    <3>2. CASE k = N + 1
      <4>1. It(u, k) = r /\ n \in 1 .. b /\ Q[k - 1] = w.size
        BY <1>6, <1>7, <1>8, <1>9, <3>2
      <4> QED
        BY Zenon, <1>12, <2>1, <4>1
    <3> QED
      BY <3>1, <3>2
  <2>3. Q[c] = 0 /\ Len(asks) = L + (w.size + b)
    <3>1. Q[c] = 0
      BY <1>4, <1>9, <2>1
    <3>2. Len(asks) = L + w.size + b
      BY Zenon, <1>12, <2>1
    <3>3. L + w.size + b = L + (w.size + b)
      BY <1>7
    <3> QED
      BY Zenon, <3>1, <3>2, <3>3
  <2> QED
    BY <1>4, <1>5, <1>6, <1>7, <2>2, <2>3 DEF Unsent
<1>14. Once(u)
  <2>1. \A j, k \in 1 .. N : It(w, j) = It(w, k) => j = k
    BY Zenon, <1>2 DEF Good, Once
  <2> QED
    BY <1>6, <2>1 DEF Once
<1>15. Prefix(u.wire, asks)
  <2>1. Len(ask) \in Nat /\ L <= Len(ask) /\ \A k \in 1 .. L : w.wire[k] = ask[k]
    BY <1>5 DEF Good, Prefix
  <2> QED
    BY <1>5, <1>7, <1>12, <2>1 DEF Prefix
<1>16. Good(u, asks)
  BY Zenon, <1>7, <1>11, <1>13, <1>14, <1>15 DEF Good
<1> QED
  BY Zenon, <1>3, <1>16 DEF asks

\* t is v without its last request, r.
Leaves(v, t, r) ==
  /\ t \in Rec /\ Cnt(t) = Cnt(v) - 1 /\ \A k \in 1 .. Cnt(v) - 1 : It(t, k) = It(v, k)
  /\ Len(t.completed) <= Len(v.completed)
  /\ \A k \in 1 .. Len(t.completed) : t.completed[k] = v.completed[k]
  /\ t.left = v.left /\ t.error = v.error /\ t.wire = v.wire /\ t.dead = v.dead
  /\ t.flags = v.flags /\ t.fed = v.fed /\ t.size = v.size - v.left[r]
  /\ t.queue # << >> => Len(v.queue) > 1
  /\ t.completed # << >> => v.completed # << >>
  /\ t.pevents = IF "out" \in pevents THEN v.pevents ELSE v.pevents \ {"out"}

LEMMA TakenBackIs ==
  ASSUME NEW v \in Rec, NEW r \in Writes, Once(v), Cnt(v) >= 1, It(v, Cnt(v)) = r,
         v.left[r] <= v.size
  PROVE  Leaves(v, TakenBack(v, r), r)
<1> DEFINE t == TakenBack(v, r)
           wq == Without(v.queue, r)
           wc == Without(v.completed, r)
           pe == IF "out" \in pevents THEN v.pevents ELSE v.pevents \ {"out"}
           sz == v.size - v.left[r]
<1>0. /\ v.queue \in Seq(Writes) /\ v.completed \in Seq(Writes)
      /\ pe \in SUBSET {"in", "out"} /\ sz \in Nat
  BY Fields
<1>1. /\ wq \in Seq(Writes) /\ wc \in Seq(Writes)
      /\ \A k \in 1 .. Len(wq) : wq[k] = v.queue[k]
      /\ \A k \in 1 .. Len(wc) : wc[k] = v.completed[k]
  BY Zenon, <1>0, WithoutIs
<1>2. t = [v EXCEPT !.queue = wq, !.completed = wc, !.size = sz, !.pevents = pe]
  BY Zenon DEF TakenBack, Rec
<1>3. /\ t \in Rec /\ t.queue = wq /\ t.completed = wc /\ t.size = sz /\ t.pevents = pe
      /\ t.left = v.left /\ t.error = v.error /\ t.wire = v.wire /\ t.dead = v.dead
      /\ t.flags = v.flags /\ t.fed = v.fed
  <2> HIDE DEF wq, wc, sz, pe, t
  <2> QED
    BY Zenon, <1>0, <1>1, <1>2 DEF Rec
<1>4. PICK c, q \in Nat :
        /\ Len(v.completed) = c /\ Len(v.queue) = q /\ Cnt(v) = c + q
        /\ \A k : It(v, k) = IF k <= c THEN v.completed[k] ELSE v.queue[k - c]
  BY Zenon, CntIs
<1>5. PICK d, p \in Nat :
        /\ Len(t.completed) = d /\ Len(t.queue) = p /\ Cnt(t) = d + p
        /\ \A k : It(t, k) = IF k <= d THEN t.completed[k] ELSE t.queue[k - d]
  BY Zenon, <1>3, CntIs
<1>6. /\ v.queue = << >> => q = 0
      /\ v.completed = << >> => c = 0
      /\ q = 0 => v.queue = << >>
      /\ c = 0 => v.completed = << >>
  BY <1>0, <1>4
<1>7. \/ /\ q > 0 /\ d = c /\ p = q - 1
      \/ /\ q = 0 /\ c > 0 /\ d = c - 1 /\ p = 0
  <2>1. CASE q > 0
    <3>1. v.queue[q] = r
      <4>1. It(v, c + q) = v.queue[c + q - c] /\ c + q - c = q
        BY <1>4, <2>1
      <4> QED
        BY Zenon, <1>4, <4>1
    <3>2. Len(wq) = Len(v.queue) - 1
      <4>1. v.queue \in Seq(Writes) /\ v.queue # << >> /\ v.queue[Len(v.queue)] = r
        BY <1>0, <1>4, <1>6, <2>1, <3>1
      <4> QED
        BY Zenon, <4>1, WithoutIs
    <3>3. ASSUME v.completed # << >> PROVE v.completed[c] # r
      <4>1. c > 0 /\ c \in 1 .. Cnt(v) /\ c + q \in 1 .. Cnt(v) /\ c # c + q
        BY <1>4, <1>6, <2>1, <3>3
      <4>2. It(v, c) = v.completed[c] /\ It(v, c + q) = r
        BY <1>4
      <4> QED
        BY Zenon, <4>1, <4>2 DEF Once
    <3>4. wc = v.completed
      BY Zenon, <1>0, <1>4, <3>3, WithoutIs
    <3> QED
      BY Zenon, <1>3, <1>4, <1>5, <2>1, <3>2, <3>4
  <2>2. CASE q = 0
    <3>1. c > 0 /\ v.completed[c] = r
      BY <1>4, <2>2
    <3>2. Len(wc) = Len(v.completed) - 1
      <4>1. /\ v.completed \in Seq(Writes) /\ v.completed # << >>
            /\ v.completed[Len(v.completed)] = r
        BY <1>0, <1>4, <1>6, <3>1
      <4> QED
        BY Zenon, <4>1, WithoutIs
    <3>3. wq = v.queue
      BY Zenon, <1>0, <1>6, <2>2, WithoutIs
    <3> QED
      BY Zenon, <1>3, <1>4, <1>5, <2>2, <3>1, <3>2, <3>3
  <2> QED
    BY <2>1, <2>2
<1>8. /\ \A k \in 1 .. p : t.queue[k] = v.queue[k]
      /\ \A k \in 1 .. d : t.completed[k] = v.completed[k]
  BY <1>1, <1>3, <1>5
<1>9. /\ t.queue # << >> => Len(v.queue) > 1
      /\ t.completed # << >> => v.completed # << >>
  <2>1. t.queue # << >> => p > 0
    BY <1>1, <1>3, <1>5
  <2>2. t.completed # << >> => d > 0
    BY <1>1, <1>3, <1>5
  <2> QED
    BY <1>4, <1>6, <1>7, <2>1, <2>2
<1> HIDE DEF t, wq, wc
<1>10. ASSUME NEW k \in 1 .. c + q - 1
       PROVE  It(t, k) = It(v, k)
  <2>1. CASE k <= d
    <3>1. It(t, k) = t.completed[k] /\ It(v, k) = v.completed[k] /\ k \in 1 .. d
      BY <1>4, <1>5, <1>7, <2>1
    <3> QED
      BY Zenon, <1>8, <3>1
  <2>2. CASE k > d
    <3>1. d = c /\ k - c \in 1 .. p
      BY <1>7, <2>2
    <3>2. It(t, k) = t.queue[k - c] /\ It(v, k) = v.queue[k - c]
      BY <1>4, <1>5, <2>2, <3>1
    <3> QED
      BY Zenon, <1>8, <3>1, <3>2
  <2> QED
    BY <2>1, <2>2
<1>11. Cnt(t) = c + q - 1 /\ d <= c
  BY <1>5, <1>7
<1>12. Leaves(v, t, r)
  BY <1>3, <1>4, <1>5, <1>8, <1>9, <1>10, <1>11 DEF Leaves
<1> QED
  BY Zenon, <1>12 DEF t

\* asks is ask and n more.
Longer(asks, ask, n) ==
  Len(asks) = Len(ask) + n /\ \A k \in 1 .. Len(ask) : asks[k] = ask[k]

LEMMA TakenBackGood ==
  ASSUME NEW v \in Rec, NEW t, NEW r \in Writes, NEW ask \in Seq(Writes), NEW asks,
         Cnt(v) >= 1, It(v, Cnt(v)) = r, Leaves(v, t, r), Good(v, asks),
         Longer(asks, ask, v.left[r]),
         Sending(v) \/ Prefix(v.wire, ask)
  PROVE  Good(t, ask)
<1>1. PICK x \in Nat : x = v.left[r]
  BY Zenon, Fields
<1>2. Len(ask) \in Nat /\ Len(asks) = Len(ask) + x /\ \A k \in 1 .. Len(ask) : asks[k] = ask[k]
  BY <1>1 DEF Longer
<1>3. Good(v, asks)
  OBVIOUS
<1>4. PICK P : Sums(v, P) /\ (Sending(v) => Unsent(v, P, asks))
  BY Zenon, <1>3 DEF Good
<1>5. PICK N \in Nat : Cnt(v) = N + 1
  <2>1. Cnt(v) \in Nat
    BY Zenon, Items
  <2> QED
    BY <2>1
<1>6. PICK c, d \in Nat : c = Len(v.completed) /\ d = Len(t.completed) /\ d <= c /\ c <= N + 1 /\ d <= N
  <2>1. /\ Len(v.completed) \in Nat /\ Len(t.completed) \in Nat /\ Len(t.completed) <= Len(v.completed)
        /\ Len(v.completed) <= N + 1 /\ Len(t.completed) <= Cnt(t) /\ Cnt(t) = N + 1 - 1
    BY <1>5, Items, Lengths DEF Leaves
  <2> QED
    BY <2>1
<1>7. PICK L \in Nat : L = Len(v.wire)
  BY Zenon, Fields
<1>8. /\ Cnt(t) = N /\ \A k \in 1 .. N : It(t, k) = It(v, k)
      /\ \A k \in 1 .. d : t.completed[k] = v.completed[k]
      /\ t.left = v.left /\ t.error = v.error /\ t.wire = v.wire /\ t.size = v.size - x
      /\ Sending(t) <=> Sending(v)
  <2>1. Cnt(v) - 1 = N
    BY <1>5
  <2> QED
    BY Zenon, <1>1, <1>6, <2>1 DEF Leaves, Sending
<1>9. /\ P \in [0 .. N + 1 -> Nat] /\ P[0] = 0 /\ P[N + 1] = v.size
      /\ \A k \in 1 .. N + 1 : P[k] = P[k - 1] + v.left[It(v, k)]
      /\ \A j, k \in 0 .. N + 1 : j <= k => P[j] <= P[k]
  BY Zenon, <1>4, <1>5 DEF Sums
<1>10. P[N] = v.size - x /\ v.size \in Nat
  <2>1. N + 1 \in 1 .. N + 1 /\ N + 1 - 1 = N /\ N \in 0 .. N + 1
    OBVIOUS
  <2>2. P[N + 1] = P[N] + x
    BY <1>1, <1>5, <1>9, <2>1
  <2>3. P[N] \in Nat /\ v.size \in Nat
    BY Zenon, <1>9, <2>1, Fields
  <2> QED
    BY <1>9, <2>2, <2>3
<1> DEFINE Q == [k \in 0 .. N |-> P[k]]
<1>11. Q \in [0 .. N -> Nat] /\ \A k \in 0 .. N : Q[k] = P[k]
  BY <1>9
<1> HIDE DEF Q
<1>12. Sums(t, Q)
  <2>1. ASSUME NEW k \in 1 .. N
        PROVE  Q[k] = Q[k - 1] + t.left[It(t, k)]
    <3>1. k \in 1 .. N + 1 /\ k \in 0 .. N /\ k - 1 \in 0 .. N
      OBVIOUS
    <3>2. P[k] = P[k - 1] + v.left[It(v, k)]
      BY Zenon, <1>9, <3>1
    <3> QED
      BY Zenon, <1>8, <1>11, <3>1, <3>2
  <2>2. ASSUME NEW j \in 0 .. N, NEW k \in 0 .. N, j <= k
        PROVE  Q[j] <= Q[k]
    <3>1. j \in 0 .. N + 1 /\ k \in 0 .. N + 1
      OBVIOUS
    <3>2. P[j] <= P[k]
      BY Zenon, <1>9, <2>2, <3>1
    <3> QED
      BY Zenon, <1>11, <3>2
  <2>3. Q[0] = 0 /\ Q[N] = t.size
    BY <1>8, <1>9, <1>10, <1>11
  <2> QED
    BY Zenon, <1>8, <1>11, <2>1, <2>2, <2>3 DEF Sums
<1>13. ASSUME Sending(t)
       PROVE  Unsent(t, Q, ask)
  <2>1. /\ P[c] = 0 /\ Len(asks) = L + v.size
        /\ \A k \in c + 1 .. N + 1 : \A n \in 1 .. v.left[It(v, k)] :
             asks[L + P[k - 1] + n] = It(v, k)
    BY Zenon, <1>4, <1>5, <1>6, <1>7, <1>8, <1>13 DEF Unsent
  <2>2. Q[d] = 0
    <3>1. d \in 0 .. N /\ d \in 0 .. N + 1 /\ c \in 0 .. N + 1 /\ d <= c
      BY <1>6
    <3>2. P[d] <= P[c] /\ P[d] \in Nat
      BY Zenon, <1>9, <3>1
    <3>3. PICK p \in Nat : p = P[d]
      BY Zenon, <3>2
    <3>4. p <= 0
      BY Zenon, <2>1, <3>2, <3>3
    <3>5. p = 0
      BY <3>4
    <3> QED
      BY Zenon, <1>11, <3>1, <3>3, <3>5
  <2>3. Len(ask) = L + (v.size - x)
    <3>1. PICK a \in Nat : a = Len(ask)
      BY Zenon, <1>2
    <3>2. a + x = L + v.size
      BY Zenon, <1>2, <2>1, <3>1
    <3>3. PICK s \in Nat : s = v.size
      BY Zenon, <1>10
    <3>4. a + x = L + s
      BY Zenon, <3>2, <3>3
    <3>5. a = L + (s - x)
      BY <3>4
    <3> QED
      BY Zenon, <3>1, <3>3, <3>5
  <2>4. ASSUME NEW k \in d + 1 .. N, NEW n \in 1 .. v.left[It(v, k)]
        PROVE  ask[L + Q[k - 1] + n] = It(v, k)
    <3>1. k \in 0 .. N /\ k - 1 \in 0 .. N /\ k \in 1 .. N + 1 /\ k \in 0 .. N + 1 /\ k - 1 \in 0 .. N + 1
      BY <1>6
    <3>2. /\ P[k] = P[k - 1] + v.left[It(v, k)] /\ P[k] <= P[N]
          /\ P[k - 1] \in Nat /\ P[k] \in Nat /\ N \in 0 .. N + 1
      <4>1. N \in 0 .. N + 1 /\ k <= N
        BY <3>1
      <4> QED
        BY Zenon, <1>9, <3>1, <4>1
    <3>3. v.left[It(v, k)] \in Nat /\ n \in Nat /\ n >= 1 /\ n <= v.left[It(v, k)]
      BY <1>5, <3>1, Items
    <3>4. ~(k <= c)
      <4>1. SUFFICES ASSUME k <= c PROVE FALSE
        OBVIOUS
      <4>2. c \in 0 .. N + 1 /\ P[k] <= P[c]
        <5>1. c \in 0 .. N + 1
          BY <1>6
        <5> QED
          BY Zenon, <1>9, <3>1, <4>1, <5>1
      <4> QED
        BY <2>1, <3>2, <3>3, <4>2
    <3>5. asks[L + P[k - 1] + n] = It(v, k)
      <4>1. k \in c + 1 .. N + 1
        BY <1>6, <3>1, <3>4
      <4> QED
        BY Zenon, <2>1, <4>1
    <3>6. L + P[k - 1] + n \in 1 .. Len(ask)
      <4>1. PICK m, i \in Nat : m = P[k - 1] /\ i = v.left[It(v, k)]
        BY Zenon, <3>2, <3>3
      <4>2. PICK s \in Nat : s = v.size - x /\ m + i <= s
        <5>1. P[N] \in Nat
          BY Zenon, <1>9, <3>2
        <5>2. m + i <= P[N]
          BY Zenon, <3>2, <4>1
        <5> QED
          BY Zenon, <1>10, <5>1, <5>2
      <4>3. n >= 1 /\ n <= i /\ n \in Nat
        BY Zenon, <3>3, <4>1
      <4>4. L + m + n \in 1 .. L + s
        BY <4>2, <4>3
      <4> QED
        BY Zenon, <2>3, <4>1, <4>2, <4>4
    <3> QED
      BY Zenon, <1>2, <1>11, <3>1, <3>5, <3>6
  <2>5. \A k \in d + 1 .. N : It(t, k) = It(v, k)
    BY <1>6, <1>8
  <2>6. \A k \in d + 1 .. N : \A n \in 1 .. t.left[It(t, k)] : ask[L + Q[k - 1] + n] = It(t, k)
    BY Zenon, <1>8, <2>4, <2>5
  <2> QED
    BY <1>6, <1>7, <1>8, <2>2, <2>3, <2>6 DEF Unsent
<1>14. Once(t)
  <2>1. \A j, k \in 1 .. N + 1 : It(v, j) = It(v, k) => j = k
    BY Zenon, <1>3, <1>5 DEF Good, Once
  <2>2. \A k \in 1 .. N : k \in 1 .. N + 1
    OBVIOUS
  <2> QED
    BY Zenon, <1>8, <2>1, <2>2 DEF Once
<1>15. Prefix(t.wire, ask)
  <2>1. CASE Prefix(v.wire, ask)
    BY Zenon, <1>8, <2>1
  <2>2. CASE Sending(v)
    <3>1. Len(ask) = L + t.size /\ t.size \in Nat
      BY Zenon, <1>7, <1>8, <1>13, <2>2, Fields DEF Unsent, Leaves
    <3>2. L <= L + t.size
      BY <3>1
    <3>3. L <= Len(ask) /\ \A k \in 1 .. L : v.wire[k] = asks[k] /\ k \in 1 .. Len(ask)
      BY <1>3, <1>7, <3>1, <3>2 DEF Good, Prefix
    <3> QED
      BY Zenon, <1>2, <1>7, <1>8, <3>3 DEF Prefix
  <2> QED
    BY Zenon, <2>1, <2>2
<1>16. \A k \in 1 .. d : t.error[t.completed[k]] = "ok" => t.left[t.completed[k]] = 0
  <2>1. \A k \in 1 .. d : k \in 1 .. c
    BY <1>6
  <2> QED
    BY Zenon, <1>3, <1>6, <1>8, <2>1 DEF Good
<1> QED
  BY Zenon, <1>6, <1>12, <1>13, <1>14, <1>15, <1>16 DEF Good

\* v is w with the first completed request called back.
CalledBack(w, v) ==
  LET r == Head(w.completed)
  IN  /\ v.completed = Tail(w.completed) /\ v.queue = w.queue
      /\ v.size = IF w.error[r] = "failed" THEN w.size - w.left[r] ELSE w.size
      /\ v.left = w.left /\ v.error = w.error /\ v.wire = w.wire
      /\ v.flags = w.flags /\ v.dead = w.dead

LEMMA CalledBackItems ==
  ASSUME NEW w \in Rec, NEW v \in Rec, w.completed # << >>,
         v.completed = Tail(w.completed), v.queue = w.queue
  PROVE  /\ Cnt(v) = Cnt(w) - 1 /\ Cnt(w) >= 1 /\ It(w, 1) = Head(w.completed)
         /\ Len(v.completed) = Len(w.completed) - 1
         /\ \A k \in 1 .. Len(v.completed) : v.completed[k] = w.completed[k + 1]
         /\ \A k \in 1 .. Cnt(w) - 1 : It(v, k) = It(w, k + 1)
<1>1. PICK c, q \in Nat :
        /\ Len(w.completed) = c /\ Len(w.queue) = q /\ Cnt(w) = c + q
        /\ \A k : It(w, k) = IF k <= c THEN w.completed[k] ELSE w.queue[k - c]
  BY Zenon, CntIs
<1>2. PICK d, p \in Nat :
        /\ Len(v.completed) = d /\ Len(v.queue) = p /\ Cnt(v) = d + p
        /\ \A k : It(v, k) = IF k <= d THEN v.completed[k] ELSE v.queue[k - d]
  BY Zenon, CntIs
<1>3. w.completed \in Seq(Writes)
  BY Zenon, Fields
<1>4. /\ Len(v.completed) = Len(w.completed) - 1 /\ Len(w.completed) > 0
      /\ \A k \in 1 .. Len(w.completed) - 1 : v.completed[k] = w.completed[k + 1]
      /\ Head(w.completed) = w.completed[1]
  BY <1>3, TailIs
<1>5. /\ d = c - 1 /\ c > 0 /\ p = q
      /\ \A k \in 1 .. d : v.completed[k] = w.completed[k + 1]
  BY Zenon, <1>1, <1>2, <1>4
<1>6. ASSUME NEW k \in 1 .. c + q - 1
      PROVE  It(v, k) = It(w, k + 1)
  <2>1. CASE k <= d
    <3>1. It(v, k) = v.completed[k] /\ It(w, k + 1) = w.completed[k + 1] /\ k \in 1 .. d
      BY <1>1, <1>2, <1>5, <2>1
    <3> QED
      BY Zenon, <1>5, <3>1
  <2>2. CASE k > d
    <3>1. It(v, k) = v.queue[k - d] /\ It(w, k + 1) = w.queue[k + 1 - c] /\ k + 1 - c = k - d
      BY <1>1, <1>2, <1>5, <2>2
    <3> QED
      BY Zenon, <3>1
  <2> QED
    BY <2>1, <2>2
<1>7. It(w, 1) = Head(w.completed)
  BY <1>1, <1>4, <1>5
<1> QED
  BY <1>1, <1>2, <1>5, <1>6, <1>7

LEMMA FirstFits ==
  ASSUME NEW w \in Rec, NEW ask, Good(w, ask), w.completed # << >>
  PROVE  /\ Head(w.completed) \in Writes /\ w.left[Head(w.completed)] \in Nat
         /\ w.left[Head(w.completed)] <= w.size
         /\ w.error[Head(w.completed)] # "failed" => w.left[Head(w.completed)] = 0
<1>1. PICK P : Sums(w, P)
  BY Zenon DEF Good
<1>2. PICK h \in Writes : h = Head(w.completed)
  BY Zenon, Fields, TailIs
<1>3. /\ w.completed[1] = h /\ Len(w.completed) > 0 /\ Len(w.completed) \in Nat
  BY Zenon, <1>2, Fields, TailIs
<1>4. Cnt(w) \in Nat /\ Cnt(w) >= 1 /\ It(w, 1) = h
  BY <1>3, Items
<1>5. 1 \in 1 .. Cnt(w) /\ 0 \in 0 .. Cnt(w) /\ 1 \in 0 .. Cnt(w) /\ Cnt(w) \in 0 .. Cnt(w)
  BY <1>4
<1>6. P[1] = P[1 - 1] + w.left[h] /\ P[0] = 0 /\ P[1] <= w.size
  BY Zenon, <1>1, <1>4, <1>5 DEF Sums
<1>7. w.left[h] \in Nat /\ w.error[h] \in {"ok", "failed"}
  BY Zenon, Fields
<1>8. w.error[h] = "ok" => w.left[h] = 0
  BY <1>3 DEF Good
<1> QED
  BY <1>2, <1>6, <1>7, <1>8

LEMMA CalledBackGood ==
  ASSUME NEW w \in Rec, NEW v \in Rec, NEW ask \in Seq(Writes), Good(w, ask),
         w.completed # << >>, CalledBack(w, v)
  PROVE  Good(v, ask)
<1>1. PICK P : Sums(w, P) /\ (Sending(w) => Unsent(w, P, ask))
  BY Zenon DEF Good
<1>2. PICK h \in Writes : h = Head(w.completed)
  BY Zenon, FirstFits
<1>3. /\ w.left[h] \in Nat /\ w.left[h] <= w.size
      /\ w.error[h] # "failed" => w.left[h] = 0
  BY Zenon, <1>2, FirstFits
<1>4. /\ v.completed = Tail(w.completed) /\ v.queue = w.queue
      /\ v.left = w.left /\ v.error = w.error /\ v.wire = w.wire
      /\ v.size = w.size - w.left[h] /\ w.size \in Nat
      /\ Sending(v) <=> Sending(w)
  BY <1>2, <1>3, Fields DEF CalledBack, Sending
<1>5. PICK N \in Nat : Cnt(w) = N + 1 /\ Cnt(v) = N
  <2>1. Cnt(w) \in Nat /\ Cnt(v) = Cnt(w) - 1 /\ Cnt(w) >= 1
    BY Zenon, <1>4, CalledBackItems, Items
  <2> QED
    BY <2>1
<1>6. PICK d \in Nat : d = Len(v.completed) /\ Len(w.completed) = d + 1 /\ d <= N
  <2>1. Len(v.completed) \in Nat /\ Len(v.completed) = Len(w.completed) - 1 /\ Len(v.completed) <= N
        /\ Len(w.completed) \in Nat
    BY Zenon, <1>4, <1>5, CalledBackItems, Items, Lengths
  <2> QED
    BY <2>1
<1>7. /\ It(w, 1) = h /\ \A k \in 1 .. N : It(v, k) = It(w, k + 1)
      /\ \A k \in 1 .. d : v.completed[k] = w.completed[k + 1]
  <2>1. N + 1 - 1 = N
    OBVIOUS
  <2> QED
    BY Zenon, <1>2, <1>4, <1>5, <1>6, <2>1, CalledBackItems
<1>8. PICK L \in Nat : L = Len(w.wire)
  BY Zenon, Fields
<1>9. /\ P \in [0 .. N + 1 -> Nat] /\ P[0] = 0 /\ P[N + 1] = w.size
      /\ \A k \in 1 .. N + 1 : P[k] = P[k - 1] + w.left[It(w, k)]
      /\ \A j, k \in 0 .. N + 1 : j <= k => P[j] <= P[k]
  BY Zenon, <1>1, <1>5 DEF Sums
<1>10. P[1] = w.left[h]
  <2>1. 1 \in 1 .. N + 1 /\ 1 - 1 = 0
    OBVIOUS
  <2> QED
    BY <1>3, <1>7, <1>9, <2>1
<1> DEFINE Q == [k \in 0 .. N |-> P[k + 1] - P[1]]
<1>11. \A k \in 0 .. N : Q[k] = P[k + 1] - P[1] /\ Q[k] \in Nat /\ P[k + 1] \in Nat
  <2> SUFFICES ASSUME NEW k \in 0 .. N
               PROVE  Q[k] = P[k + 1] - P[1] /\ Q[k] \in Nat /\ P[k + 1] \in Nat
    OBVIOUS
  <2>1. 1 \in 0 .. N + 1 /\ k + 1 \in 0 .. N + 1 /\ 1 <= k + 1
    OBVIOUS
  <2>2. P[1] <= P[k + 1] /\ P[1] \in Nat /\ P[k + 1] \in Nat
    BY Zenon, <1>9, <2>1
  <2> QED
    BY <2>2
<1>12. Q \in [0 .. N -> Nat]
  BY Zenon, <1>11
<1> HIDE DEF Q
<1>13. Sums(v, Q)
  <2>1. ASSUME NEW k \in 1 .. N
        PROVE  Q[k] = Q[k - 1] + v.left[It(v, k)]
    <3>1. k + 1 \in 1 .. N + 1 /\ k \in 0 .. N /\ k - 1 \in 0 .. N /\ k + 1 - 1 = k /\ k - 1 + 1 = k
      OBVIOUS
    <3>2. P[k + 1] = P[k] + w.left[It(w, k + 1)]
      <4>1. PICK m \in 1 .. N + 1 : m = k + 1 /\ m - 1 = k
        BY ONLY <3>1
      <4>2. P[m] = P[m - 1] + w.left[It(w, m)]
        BY Zenon, <1>9, <4>1
      <4> QED
        BY Zenon, <4>1, <4>2
    <3>3. w.left[It(w, k + 1)] \in Nat /\ P[k] \in Nat /\ P[k + 1] \in Nat
      <4>1. k \in 0 .. N + 1 /\ k + 1 \in 0 .. N + 1
        BY <3>1
      <4>2. P[k] \in Nat /\ P[k + 1] \in Nat
        BY Zenon, <1>9, <4>1
      <4>3. w.left[It(w, k + 1)] \in Nat
        BY Zenon, <1>5, <3>1, Items
      <4> QED
        BY Zenon, <4>2, <4>3
    <3>4. Q[k] = P[k + 1] - P[1] /\ Q[k - 1] = P[k] - P[1]
      BY Zenon, <1>11, <3>1
    <3>5. v.left[It(v, k)] = w.left[It(w, k + 1)]
      BY Zenon, <1>4, <1>7
    <3> QED
      BY <1>3, <1>10, <3>2, <3>3, <3>4, <3>5
  <2>2. ASSUME NEW j \in 0 .. N, NEW k \in 0 .. N, j <= k
        PROVE  Q[j] <= Q[k]
    <3>1. j + 1 \in 0 .. N + 1 /\ k + 1 \in 0 .. N + 1 /\ j + 1 <= k + 1
      BY <2>2
    <3>2. P[j + 1] <= P[k + 1]
      BY Zenon, <1>9, <3>1
    <3>3. /\ Q[j] = P[j + 1] - P[1] /\ Q[k] = P[k + 1] - P[1]
          /\ P[j + 1] \in Nat /\ P[k + 1] \in Nat
      BY Zenon, <1>11
    <3> QED
      BY <1>3, <1>10, <3>2, <3>3
  <2>3. Q[0] = 0 /\ Q[N] = v.size
    <3>1. Q[0] = P[0 + 1] - P[1] /\ Q[N] = P[N + 1] - P[1] /\ 0 + 1 = 1
      BY <1>11
    <3> QED
      BY <1>3, <1>4, <1>9, <1>10, <3>1
  <2> QED
    BY Zenon, <1>5, <1>12, <2>1, <2>2, <2>3 DEF Sums
<1>14. ASSUME Sending(v)
       PROVE  Unsent(v, Q, ask)
  <2>1. /\ P[d + 1] = 0 /\ Len(ask) = L + w.size
        /\ \A k \in d + 1 + 1 .. N + 1 : \A n \in 1 .. w.left[It(w, k)] :
             ask[L + P[k - 1] + n] = It(w, k)
    BY Zenon, <1>1, <1>4, <1>5, <1>6, <1>8, <1>14 DEF Unsent
  <2>2. P[1] = 0
    <3>1. 1 \in 0 .. N + 1 /\ d + 1 \in 0 .. N + 1 /\ 1 <= d + 1
      BY <1>6
    <3>2. P[1] <= P[d + 1] /\ P[1] \in Nat
      BY Zenon, <1>9, <3>1
    <3> QED
      BY <2>1, <3>2
  <2>3. Q[d] = 0
    <3>1. Q[d] = P[d + 1] - P[1]
      BY <1>6, <1>11
    <3> QED
      BY <2>1, <2>2, <3>1
  <2>4. v.size = w.size
    BY <1>3, <1>4, <1>10, <2>2
  <2>5. ASSUME NEW k \in d + 1 .. N, NEW n \in 1 .. v.left[It(v, k)]
        PROVE  ask[L + Q[k - 1] + n] = It(v, k)
    <3>1. k + 1 \in d + 1 + 1 .. N + 1 /\ k \in 1 .. N /\ k - 1 \in 0 .. N
          /\ k + 1 - 1 = k /\ k - 1 + 1 = k
      BY <1>6
    <3>2. It(v, k) = It(w, k + 1) /\ v.left = w.left
      BY Zenon, <1>4, <1>7, <3>1
    <3>3. ask[L + P[k + 1 - 1] + n] = It(w, k + 1)
      BY <2>1, <3>1, <3>2
    <3>4. Q[k - 1] = P[k]
      <4>1. Q[k - 1] = P[k - 1 + 1] - P[1] /\ P[k - 1 + 1] \in Nat
        BY Zenon, <1>11, <3>1
      <4> QED
        BY <2>2, <3>1, <4>1
    <3> QED
      BY Zenon, <3>1, <3>2, <3>3, <3>4
  <2> QED
    BY <1>4, <1>5, <1>6, <1>8, <2>1, <2>3, <2>4, <2>5 DEF Unsent
<1>15. Once(v)
  <2> SUFFICES ASSUME NEW j \in 1 .. N, NEW k \in 1 .. N, It(v, j) = It(v, k)
               PROVE  j = k
    BY Zenon, <1>5 DEF Once
  <2>1. j + 1 \in 1 .. N + 1 /\ k + 1 \in 1 .. N + 1
    OBVIOUS
  <2>2. It(w, j + 1) = It(w, k + 1)
    BY Zenon, <1>7
  <2>3. j + 1 = k + 1
    BY Zenon, <1>5, <2>1, <2>2 DEF Good, Once
  <2> QED
    BY <2>3
<1>16. \A k \in 1 .. d : v.error[v.completed[k]] = "ok" => v.left[v.completed[k]] = 0
  <2>1. \A k \in 1 .. d : k + 1 \in 1 .. d + 1
    OBVIOUS
  <2> QED
    BY Zenon, <1>4, <1>6, <1>7, <2>1 DEF Good
<1>17. Prefix(v.wire, ask)
  BY Zenon, <1>4 DEF Good
<1> QED
  BY Zenon, <1>6, <1>13, <1>14, <1>15, <1>16, <1>17 DEF Good

\* The requests that wait are failed and completed, in their order.
Flushed(w, v) ==
  /\ v.completed = w.completed \o w.queue /\ v.queue = << >>
  /\ v.error = [r \in Writes |-> IF \E k \in DOMAIN w.queue : w.queue[k] = r
                                 THEN "failed" ELSE w.error[r]]
  /\ v.left = w.left /\ v.size = w.size /\ v.wire = w.wire
  /\ v.flags = w.flags /\ v.dead = w.dead

LEMMA FlushedItems ==
  ASSUME NEW w \in Rec, NEW v \in Rec, Flushed(w, v)
  PROVE  /\ Cnt(v) = Cnt(w) /\ \A k \in 1 .. Cnt(w) : It(v, k) = It(w, k)
         /\ Len(v.completed) = Cnt(w)
<1>1. PICK c, q \in Nat :
        /\ Len(w.completed) = c /\ Len(w.queue) = q /\ Cnt(w) = c + q
        /\ \A k : It(w, k) = IF k <= c THEN w.completed[k] ELSE w.queue[k - c]
  BY Zenon, CntIs
<1>2. PICK d, p \in Nat :
        /\ Len(v.completed) = d /\ Len(v.queue) = p /\ Cnt(v) = d + p
        /\ \A k : It(v, k) = IF k <= d THEN v.completed[k] ELSE v.queue[k - d]
  BY Zenon, CntIs
<1>3. w.completed \in Seq(Writes) /\ w.queue \in Seq(Writes) /\ v.completed = w.completed \o w.queue
  BY Zenon, Fields DEF Flushed
<1>4. /\ Len(v.completed) = Len(w.completed) + Len(w.queue)
      /\ \A k \in 1 .. Len(w.completed) : v.completed[k] = w.completed[k]
      /\ \A k \in 1 .. Len(w.queue) : v.completed[Len(w.completed) + k] = w.queue[k]
  <2>1. PICK s, z \in Seq(Writes) : s = w.completed /\ z = w.queue
    BY Zenon, <1>3
  <2>2. /\ Len(s \o z) = Len(s) + Len(z) /\ \A k \in 1 .. Len(s) : (s \o z)[k] = s[k]
        /\ \A k \in 1 .. Len(z) : (s \o z)[Len(s) + k] = z[k]
    BY ConcatIs
  <2> QED
    BY Zenon, <1>3, <2>1, <2>2
<1>5. p = 0
  BY Zenon, <1>2 DEF Flushed
<1>6. /\ d = c + q /\ \A k \in 1 .. c : v.completed[k] = w.completed[k]
      /\ \A k \in 1 .. q : v.completed[c + k] = w.queue[k]
  BY Zenon, <1>1, <1>2, <1>4
<1>7. ASSUME NEW k \in 1 .. c + q
      PROVE  It(v, k) = It(w, k)
  <2>1. CASE k <= c
    <3>1. k \in 1 .. c /\ It(w, k) = w.completed[k] /\ It(v, k) = v.completed[k]
      BY <1>1, <1>2, <1>6, <2>1
    <3> QED
      BY Zenon, <1>6, <3>1
  <2>2. CASE k > c
    <3>1. k - c \in 1 .. q /\ c + (k - c) = k /\ It(w, k) = w.queue[k - c] /\ It(v, k) = v.completed[k]
      BY <1>1, <1>2, <1>6, <2>2
    <3>2. v.completed[c + (k - c)] = w.queue[k - c]
      BY Zenon, <1>6, <3>1
    <3> QED
      BY Zenon, <3>1, <3>2
  <2> QED
    BY <2>1, <2>2
<1> QED
  BY <1>1, <1>2, <1>5, <1>6, <1>7

LEMMA FlushedGood ==
  ASSUME NEW w \in Rec, NEW v \in Rec, NEW ask, Good(w, ask), Flushed(w, v), ~Sending(v)
  PROVE  Good(v, ask)
<1>1. PICK P : Sums(w, P)
  BY Zenon DEF Good
<1>2. /\ Cnt(v) = Cnt(w) /\ \A k \in 1 .. Cnt(w) : It(v, k) = It(w, k)
      /\ Len(v.completed) = Cnt(w)
  BY Zenon, FlushedItems
<1>3. v.left = w.left /\ v.size = w.size /\ v.wire = w.wire
  BY Zenon DEF Flushed
<1>4. Sums(v, P)
  BY Zenon, <1>1, <1>2, <1>3 DEF Sums
<1>5. Once(v) /\ Prefix(v.wire, ask)
  BY Zenon, <1>2, <1>3 DEF Good, Once
<1>6. ASSUME NEW k \in 1 .. Len(v.completed), v.error[v.completed[k]] = "ok"
      PROVE  v.left[v.completed[k]] = 0
  <2>1. PICK c, q \in Nat :
          /\ Len(w.completed) = c /\ Len(w.queue) = q /\ Cnt(w) = c + q
          /\ \A j : It(w, j) = IF j <= c THEN w.completed[j] ELSE w.queue[j - c]
    BY Zenon, CntIs
  <2>2. v.completed[k] = It(w, k) /\ k \in 1 .. c + q /\ It(w, k) \in Writes
    BY Zenon, <1>2, <2>1, Items
  <2>3. k <= c
    <3>1. SUFFICES ASSUME k > c PROVE FALSE
      BY <2>2
    <3>2. k - c \in 1 .. q /\ It(w, k) = w.queue[k - c]
      BY <2>1, <2>2, <3>1
    <3>3. k - c \in DOMAIN w.queue
      BY <2>1, <3>2, Fields
    <3>4. v.error[It(w, k)] = "failed"
      BY <2>2, <3>2, <3>3 DEF Flushed
    <3> QED
      BY Zenon, <1>6, <2>2, <3>4
  <2>4. k \in 1 .. c /\ It(w, k) = w.completed[k]
    BY <2>1, <2>2, <2>3
  <2>5. w.error[w.completed[k]] = "ok"
    BY <1>6, <2>2, <2>4 DEF Flushed
  <2> QED
    BY Zenon, <1>3, <2>1, <2>2, <2>4, <2>5 DEF Good
<1> QED
  BY Zenon, <1>4, <1>5, <1>6 DEF Good

-----------------------------------------------------------------------------
(* The steps of a call.                                                    *)

\* Two lists of steps, one after the other.
LEMMA Joined ==
  ASSUME NEW a \in Seq(StepNames), NEW b \in Seq(StepNames)
  PROVE  /\ a \o b \in Seq(StepNames)
         /\ \A x : Among(x, a \o b) <=> Among(x, a) \/ Among(x, b)
         /\ a # << >> => a \o b # << >> /\ (a \o b)[1] = a[1] /\ Head(a \o b) = a[1]
<1>1. PICK m, n \in Nat : m = Len(a) /\ n = Len(b)
  OBVIOUS
<1>2. /\ a \o b \in Seq(StepNames) /\ Len(a \o b) = m + n
      /\ \A k \in 1 .. m : (a \o b)[k] = a[k]
      /\ \A k \in 1 .. n : (a \o b)[m + k] = b[k]
  <2>1. /\ a \o b \in Seq(StepNames) /\ Len(a \o b) = Len(a) + Len(b)
        /\ \A k \in 1 .. Len(a) : (a \o b)[k] = a[k]
        /\ \A k \in 1 .. Len(b) : (a \o b)[Len(a) + k] = b[k]
    BY ConcatIs
  <2> QED
    BY Zenon, <1>1, <2>1
<1>3. ASSUME NEW x, Among(x, a \o b)
      PROVE  Among(x, a) \/ Among(x, b)
  <2>1. PICK k \in 1 .. m + n : (a \o b)[k] = x
    BY Zenon, <1>2, <1>3 DEF Among
  <2>2. CASE k <= m
    BY <1>1, <1>2, <2>1, <2>2 DEF Among
  <2>3. CASE k > m
    <3>1. k - m \in 1 .. n /\ m + (k - m) = k
      BY <2>3
    <3>2. b[k - m] = x
      BY Zenon, <1>2, <2>1, <3>1
    <3> QED
      BY Zenon, <1>1, <3>1, <3>2 DEF Among
  <2> QED
    BY <2>2, <2>3
<1>4. ASSUME NEW x, Among(x, a)
      PROVE  Among(x, a \o b)
  <2>1. PICK k \in 1 .. m : a[k] = x
    BY Zenon, <1>1, <1>4 DEF Among
  <2>2. k \in 1 .. m + n
    OBVIOUS
  <2> QED
    BY Zenon, <1>2, <2>1, <2>2 DEF Among
<1>5. ASSUME NEW x, Among(x, b)
      PROVE  Among(x, a \o b)
  <2>1. PICK k \in 1 .. n : b[k] = x
    BY Zenon, <1>1, <1>5 DEF Among
  <2>2. m + k \in 1 .. m + n
    OBVIOUS
  <2> QED
    BY Zenon, <1>2, <2>1, <2>2 DEF Among
<1>6. ASSUME a # << >>
      PROVE  a \o b # << >> /\ (a \o b)[1] = a[1] /\ Head(a \o b) = a[1]
  <2>1. m > 0
    BY <1>1, <1>6
  <2>2. (a \o b)[1] = a[1] /\ Len(a \o b) > 0
    BY <1>2, <2>1
  <2>3. a \o b # << >>
    BY <1>2, <2>2
  <2> QED
    BY Zenon, <1>2, <2>2, <2>3, TailIs
<1> QED
  BY Zenon, <1>2, <1>3, <1>4, <1>5, <1>6

\* What two lists must not do where they meet.
Fit(a, b) ==
  /\ a # << >> /\ b # << >> =>
       /\ b[1] = "write" => a[Len(a)] = "open"
       /\ b[1] = "drain" => a[Len(a)] = "callbacks"
  /\ Among("drain", a) => b = << >>
  /\ Among("read", b) => /\ ~Among("ended", a)
                         /\ a # << >> => Len(a) = 1 /\ a[1] = "cb" /\ b[1] = "read"
  /\ ~(Among("ended", b) /\ Among("read", a))

LEMMA PlansJoin ==
  ASSUME NEW a \in Seq(StepNames), NEW b \in Seq(StepNames), Plan(a), Plan(b), Fit(a, b)
  PROVE  Plan(a \o b)
<1>1. PICK m, n \in Nat : m = Len(a) /\ n = Len(b)
  OBVIOUS
<1>2. PICK s \in Seq(StepNames) :
        /\ s = a \o b /\ Len(s) = m + n
        /\ \A k \in 1 .. m : s[k] = a[k]
        /\ \A k \in 1 .. n : s[m + k] = b[k]
  <2>1. /\ a \o b \in Seq(StepNames) /\ Len(a \o b) = Len(a) + Len(b)
        /\ \A k \in 1 .. Len(a) : (a \o b)[k] = a[k]
        /\ \A k \in 1 .. Len(b) : (a \o b)[Len(a) + k] = b[k]
    BY ConcatIs
  <2> QED
    BY Zenon, <1>1, <2>1
<1>3. /\ m > 0 /\ n > 0 => /\ b[1] = "write" => a[m] = "open"
                           /\ b[1] = "drain" => a[m] = "callbacks"
      /\ (\E k \in 1 .. m : a[k] = "drain") => n = 0
      /\ (\E k \in 1 .. n : b[k] = "read") /\ m > 0 => m = 1 /\ a[1] = "cb" /\ b[1] = "read"
  <2>1. (m > 0 <=> a # << >>) /\ (n > 0 <=> b # << >>) /\ (n = 0 <=> b = << >>)
    BY <1>1
  <2> QED
    BY Zenon, <1>1, <2>1 DEF Fit, Among
<1>4. /\ \A k \in 1 .. m :
          /\ a[k] = "write" /\ k > 1 => a[k - 1] = "open"
          /\ a[k] = "drain" => k = m /\ (k > 1 => a[k - 1] = "callbacks")
          /\ a[k] = "read" => k = 1 \/ (k = 2 /\ a[1] = "cb")
          /\ a[k] = "flush" => k < m /\ a[k + 1] = "callbacks"
      /\ \A k \in 1 .. n :
          /\ b[k] = "write" /\ k > 1 => b[k - 1] = "open"
          /\ b[k] = "drain" => k = n /\ (k > 1 => b[k - 1] = "callbacks")
          /\ b[k] = "read" => k = 1 \/ (k = 2 /\ b[1] = "cb")
          /\ b[k] = "flush" => k < n /\ b[k + 1] = "callbacks"
  BY Zenon, <1>1 DEF Plan
<1>5. ASSUME NEW k \in 1 .. m + n
      PROVE  /\ s[k] = "write" /\ k > 1 => s[k - 1] = "open"
             /\ s[k] = "drain" => k = m + n /\ (k > 1 => s[k - 1] = "callbacks")
             /\ s[k] = "read" => k = 1 \/ (k = 2 /\ s[1] = "cb")
             /\ s[k] = "flush" => k < m + n /\ s[k + 1] = "callbacks"
  <2>1. CASE k <= m
    <3>1. /\ k \in 1 .. m /\ s[k] = a[k] /\ s[1] = a[1]
          /\ k > 1 => s[k - 1] = a[k - 1]
          /\ k < m => s[k + 1] = a[k + 1]
      <4>1. /\ k \in 1 .. m /\ 1 \in 1 .. m
            /\ k > 1 => k - 1 \in 1 .. m
            /\ k < m => k + 1 \in 1 .. m
        BY <2>1
      <4> QED
        BY Zenon, <1>2, <4>1
    <3>2. /\ a[k] = "write" /\ k > 1 => a[k - 1] = "open"
          /\ a[k] = "drain" => k = m /\ (k > 1 => a[k - 1] = "callbacks") /\ n = 0
          /\ a[k] = "read" => k = 1 \/ (k = 2 /\ a[1] = "cb")
          /\ a[k] = "flush" => k < m /\ a[k + 1] = "callbacks"
      BY Zenon, <1>3, <1>4, <3>1
    <3> QED
      BY <3>1, <3>2
  <2>2. CASE k > m
    <3>0. PICK j \in 1 .. n : k = m + j
      <4>1. k - m \in 1 .. n /\ k = m + (k - m)
        BY <2>2
      <4> QED
        BY Zenon, <4>1
    <3>1. s[k] = b[j]
      BY Zenon, <1>2, <3>0
    <3>2. /\ b[j] = "write" /\ j > 1 => b[j - 1] = "open"
          /\ b[j] = "drain" => j = n /\ (j > 1 => b[j - 1] = "callbacks")
          /\ b[j] = "read" => j = 1 \/ (j = 2 /\ b[1] = "cb")
          /\ b[j] = "flush" => j < n /\ b[j + 1] = "callbacks"
      BY Zenon, <1>4
    <3>3. j > 1 => s[k - 1] = b[j - 1]
      <4>1. j > 1 => j - 1 \in 1 .. n /\ m + (j - 1) = k - 1
        BY <3>0
      <4> QED
        BY Zenon, <1>2, <4>1
    <3>4. j < n => s[k + 1] = b[j + 1]
      <4>1. j < n => j + 1 \in 1 .. n /\ m + (j + 1) = k + 1
        BY <3>0
      <4> QED
        BY Zenon, <1>2, <4>1
    <3>5. j = 1 /\ k > 1 => m > 0 /\ s[k - 1] = a[m] /\ k - 1 = m
      BY <1>2, <3>0
    <3>6. m = 1 => s[1] = a[1]
      BY <1>2
    <3>7. /\ s[k] = "write" /\ k > 1 => s[k - 1] = "open"
          /\ s[k] = "drain" => k = m + n /\ (k > 1 => s[k - 1] = "callbacks")
      <4>1. CASE j > 1
        BY Zenon, <3>0, <3>1, <3>2, <3>3, <4>1
      <4>2. CASE j = 1
        <5>1. /\ k > 1 /\ b[1] = "write" => s[k - 1] = "open"
              /\ k > 1 /\ b[1] = "drain" => s[k - 1] = "callbacks"
          BY <1>3, <3>5, <4>2
        <5> QED
          BY Zenon, <3>0, <3>1, <3>2, <4>2, <5>1
      <4> QED
        BY <4>1, <4>2
    <3>9. s[k] = "read" => k = 1 \/ (k = 2 /\ s[1] = "cb")
      <4>1. CASE m = 0
        <5>1. s[1] = b[1]
          <6>1. 1 \in 1 .. n /\ m + 1 = 1
            BY <4>1, <3>0
          <6> QED
            BY Zenon, <1>2, <6>1
        <5> QED
          BY <3>0, <3>1, <3>2, <4>1, <5>1
      <4>2. CASE m > 0
        <5>1. b[j] = "read" => m = 1 /\ a[1] = "cb" /\ b[1] = "read"
          BY Zenon, <1>3, <4>2
        <5> QED
          BY <3>0, <3>1, <3>2, <3>6, <5>1
      <4> QED
        BY <4>1, <4>2
    <3>10. s[k] = "flush" => k < m + n /\ s[k + 1] = "callbacks"
      BY <3>0, <3>1, <3>2, <3>4
    <3> QED
      BY Zenon, <3>7, <3>9, <3>10
  <2> QED
    BY <2>1, <2>2
<1>6. ~(Among("ended", s) /\ Among("read", s))
  <2>1. \A x : Among(x, s) <=> Among(x, a) \/ Among(x, b)
    BY Zenon, <1>2, Joined
  <2> QED
    BY Zenon, <2>1 DEF Fit, Plan
<1>7. Plan(s)
  <2>1. Len(s) = m + n
    BY Zenon, <1>2
  <2> QED
    BY <1>5, <1>6, <2>1 DEF Plan
<1> QED
  BY Zenon, <1>2, <1>7

\* The rest of a list of steps.
LEMMA Rest ==
  ASSUME NEW s \in Seq(StepNames), s # << >>, Plan(s)
  PROVE  /\ Tail(s) \in Seq(StepNames) /\ Plan(Tail(s)) /\ Head(s) = s[1]
         /\ \A x : Among(x, Tail(s)) => Among(x, s)
         /\ \A x : Among(x, s) => Among(x, Tail(s)) \/ s[1] = x
         /\ Tail(s) # << >> =>
              /\ Tail(s)[1] = Head(Tail(s))
              /\ Tail(s)[1] = "write" => s[1] = "open"
              /\ Tail(s)[1] = "drain" => s[1] = "callbacks"
              /\ Tail(s)[1] = "read" => s[1] = "cb"
         /\ Among("read", Tail(s)) => s[1] = "cb"
         /\ s[1] = "drain" => Tail(s) = << >>
         /\ s[1] = "flush" => Among("callbacks", Tail(s))
<1>1. PICK n \in Nat : Len(s) = n + 1
  BY TailIs
<1>2. PICK u \in Seq(StepNames) :
        u = Tail(s) /\ Len(u) = n /\ \A k \in 1 .. n : u[k] = s[k + 1]
  <2>1. /\ Tail(s) \in Seq(StepNames) /\ Len(Tail(s)) = Len(s) - 1
        /\ \A k \in 1 .. Len(s) - 1 : Tail(s)[k] = s[k + 1]
    BY Zenon, TailIs
  <2>2. Len(s) - 1 = n
    BY <1>1
  <2> QED
    BY Zenon, <2>1, <2>2
<1>3. \A k \in 1 .. n + 1 :
        /\ s[k] = "write" /\ k > 1 => s[k - 1] = "open"
        /\ s[k] = "drain" => k = n + 1 /\ (k > 1 => s[k - 1] = "callbacks")
        /\ s[k] = "read" => k = 1 \/ (k = 2 /\ s[1] = "cb")
        /\ s[k] = "flush" => k < n + 1 /\ s[k + 1] = "callbacks"
  BY Zenon, <1>1 DEF Plan
<1>4. \A x : Among(x, u) => Among(x, s)
  <2> SUFFICES ASSUME NEW x, Among(x, u) PROVE Among(x, s)
    OBVIOUS
  <2>1. PICK k \in 1 .. n : u[k] = x
    BY Zenon, <1>2 DEF Among
  <2>2. k + 1 \in 1 .. n + 1 /\ s[k + 1] = x
    BY <1>2, <2>1
  <2> QED
    BY Zenon, <1>1, <2>2 DEF Among
<1>5. \A x : Among(x, s) => Among(x, u) \/ s[1] = x
  <2> SUFFICES ASSUME NEW x, Among(x, s), s[1] # x PROVE Among(x, u)
    OBVIOUS
  <2>1. PICK k \in 1 .. n + 1 : s[k] = x
    BY Zenon, <1>1 DEF Among
  <2>2. k - 1 \in 1 .. n /\ k - 1 + 1 = k
    BY <2>1
  <2>3. u[k - 1] = x
    BY Zenon, <1>2, <2>1, <2>2
  <2> QED
    BY Zenon, <1>2, <2>2, <2>3 DEF Among
<1>6. Plan(u)
  <2>1. ASSUME NEW k \in 1 .. n
        PROVE  /\ u[k] = "write" /\ k > 1 => u[k - 1] = "open"
               /\ u[k] = "drain" => k = n /\ (k > 1 => u[k - 1] = "callbacks")
               /\ u[k] = "read" => k = 1 \/ (k = 2 /\ u[1] = "cb")
               /\ u[k] = "flush" => k < n /\ u[k + 1] = "callbacks"
    <3>1. k + 1 \in 1 .. n + 1 /\ k + 1 > 1 /\ k + 1 - 1 = k /\ u[k] = s[k + 1]
      BY <1>2
    <3>2. /\ s[k + 1] = "write" => s[k] = "open"
          /\ s[k + 1] = "drain" => k + 1 = n + 1 /\ s[k] = "callbacks"
          /\ s[k + 1] = "read" => k + 1 = 2
          /\ s[k + 1] = "flush" => k + 1 < n + 1 /\ s[k + 1 + 1] = "callbacks"
      BY <1>3, <3>1
    <3>3. k > 1 => u[k - 1] = s[k]
      <4>1. k > 1 => k - 1 \in 1 .. n /\ k - 1 + 1 = k
        OBVIOUS
      <4> QED
        BY Zenon, <1>2, <4>1
    <3>4. k < n => u[k + 1] = s[k + 1 + 1]
      <4>1. k < n => k + 1 \in 1 .. n
        OBVIOUS
      <4> QED
        BY Zenon, <1>2, <4>1
    <3> QED
      BY <3>1, <3>2, <3>3, <3>4
  <2>2. ~(Among("ended", u) /\ Among("read", u))
    BY Zenon, <1>4 DEF Plan
  <2> QED
    BY Zenon, <1>2, <2>1, <2>2 DEF Plan
<1>7. ASSUME u # << >>
      PROVE  /\ u[1] = Head(u)
             /\ u[1] = "write" => s[1] = "open"
             /\ u[1] = "drain" => s[1] = "callbacks"
             /\ u[1] = "read" => s[1] = "cb"
  <2>1. n > 0 /\ Head(u) = u[1]
    BY <1>2, <1>7
  <2>2. u[1] = s[2] /\ 2 \in 1 .. n + 1
    BY <1>2, <2>1
  <2> QED
    BY <1>3, <2>1, <2>2
<1>8. Among("read", u) => s[1] = "cb"
  <2> SUFFICES ASSUME Among("read", u) PROVE s[1] = "cb"
    OBVIOUS
  <2>1. PICK k \in 1 .. n : u[k] = "read"
    BY Zenon, <1>2 DEF Among
  <2>2. k + 1 \in 1 .. n + 1 /\ s[k + 1] = "read" /\ k + 1 # 1
    BY <1>2, <2>1
  <2> QED
    BY Zenon, <1>3, <2>2
<1>9. s[1] = "drain" => u = << >>
  <2>1. 1 \in 1 .. n + 1
    OBVIOUS
  <2>2. s[1] = "drain" => n = 0
    BY <1>3, <2>1
  <2> QED
    BY <1>2, <2>2
<1>10. s[1] = "flush" => Among("callbacks", u)
  <2> SUFFICES ASSUME s[1] = "flush" PROVE Among("callbacks", u)
    OBVIOUS
  <2>1. 1 \in 1 .. n + 1 /\ 1 + 1 = 2
    OBVIOUS
  <2>2. n > 0 /\ s[2] = "callbacks"
    BY <1>3, <2>1
  <2>3. 1 \in 1 .. n /\ u[1] = "callbacks"
    BY <1>2, <2>1, <2>2
  <2> QED
    BY Zenon, <1>2, <2>3 DEF Among
<1>11. Head(s) = s[1]
  BY Zenon, TailIs
<1> QED
  BY Zenon, <1>2, <1>4, <1>5, <1>6, <1>7, <1>8, <1>9, <1>10, <1>11

-----------------------------------------------------------------------------
(* The invariant.                                                          *)

LEMMA Vars ==
  ASSUME TypeInv
  PROVE  /\ queue \in Seq(Writes) /\ completed \in Seq(Writes)
         /\ left \in [Writes -> Nat] /\ error \in [Writes -> {"ok", "failed"}]
         /\ size \in Nat /\ pevents \subseteq {"in", "out"} /\ fed \in BOOLEAN
         /\ flags \subseteq Flags /\ wire \in Seq(Writes) /\ dead \in BOOLEAN
         /\ Now.queue = queue /\ Now.completed = completed /\ Now.left = left
         /\ Now.error = error /\ Now.size = size /\ Now.pevents = pevents
         /\ Now.fed = fed /\ Now.flags = flags /\ Now.wire = wire /\ Now.dead = dead
  BY Zenon DEF TypeInv, Now, Rec

\* A step that does not touch the requests.
LEMMA RequestsKeep ==
  ASSUME Inv, UNCHANGED <<bytes, state, asked, queues>>, before' \subseteq Writes,
         \A r \in before' : state[r] \in {"queued", "done"},
         connect' \in {"none", "inprogress", "delayed", "done"},
         pevents' \subseteq {"in", "out"}, fed' \in BOOLEAN, flags' \subseteq Flags,
         dead' \in BOOLEAN, todo' \in Seq(StepNames), count' \in Nat,
         stranded' \in BOOLEAN,
         dead => dead', flags \cap {"SHUT", "CLOSING"} \subseteq flags'
  PROVE  TypeInv' /\ Good(Now, asked)' /\ CallInv'
<1>1. TypeInv
  BY Zenon DEF Inv
<1>2. /\ queue' = queue /\ completed' = completed /\ left' = left /\ error' = error
      /\ size' = size /\ wire' = wire /\ bytes' = bytes /\ state' = state
      /\ asked' = asked
  BY Zenon DEF queues
<1>3. Now' \in Rec
  BY Zenon, <1>1, <1>2, Vars DEF Now, Rec
<1>4. TypeInv'
  BY Zenon, <1>1, <1>2, <1>3 DEF TypeInv
<1>5. PICK w \in Rec : w = Now
  BY Zenon, <1>1 DEF TypeInv
<1>6. PICK v \in Rec : v = Now'
  BY Zenon, <1>3
<1>7. /\ v.queue = w.queue /\ v.completed = w.completed /\ v.left = w.left
      /\ v.error = w.error /\ v.size = w.size /\ v.wire = w.wire
      /\ v.dead = dead' /\ v.flags = flags' /\ w.dead = dead /\ w.flags = flags
  BY Zenon, <1>2, <1>5, <1>6 DEF Now
<1>8. Sending(v) => Sending(w)
  BY Zenon, <1>7 DEF Sending
<1>9. Good(w, asked)
  BY Zenon, <1>5 DEF Inv
<1>10. Good(v, asked)
  BY Zenon, <1>7, <1>8, <1>9, SameGood
<1>11. Good(Now, asked)'
  BY Zenon, <1>2, <1>6, <1>10
<1>12. Cnt(v) = Cnt(w) /\ \A k : It(v, k) = It(w, k)
  BY Zenon, <1>7 DEF Cnt, It
<1>13. CallInv
  BY Zenon DEF Inv
<1>14. CallInv'
  BY <1>2, <1>5, <1>6, <1>12, <1>13 DEF CallInv
<1> QED
  BY Zenon, <1>4, <1>11, <1>14

LEMMA FrameKeeps ==
  ASSUME Inv, UNCHANGED <<calls, queues>>,
         connect' \in {"none", "inprogress", "delayed", "done"},
         pevents' \subseteq {"in", "out"}, fed' \in BOOLEAN, flags' \subseteq Flags,
         dead' \in BOOLEAN, todo' \in Seq(StepNames), count' \in Nat,
         stranded' \in BOOLEAN,
         dead => dead', flags \cap {"SHUT", "CLOSING"} \subseteq flags'
  PROVE  TypeInv' /\ Good(Now, asked)' /\ CallInv'
<1>1. UNCHANGED <<bytes, state, asked, queues>> /\ before' = before
  BY Zenon DEF calls
<1>2. before' \subseteq Writes /\ \A r \in before' : state[r] \in {"queued", "done"}
  BY Zenon, <1>1 DEF Inv, TypeInv, CallInv
<1> QED
  BY Zenon, <1>1, <1>2, RequestsKeep

\* The calls that change only flags and what is waited for.
LEMMA ConnectKeeps ==
  ASSUME Inv, uv__tcp_connect
  PROVE  Inv'
<1>1. TypeInv /\ PlanInv /\ AtInv /\ ConnInv /\ StallInv
  BY Zenon DEF Inv
<1>2. /\ connect = "none" /\ ~Has("CLOSING") /\ todo' = todo /\ flags' = flags /\ dead' = dead
      /\ connect' \in {"inprogress", "delayed"} /\ fed' = (connect' = "delayed")
      /\ pevents' = pevents \cup {"out"} /\ count' = count /\ stranded' = stranded
      /\ UNCHANGED <<calls, queues>> /\ queue' = queue /\ completed' = completed
  BY Zenon DEF uv__tcp_connect, queues
<1>3. TypeInv' /\ Good(Now, asked)' /\ CallInv'
  <2>1. /\ pevents' \subseteq {"in", "out"} /\ fed' \in BOOLEAN /\ flags' \subseteq Flags
        /\ dead' \in BOOLEAN /\ todo' \in Seq(StepNames) /\ count' \in Nat /\ stranded' \in BOOLEAN
    BY Zenon, <1>1, <1>2, Vars DEF TypeInv
  <2> QED
    BY Zenon, <1>2, <2>1, FrameKeeps
<1>4. todo = << >> /\ pevents = {} /\ queue = << >> /\ completed = << >> /\ ~dead
      /\ flags \subseteq {"CLOSING"}
  BY Zenon, <1>1, <1>2 DEF ConnInv
<1>5. PlanInv'
  BY Zenon, <1>1, <1>2 DEF PlanInv, Has
<1>6. AtInv'
  BY Zenon, <1>2, <1>4 DEF AtInv, At, Has
<1>7. ConnInv'
  BY Zenon, <1>2, <1>4 DEF ConnInv, Has
<1>8. StallInv'
  BY Zenon, <1>2, <1>4 DEF StallInv, Has, Open
<1>9. ClosingInv'
  BY Zenon, <1>2 DEF Inv, ClosingInv, Has, In
<1> QED
  BY Zenon, <1>3, <1>5, <1>6, <1>7, <1>8, <1>9 DEF Inv

=============================================================================
