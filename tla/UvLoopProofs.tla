---------------------------- MODULE UvLoopProofs ----------------------------
(***************************************************************************)
(* Proofs about the event loop, for any timers, evlists and delays.        *)
(***************************************************************************)
EXTENDS UvLoop, FiniteSetTheorems, TLAPS

Loop == [time : Nat, heap : SUBSET Timers, timer_counter : Nat,
         active_handles : Int, closing : SUBSET Timers,
         closing_handles : Seq(Timers), fresh : SUBSET Timers,
         timer : [Timers -> Timer]]

-----------------------------------------------------------------------------
(* What libuv's functions do to the loop.                                  *)

\* uv_timer_start computes loop->time + timeout, or the largest word when
\* the sum does not fit.
LEMMA ClampedValue ==
  ASSUME NEW time \in Nat, time < MaxWord, NEW d \in 0 .. MaxWord
  PROVE  /\ Clamped(time, d) \in 0 .. MaxWord
         /\ Clamped(time, d) \in {time + d, MaxWord}
         /\ time + d <= MaxWord => Clamped(time, d) = time + d
<1>1. MaxWord \in Nat
  BY Zenon, LoopAssumption
<1>2. CASE time + d <= MaxWord
  <2>1. (time + d) % (MaxWord + 1) = time + d
    BY <1>1, <1>2
  <2> QED
    BY <1>1, <1>2, <2>1 DEF Clamped
<1>3. CASE time + d > MaxWord
  <2>1. (time + d) % (MaxWord + 1) = time + d - (MaxWord + 1)
    BY <1>1, <1>3
  <2> QED
    BY <1>1, <1>3, <2>1 DEF Clamped
<1> QED
  BY <1>1, <1>2, <1>3

\* Fields of the right type make a loop: the updates libuv makes.
LEMMA LoopHeap ==
  ASSUME NEW l \in Loop, NEW h \in SUBSET Timers, NEW a \in Int
  PROVE  [l EXCEPT !.heap = h, !.active_handles = a] \in Loop
BY Zenon DEF Loop

\* The update of uv_timer_start.
LEMMA LoopStart ==
  ASSUME NEW l \in Loop, NEW h \in SUBSET Timers, NEW a \in Int, NEW n \in Nat,
         NEW f \in SUBSET Timers, NEW r \in [Timers -> Timer]
  PROVE  [l EXCEPT !.timer = r, !.timer_counter = n, !.heap = h,
                   !.active_handles = a, !.fresh = f] \in Loop
BY Zenon DEF Loop

\* The update of uv_close.
LEMMA LoopClose ==
  ASSUME NEW l \in Loop, NEW c \in SUBSET Timers, NEW q \in Seq(Timers)
  PROVE  [l EXCEPT !.closing = c, !.closing_handles = q] \in Loop
BY Zenon DEF Loop

\* uv_timer_stop only takes the timer out of the heap.
LEMMA StopEffect ==
  ASSUME NEW l \in Loop, NEW t \in Timers
  PROVE  LET s == uv_timer_stop(l, t)
         IN  /\ s \in Loop
             /\ s.heap = l.heap \ {t}
             /\ s.timer = l.timer /\ s.time = l.time
             /\ s.closing = l.closing
             /\ s.closing_handles = l.closing_handles
<1>1. l.heap \ {t} \in SUBSET Timers /\ l.active_handles - 1 \in Int
  BY DEF Loop
<1>2. [l EXCEPT !.heap = l.heap \ {t},
                !.active_handles = l.active_handles - 1] \in Loop
  BY Zenon, <1>1, LoopHeap
<1>3. uv_timer_stop(l, t) \in Loop
  BY Zenon, <1>2 DEF uv_timer_stop
<1> QED
  BY Zenon, <1>3 DEF uv_timer_stop, Loop

\* uv_timer_start puts the timer into the heap.
LEMMA StartEffect ==
  ASSUME NEW l \in Loop, NEW t \in Timers, l.time < MaxWord,
         NEW d \in 0 .. MaxWord, NEW repeat \in 0 .. MaxWord
  PROVE  LET s == uv_timer_start(l, t, d, repeat)
         IN  /\ s \in Loop
             /\ s.heap = l.heap \cup {t}
             /\ \A u \in Timers \ {t} : s.timer[u] = l.timer[u]
             /\ s.timer[t].timeout = Clamped(l.time, d)
             /\ s.timer[t].base = l.time /\ s.timer[t].delay = d
             /\ s.time = l.time
             /\ s.closing = l.closing
             /\ s.closing_handles = l.closing_handles
<1> DEFINE s == uv_timer_stop(l, t)
           rec == [timeout |-> Clamped(s.time, d), repeat |-> repeat,
                   start_id |-> s.timer_counter, base |-> s.time, delay |-> d]
           r == uv_timer_start(l, t, d, repeat)
<1>1. /\ s \in Loop /\ s.heap = l.heap \ {t} /\ s.timer = l.timer
      /\ s.time = l.time /\ s.closing = l.closing
      /\ s.closing_handles = l.closing_handles
  BY Zenon, StopEffect
<1>2. r = [s EXCEPT !.timer[t] = rec, !.timer_counter = @ + 1,
                    !.heap = @ \cup {t}, !.active_handles = @ + 1,
                    !.fresh = @ \cup {t}]
  BY Zenon DEF uv_timer_start
<1>3. l.time \in Nat
  BY Zenon DEF Loop
<1>4. rec \in Timer
  BY Zenon, <1>1, <1>3, ClampedValue DEF Timer, Loop
<1> HIDE DEF s, rec, r
<1>8. /\ [s.timer EXCEPT ![t] = rec] \in [Timers -> Timer]
      /\ s.timer_counter + 1 \in Nat /\ s.heap \cup {t} \in SUBSET Timers
      /\ s.active_handles + 1 \in Int /\ s.fresh \cup {t} \in SUBSET Timers
  BY <1>1, <1>4 DEF Loop
<1>9. r = [s EXCEPT !.timer = [s.timer EXCEPT ![t] = rec],
                    !.timer_counter = s.timer_counter + 1,
                    !.heap = s.heap \cup {t},
                    !.active_handles = s.active_handles + 1,
                    !.fresh = s.fresh \cup {t}]
  BY Zenon, <1>2
<1>10. r \in Loop
  BY Zenon, <1>1, <1>8, <1>9, LoopStart
<1>5. /\ r.heap = s.heap \cup {t}
      /\ r.timer = [s.timer EXCEPT ![t] = rec]
      /\ r.time = s.time /\ r.closing = s.closing
      /\ r.closing_handles = s.closing_handles
  BY Zenon, <1>1, <1>9 DEF Loop
<1>6. /\ rec.timeout = Clamped(s.time, d) /\ rec.base = s.time
      /\ rec.delay = d
  BY Zenon DEF rec
<1>7. s.timer \in [Timers -> Timer]
  BY Zenon, <1>1 DEF Loop
<1> QED
  BY <1>1, <1>5, <1>6, <1>7, <1>10 DEF r

\* uv_close takes the timer out of the heap and puts it on the list.
LEMMA CloseEffect ==
  ASSUME NEW l \in Loop, NEW t \in Timers
  PROVE  LET s == uv_close(l, t)
         IN  /\ s \in Loop
             /\ s.heap = l.heap \ {t}
             /\ s.timer = l.timer /\ s.time = l.time
             /\ s.closing = l.closing \cup {t}
             /\ s.closing_handles = <<t>> \o l.closing_handles
<1> DEFINE s == uv_timer_stop(l, t)
<1>1. /\ s \in Loop /\ s.heap = l.heap \ {t} /\ s.timer = l.timer
      /\ s.time = l.time /\ s.closing = l.closing
      /\ s.closing_handles = l.closing_handles
  BY Zenon, StopEffect
<1> DEFINE c == s.closing \cup {t}
           q == <<t>> \o s.closing_handles
<1>2. c \in SUBSET Timers /\ q \in Seq(Timers)
  BY <1>1 DEF Loop
<1>3. uv_close(l, t) = [s EXCEPT !.closing = c, !.closing_handles = q]
  BY Zenon DEF uv_close
<1> HIDE DEF s, c, q
<1>4. s \in Loop
  BY Zenon, <1>1
<1>5. [s EXCEPT !.closing = c, !.closing_handles = q] \in Loop
  BY Zenon, <1>4, <1>2, LoopClose
<1>6. uv_close(l, t) \in Loop
  BY Zenon, <1>5, <1>3
<1>7. LET x == uv_close(l, t)
      IN  /\ x.heap = s.heap /\ x.timer = s.timer /\ x.time = s.time
          /\ x.closing = c /\ x.closing_handles = q
  BY <1>1, <1>3 DEF Loop
<1> QED
  BY Zenon, <1>1, <1>6, <1>7 DEF c, q

-----------------------------------------------------------------------------
(* The invariant.                                                          *)

\* What uv_timer_start computed, or the largest word.
TimedOk(l, t) ==
  l.timer[t].timeout \in {l.timer[t].base + l.timer[t].delay, MaxWord}

\* Between uv__run_timers and the registration of the fds in the same
\* iteration, while loop->time stands still.
TimersPhase ==
  \/ phase \in {"timers", "poll", "exited"}
  \/ phase = "callback" /\ ret = "timers"

LoopInv ==
  /\ clock \in Nat /\ clock < MaxWord
  /\ loop \in Loop /\ loop.time <= clock
  /\ data \in [Timers -> {"none", "live", "freed"}]
  /\ watcher \in [Evlists -> {"none", "queued", "polled"}]
  /\ closeq \in Seq(Timers)

TimedInv == \A t \in loop.heap : TimedOk(loop, t)

\* The lists of closing handles hold closing handles, and those are not
\* active and were allocated.
CloseInv ==
  /\ \A t \in loop.heap : data[t] = "live" /\ t \notin loop.closing
  /\ \A t \in Timers : data[t] = "none" => t \notin loop.closing
  /\ \A n \in 1 .. Len(loop.closing_handles) :
       loop.closing_handles[n] \in loop.closing
  /\ \A n \in 1 .. Len(closeq) : closeq[n] \in loop.closing

\* The first timer of perf.on is followed by the second, and the second is
\* due only after epoll watches the fds.
Startup(e) ==
  /\ watcher[e] = "none" =>
       data[AddTimer(e)] = "none" /\ data[EnableTimer(e)] = "none"
  /\ AddTimer(e) \in loop.heap =>
       AddTimer(e) \in once /\ data[EnableTimer(e)] = "none"
  /\ EnableTimer(e) \in loop.heap =>
       \/ watcher[e] = "polled"
       \/ TimersPhase /\ loop.timer[EnableTimer(e)].timeout > loop.time
  /\ e \in enabled => watcher[e] = "polled"

StartupInv == \A e \in Evlists : Startup(e)

Inv == LoopInv /\ TimedInv /\ CloseInv /\ StartupInv

\* The timers of an evlist are two, and no timers of the script.
LEMMA TimerIds ==
  /\ UserTimers \subseteq Timers
  /\ \A e \in Evlists : AddTimer(e) \in Timers \ UserTimers
                       /\ EnableTimer(e) \in Timers \ UserTimers
  /\ \A d, e \in Evlists : /\ AddTimer(d) # EnableTimer(e)
                           /\ AddTimer(d) = AddTimer(e) => d = e
                           /\ EnableTimer(d) = EnableTimer(e) => d = e
BY LoopAssumption DEF Timers, AddTimer, EnableTimer

\* The invariant holds before the script runs.
LEMMA InitInv == Init => Inv
<1> SUFFICES ASSUME Init PROVE Inv
  OBVIOUS
<1> DEFINE zero == [timeout |-> 0, repeat |-> 0, start_id |-> 0, base |-> 0,
                    delay |-> 0]
<1>1. MaxWord \in Nat /\ MaxWord > 0
  BY LoopAssumption
<1>2. zero \in Timer
  BY <1>1 DEF Timer
<1>3. [t \in Timers |-> zero] \in [Timers -> Timer]
  BY Zenon, <1>2
<1>4. loop \in Loop
  BY <1>3 DEF Init, Loop
<1>5. /\ loop.heap = {} /\ loop.closing = {} /\ loop.closing_handles = << >>
      /\ loop.time = 0
  BY Zenon DEF Init
<1>6. LoopInv
  BY <1>1, <1>4, <1>5 DEF Init, LoopInv
<1>7. TimedInv /\ CloseInv
  BY <1>5 DEF Init, TimedInv, CloseInv
<1>8. StartupInv
  BY Zenon, <1>5, TimerIds DEF Init, StartupInv, Startup
<1> QED
  BY Zenon, <1>6, <1>7, <1>8 DEF Inv

\* A timer that was just started.
LEMMA StartTimed ==
  ASSUME NEW l \in Loop, NEW t \in Timers, l.time < MaxWord,
         NEW d \in 0 .. MaxWord, NEW repeat \in 0 .. MaxWord
  PROVE  TimedOk(uv_timer_start(l, t, d, repeat), t)
<1>1. l.time \in Nat
  BY Zenon DEF Loop
<1>2. Clamped(l.time, d) \in {l.time + d, MaxWord}
  BY Zenon, <1>1, ClampedValue
<1> DEFINE s == uv_timer_start(l, t, d, repeat)
<1>3. /\ s.timer[t].timeout = Clamped(l.time, d)
      /\ s.timer[t].base = l.time /\ s.timer[t].delay = d
  BY StartEffect
<1> QED
  BY Zenon, <1>2, <1>3 DEF TimedOk

\* What uv__run_timers and the wrapper ontimeout do before the callback of t.
LEMMA FireEffect ==
  ASSUME Inv, NEW t \in Timers
  PROVE  LET l == ontimeout(uv_timer_again(uv_timer_stop(loop, t), t), t)
         IN  /\ l \in Loop /\ l.time = loop.time
             /\ l.heap \ {t} = loop.heap \ {t}
             /\ \A u \in Timers \ {t} : l.timer[u] = loop.timer[u]
             /\ t \in l.heap => TimedOk(l, t) /\ t \notin once
             /\ \/ /\ t \notin once /\ l.closing = loop.closing
                   /\ l.closing_handles = loop.closing_handles
                \/ /\ t \in once /\ l.closing = loop.closing \cup {t}
                   /\ l.closing_handles = <<t>> \o loop.closing_handles
<1> DEFINE s == uv_timer_stop(loop, t)
           a == uv_timer_again(s, t)
           l == ontimeout(a, t)
<1>1. loop \in Loop /\ loop.time < MaxWord /\ loop.time \in Nat
  BY LoopAssumption DEF Inv, LoopInv, Loop
<1>2. /\ s \in Loop /\ s.heap = loop.heap \ {t} /\ s.timer = loop.timer
      /\ s.time = loop.time /\ s.closing = loop.closing
      /\ s.closing_handles = loop.closing_handles
  BY Zenon, <1>1, StopEffect
<1> HIDE DEF s
<1>3. /\ a \in Loop /\ a.heap \ {t} = s.heap \ {t}
      /\ \A u \in Timers \ {t} : a.timer[u] = s.timer[u]
      /\ t \in a.heap => TimedOk(a, t)
      /\ a.time = s.time /\ a.closing = s.closing
      /\ a.closing_handles = s.closing_handles
  <2> DEFINE repeat == s.timer[t].repeat
             z == uv_timer_stop(s, t)
  <2>1. repeat \in 0 .. MaxWord
    BY Zenon, <1>2 DEF Loop, Timer
  <2>2. CASE repeat = 0
    BY Zenon, <1>2, <2>2 DEF uv_timer_again
  <2>3. CASE repeat # 0
    <3>1. /\ z \in Loop /\ z.heap = s.heap \ {t} /\ z.timer = s.timer
          /\ z.time = s.time /\ z.closing = s.closing
          /\ z.closing_handles = s.closing_handles
      BY Zenon, <1>2, StopEffect
    <3>2. a = uv_timer_start(z, t, repeat, repeat)
      BY Zenon, <2>3 DEF uv_timer_again
    <3> HIDE DEF z, repeat, a
    <3>3. z.time < MaxWord
      BY Zenon, <1>1, <1>2, <3>1
    <3>4. TimedOk(a, t)
      BY Zenon, <2>1, <3>1, <3>2, <3>3, StartTimed
    <3>5. /\ a \in Loop /\ a.heap = z.heap \cup {t}
          /\ \A u \in Timers \ {t} : a.timer[u] = z.timer[u]
          /\ a.time = z.time /\ a.closing = z.closing
          /\ a.closing_handles = z.closing_handles
      BY <2>1, <3>1, <3>2, <3>3, StartEffect
    <3> QED
      BY Zenon, <3>1, <3>4, <3>5
  <2> QED
    BY Zenon, <2>2, <2>3
<1> HIDE DEF a
<1>4. CASE t \notin once
  <2>1. l = a
    BY Zenon, <1>4 DEF ontimeout
  <2> QED
    BY Zenon, <1>2, <1>3, <1>4, <2>1 DEF s, a
<1>5. CASE t \in once
  <2> DEFINE z == uv_timer_stop(a, t)
  <2>1. /\ z \in Loop /\ z.heap = a.heap \ {t} /\ z.timer = a.timer
        /\ z.time = a.time /\ z.closing = a.closing
        /\ z.closing_handles = a.closing_handles
    BY Zenon, <1>3, StopEffect
  <2>2. l = uv_close(z, t)
    BY Zenon, <1>5 DEF ontimeout
  <2> HIDE DEF z, l
  <2>3. /\ l \in Loop /\ l.heap = z.heap \ {t} /\ l.timer = z.timer
        /\ l.time = z.time /\ l.closing = z.closing \cup {t}
        /\ l.closing_handles = <<t>> \o z.closing_handles
    BY Zenon, <2>1, <2>2, CloseEffect
  <2> QED
    BY <1>2, <1>3, <1>5, <2>1, <2>3 DEF s, a, l
<1> QED
  BY Zenon, <1>4, <1>5

\* The elements of a list after a handle was put in front of it.
LEMMA ConsMembers ==
  ASSUME NEW q \in Seq(Timers), NEW t \in Timers, NEW C,
         \A n \in 1 .. Len(q) : q[n] \in C
  PROVE  \A n \in 1 .. Len(<<t>> \o q) : (<<t>> \o q)[n] \in C \cup {t}
<1> SUFFICES ASSUME NEW n \in 1 .. Len(<<t>> \o q)
             PROVE  (<<t>> \o q)[n] \in C \cup {t}
  OBVIOUS
<1>1. Len(<<t>> \o q) = Len(q) + 1 /\ Len(q) \in Nat
  OBVIOUS
<1>2. CASE n = 1
  BY <1>1, <1>2
<1>3. CASE n # 1
  <2>1. n - 1 \in 1 .. Len(q)
    BY <1>1, <1>3
  <2>2. (<<t>> \o q)[n] = q[n - 1]
    BY <1>1, <1>3
  <2> QED
    BY Zenon, <2>1, <2>2
<1> QED
  BY Zenon, <1>2, <1>3

\* Steps that leave the loop, the handles and the watchers alone.
LEMMA QuietStep ==
  ASSUME Inv, UNCHANGED <<loop, closeq, data, once, watcher, enabled>>,
         clock' \in {clock, clock + 1}, clock' < MaxWord,
         TimersPhase => TimersPhase'
  PROVE  Inv'
<1>1. LoopInv'
  BY DEF Inv, LoopInv, Loop
<1>2. TimedInv' /\ CloseInv'
  BY Zenon DEF Inv, TimedInv, TimedOk, CloseInv
<1>3. StartupInv'
  BY Zenon DEF Inv, StartupInv, Startup
<1> QED
  BY Zenon, <1>1, <1>2, <1>3 DEF Inv

\* set_timeout and set_interval start a timer that was never used.
LEMMA SetTimerStep ==
  ASSUME Inv, NEW t \in UserTimers, NEW d \in Delays, NEW interval \in BOOLEAN,
         SetTimer(t, d, interval)
  PROVE  Inv'
<1> DEFINE repeat == IF interval THEN d ELSE 0
<1>1. /\ t \in Timers /\ d \in 0 .. MaxWord /\ repeat \in 0 .. MaxWord
      /\ loop \in Loop /\ loop.time < MaxWord /\ loop.time \in Nat
  BY LoopAssumption, TimerIds DEF Inv, LoopInv, Loop
<1>2. /\ data[t] = "none" /\ data' = [data EXCEPT ![t] = "live"]
      /\ once \subseteq once'
      /\ loop' = uv_timer_start(loop, t, d, repeat)
      /\ UNCHANGED <<clock, phase, ret, closeq, watcher, enabled>>
  BY Zenon DEF SetTimer
<1> HIDE DEF repeat
<1>3. /\ loop' \in Loop /\ loop'.heap = loop.heap \cup {t}
      /\ \A u \in Timers \ {t} : loop'.timer[u] = loop.timer[u]
      /\ loop'.time = loop.time /\ loop'.closing = loop.closing
      /\ loop'.closing_handles = loop.closing_handles
  BY <1>1, <1>2, StartEffect
<1>4. TimedOk(loop', t)
  BY Zenon, <1>1, <1>2, StartTimed
<1>5. LoopInv'
  BY Zenon, <1>1, <1>2, <1>3 DEF Inv, LoopInv
<1>6. TimedInv'
  BY Zenon, <1>1, <1>3, <1>4 DEF Inv, TimedInv, TimedOk, LoopInv, Loop
<1>7. CloseInv'
  BY <1>1, <1>2, <1>3 DEF Inv, CloseInv, LoopInv
<1>8. TimersPhase' = TimersPhase
  BY Zenon, <1>2 DEF TimersPhase
<1>9. StartupInv'
  BY <1>1, <1>2, <1>3, <1>8, TimerIds DEF Inv, StartupInv, Startup, LoopInv
<1> QED
  BY Zenon, <1>5, <1>6, <1>7, <1>9 DEF Inv

\* uv.timer_stop only takes a timer out of the heap.
LEMMA StopTimerStep ==
  ASSUME Inv, NEW t \in UserTimers, StopTimer(t)
  PROVE  Inv'
<1>1. t \in Timers /\ loop \in Loop
  BY Zenon, TimerIds DEF Inv, LoopInv
<1>2. UNCHANGED <<clock, ret, closeq, data, once, watcher, enabled>>
  BY Zenon DEF StopTimer
<1>3. CASE phase' = "exited" /\ UNCHANGED loop
  BY Zenon, <1>2, <1>3, QuietStep DEF TimersPhase, Inv, LoopInv
<1>4. CASE loop' = uv_timer_stop(loop, t) /\ UNCHANGED phase
  <2>1. /\ loop' \in Loop /\ loop'.heap = loop.heap \ {t}
        /\ loop'.timer = loop.timer /\ loop'.time = loop.time
        /\ loop'.closing = loop.closing
        /\ loop'.closing_handles = loop.closing_handles
    BY Zenon, <1>1, <1>4, StopEffect
  <2>2. LoopInv'
    BY Zenon, <1>2, <2>1 DEF Inv, LoopInv
  <2>3. TimedInv' /\ CloseInv'
    BY Zenon, <1>2, <2>1 DEF Inv, TimedInv, TimedOk, CloseInv
  <2>4. TimersPhase' = TimersPhase
    BY Zenon, <1>2, <1>4 DEF TimersPhase
  <2>5. StartupInv'
    BY Zenon, <1>2, <2>1, <2>4 DEF Inv, StartupInv, Startup
  <2> QED
    BY Zenon, <2>2, <2>3, <2>5 DEF Inv
<1> QED
  BY Zenon, <1>3, <1>4 DEF StopTimer

\* uv.close takes the timer out of the heap before it is closing.
LEMMA CloseTimerStep ==
  ASSUME Inv, NEW t \in UserTimers, CloseTimer(t)
  PROVE  Inv'
<1>1. t \in Timers /\ loop \in Loop
  BY Zenon, TimerIds DEF Inv, LoopInv
<1>2. UNCHANGED <<clock, ret, closeq, data, once, watcher, enabled>>
      /\ data[t] # "none"
  BY Zenon DEF CloseTimer
<1>3. CASE phase' = "exited" /\ UNCHANGED loop
  BY Zenon, <1>2, <1>3, QuietStep DEF TimersPhase, Inv, LoopInv
<1>4. CASE loop' = uv_close(loop, t) /\ UNCHANGED phase
  <2>1. /\ loop' \in Loop /\ loop'.heap = loop.heap \ {t}
        /\ loop'.timer = loop.timer /\ loop'.time = loop.time
        /\ loop'.closing = loop.closing \cup {t}
        /\ loop'.closing_handles = <<t>> \o loop.closing_handles
    BY Zenon, <1>1, <1>4, CloseEffect
  <2>2. LoopInv'
    BY Zenon, <1>2, <2>1 DEF Inv, LoopInv
  <2>3. TimedInv'
    BY Zenon, <1>2, <2>1 DEF Inv, TimedInv, TimedOk
  <2>4. \A n \in 1 .. Len(loop'.closing_handles) :
          loop'.closing_handles[n] \in loop'.closing
    <3>1. loop.closing_handles \in Seq(Timers)
      BY Zenon, <1>1 DEF Loop
    <3>2. \A n \in 1 .. Len(loop.closing_handles) :
            loop.closing_handles[n] \in loop.closing
      BY Zenon DEF Inv, CloseInv
    <3> QED
      BY Zenon, <1>1, <2>1, <3>1, <3>2, ConsMembers
  <2>5. CloseInv'
    BY Zenon, <1>2, <2>1, <2>4 DEF Inv, CloseInv
  <2>6. TimersPhase' = TimersPhase
    BY Zenon, <1>2, <1>4 DEF TimersPhase
  <2>7. StartupInv'
    BY Zenon, <1>2, <2>1, <2>6 DEF Inv, StartupInv, Startup
  <2> QED
    BY Zenon, <2>2, <2>3, <2>5, <2>7 DEF Inv
<1> QED
  BY Zenon, <1>3, <1>4 DEF CloseTimer

\* perf.on queues its watchers before it starts its first timer.
LEMMA PerfOnStep ==
  ASSUME Inv, NEW e \in Evlists, PerfOn(e)
  PROVE  Inv'
<1> DEFINE t == AddTimer(e)
           l == [loop EXCEPT !.active_handles = loop.active_handles + 1]
<1>1. /\ t \in Timers /\ loop \in Loop /\ loop.time < MaxWord
      /\ loop.time \in Nat /\ 0 \in 0 .. MaxWord
  BY LoopAssumption, TimerIds DEF Inv, LoopInv, Loop
<1>2. /\ watcher[e] = "none" /\ watcher' = [watcher EXCEPT ![e] = "queued"]
      /\ data' = [data EXCEPT ![t] = "live"]
      /\ once' = once \cup {t}
      /\ loop' = uv_timer_start(l, t, 0, 0)
      /\ UNCHANGED <<clock, phase, ret, closeq, enabled>>
  BY Zenon DEF PerfOn
<1>3. /\ l \in Loop /\ l.heap = loop.heap /\ l.timer = loop.timer
      /\ l.time = loop.time /\ l.closing = loop.closing
      /\ l.closing_handles = loop.closing_handles
  <2>1. loop.active_handles + 1 \in Int
    BY <1>1 DEF Loop
  <2> QED
    BY Zenon, <1>1, <2>1 DEF Loop
<1>4. data[t] = "none" /\ data[EnableTimer(e)] = "none" /\ t \notin loop.closing
  BY Zenon, <1>1, <1>2 DEF Inv, StartupInv, Startup, CloseInv
<1> HIDE DEF l, t
<1>5. /\ loop' \in Loop /\ loop'.heap = loop.heap \cup {t}
      /\ \A u \in Timers \ {t} : loop'.timer[u] = loop.timer[u]
      /\ loop'.time = loop.time /\ loop'.closing = loop.closing
      /\ loop'.closing_handles = loop.closing_handles
  BY <1>1, <1>2, <1>3, StartEffect
<1>6. TimedOk(loop', t)
  BY Zenon, <1>1, <1>2, <1>3, StartTimed
<1>7. LoopInv'
  BY Zenon, <1>1, <1>2, <1>5 DEF Inv, LoopInv
<1>8. TimedInv'
  BY Zenon, <1>1, <1>5, <1>6 DEF Inv, TimedInv, TimedOk, LoopInv, Loop
<1>9. CloseInv'
  BY <1>1, <1>2, <1>4, <1>5 DEF Inv, CloseInv, LoopInv
<1>10. TimersPhase' = TimersPhase
  BY Zenon, <1>2 DEF TimersPhase
<1>11. /\ EnableTimer(e) \notin loop'.heap /\ e \notin enabled
       /\ data'[EnableTimer(e)] = "none"
  BY <1>1, <1>2, <1>4, <1>5, TimerIds DEF Inv, CloseInv, StartupInv, Startup, LoopInv, t
<1>12. ASSUME NEW f \in Evlists, f # e
       PROVE  /\ watcher'[f] = watcher[f]
              /\ data'[AddTimer(f)] = data[AddTimer(f)]
              /\ data'[EnableTimer(f)] = data[EnableTimer(f)]
              /\ AddTimer(f) \in loop'.heap <=> AddTimer(f) \in loop.heap
              /\ EnableTimer(f) \in loop'.heap <=> EnableTimer(f) \in loop.heap
              /\ loop'.timer[EnableTimer(f)] = loop.timer[EnableTimer(f)]
  BY Zenon, <1>1, <1>2, <1>5, <1>12, TimerIds DEF Inv, LoopInv, t
<1>13. StartupInv'
  <2> SUFFICES ASSUME NEW f \in Evlists PROVE Startup(f)'
    BY Zenon DEF StartupInv
  <2>1. CASE f = e
    BY Zenon, <1>2, <1>11, <2>1 DEF t, Inv, LoopInv, Startup
  <2>2. CASE f # e
    BY <1>2, <1>5, <1>10, <1>12, <2>2 DEF Inv, StartupInv, Startup
  <2> QED
    BY Zenon, <2>1, <2>2
<1> QED
  BY Zenon, <1>7, <1>8, <1>9, <1>13 DEF Inv

\* A turn of uv__run_timers, for a timer of the script and for those of
\* perf.on.
LEMMA RunTimerStep ==
  ASSUME Inv, NEW t \in Timers, RunTimer(t)
  PROVE  Inv'
<1> DEFINE l == ontimeout(uv_timer_again(uv_timer_stop(loop, t), t), t)
<1>1. /\ l \in Loop /\ l.time = loop.time
      /\ l.heap \ {t} = loop.heap \ {t}
      /\ \A u \in Timers \ {t} : l.timer[u] = loop.timer[u]
      /\ t \in l.heap => TimedOk(l, t) /\ t \notin once
      /\ \/ /\ t \notin once /\ l.closing = loop.closing
            /\ l.closing_handles = loop.closing_handles
         \/ /\ t \in once /\ l.closing = loop.closing \cup {t}
            /\ l.closing_handles = <<t>> \o loop.closing_handles
  BY Zenon, FireEffect
<1>2. /\ phase = "timers" /\ t \in loop.heap
      /\ loop.timer[t].timeout <= loop.time
      /\ UNCHANGED <<clock, closeq, watcher>>
      /\ \/ /\ t \in UserTimers /\ loop' = l
            /\ phase' = "callback" /\ ret' = "timers"
            /\ UNCHANGED <<data, once, enabled>>
         \/ \E e \in Evlists :
              /\ t = AddTimer(e)
              /\ loop' = uv_timer_start(l, EnableTimer(e), 1, 0)
              /\ data' = [data EXCEPT ![EnableTimer(e)] = "live"]
              /\ once' = once \cup {EnableTimer(e)}
              /\ UNCHANGED <<phase, ret, enabled>>
         \/ \E e \in Evlists :
              /\ t = EnableTimer(e) /\ loop' = l
              /\ enabled' = enabled \cup {e}
              /\ UNCHANGED <<phase, ret, data, once>>
  BY Zenon DEF RunTimer, heap_min, InnerTimeout
<1> HIDE DEF l
<1>3. /\ loop \in Loop /\ loop.time < MaxWord /\ loop.time \in Nat
      /\ clock \in Nat /\ MaxWord \in Nat /\ MaxWord > 0
  BY LoopAssumption DEF Inv, LoopInv, Loop
<1>4. data[t] = "live" /\ t \notin loop.closing
  BY Zenon, <1>2 DEF Inv, CloseInv
<1>5. \A n \in 1 .. Len(l.closing_handles) : l.closing_handles[n] \in l.closing
  <2>1. loop.closing_handles \in Seq(Timers)
    BY Zenon, <1>3 DEF Loop
  <2>2. \A n \in 1 .. Len(loop.closing_handles) :
          loop.closing_handles[n] \in loop.closing
    BY Zenon DEF Inv, CloseInv
  <2> QED
    BY Zenon, <1>1, <2>1, <2>2, ConsMembers
<1>6. \A u \in l.heap : TimedOk(l, u)
  <2> SUFFICES ASSUME NEW u \in l.heap, u # t PROVE TimedOk(l, u)
    BY Zenon, <1>1
  <2>1. u \in Timers /\ u \in loop.heap
    BY Zenon, <1>1, <1>3 DEF Loop
  <2> QED
    BY Zenon, <1>1, <2>1 DEF Inv, TimedInv, TimedOk
<1>7. TimersPhase /\ TimersPhase'
  BY Zenon, <1>2 DEF TimersPhase
<1>8. \A u \in l.heap : u \in loop.heap /\ data[u] = "live" /\ u \notin l.closing
  BY <1>1, <1>2, <1>4 DEF Inv, CloseInv
<1>9. \A u \in Timers : data[u] = "none" => u \notin l.closing
  BY <1>1, <1>4 DEF Inv, CloseInv
<1>10. \A n \in 1 .. Len(closeq) : closeq[n] \in l.closing
  BY Zenon, <1>1 DEF Inv, CloseInv
<1>11. ASSUME loop' = l, UNCHANGED data
       PROVE  LoopInv' /\ TimedInv' /\ CloseInv'
  <2>1. LoopInv'
    BY Zenon, <1>1, <1>2, <1>11 DEF Inv, LoopInv
  <2>2. TimedInv'
    BY Zenon, <1>6, <1>11 DEF TimedInv
  <2>3. CloseInv'
    BY Zenon, <1>2, <1>5, <1>8, <1>9, <1>10, <1>11 DEF CloseInv
  <2> QED
    BY Zenon, <2>1, <2>2, <2>3
<1>12. CASE t \in UserTimers /\ loop' = l /\ UNCHANGED <<data, once, enabled>>
  <2> SUFFICES StartupInv'
    BY Zenon, <1>11, <1>12 DEF Inv
  <2> SUFFICES ASSUME NEW f \in Evlists PROVE Startup(f)'
    BY Zenon DEF StartupInv
  <2>1. /\ AddTimer(f) \in l.heap => AddTimer(f) \in loop.heap
        /\ EnableTimer(f) \in l.heap => EnableTimer(f) \in loop.heap
        /\ l.timer[EnableTimer(f)] = loop.timer[EnableTimer(f)]
    BY <1>1, <1>8, <1>12, TimerIds
  <2> QED
    BY Zenon, <1>1, <1>2, <1>7, <1>12, <2>1 DEF Inv, StartupInv, Startup
<1>13. ASSUME NEW e \in Evlists, t = EnableTimer(e), loop' = l,
              enabled' = enabled \cup {e}, UNCHANGED <<data, once>>
       PROVE  Inv'
  <2>1. watcher[e] = "polled"
    <3>1. loop.timer[t].timeout \in Nat
      BY <1>3, LoopAssumption DEF Loop, Timer
    <3>2. ~(loop.timer[t].timeout > loop.time)
      BY <1>2, <1>3, <3>1
    <3> QED
      BY Zenon, <1>2, <1>13, <3>2 DEF Inv, StartupInv, Startup
  <2>2. StartupInv'
    <3> SUFFICES ASSUME NEW f \in Evlists PROVE Startup(f)'
      BY Zenon DEF StartupInv
    <3>1. CASE f = e
      <4>1. AddTimer(f) \in l.heap => AddTimer(f) \in loop.heap
        BY Zenon, <1>8
      <4> QED
        BY Zenon, <1>2, <1>13, <2>1, <3>1, <4>1 DEF Inv, StartupInv, Startup
    <3>2. CASE f # e
      <4>1. /\ AddTimer(f) \in l.heap => AddTimer(f) \in loop.heap
            /\ EnableTimer(f) \in l.heap => EnableTimer(f) \in loop.heap
            /\ l.timer[EnableTimer(f)] = loop.timer[EnableTimer(f)]
        BY Zenon, <1>1, <1>8, <1>13, <3>2, TimerIds
      <4> QED
        BY Zenon, <1>1, <1>2, <1>7, <1>13, <3>2, <4>1 DEF Inv, StartupInv, Startup
    <3> QED
      BY Zenon, <3>1, <3>2
  <2> QED
    BY Zenon, <1>11, <1>13, <2>2 DEF Inv
<1>14. ASSUME NEW e \in Evlists, t = AddTimer(e),
              loop' = uv_timer_start(l, EnableTimer(e), 1, 0),
              data' = [data EXCEPT ![EnableTimer(e)] = "live"],
              once' = once \cup {EnableTimer(e)}, UNCHANGED enabled
       PROVE  Inv'
  <2> DEFINE u == EnableTimer(e)
  <2>1. /\ u \in Timers /\ u # t /\ data[u] = "none" /\ t \in once
        /\ watcher[e] # "none"
    BY Zenon, <1>2, <1>4, <1>14, TimerIds DEF Inv, StartupInv, Startup
  <2>2. 1 \in 0 .. MaxWord /\ 0 \in 0 .. MaxWord /\ l.time < MaxWord
    BY <1>1, <1>3
  <2>3. u \notin l.heap /\ u \notin l.closing /\ t \notin l.heap
    BY Zenon, <1>1, <1>8, <1>9, <2>1
  <2>4. /\ loop' \in Loop /\ loop'.heap = l.heap \cup {u}
        /\ \A v \in Timers \ {u} : loop'.timer[v] = l.timer[v]
        /\ loop'.timer[u].timeout = Clamped(l.time, 1)
        /\ loop'.time = l.time /\ loop'.closing = l.closing
        /\ loop'.closing_handles = l.closing_handles
    BY <1>1, <1>14, <2>1, <2>2, StartEffect
  <2>5. TimedOk(loop', u)
    BY Zenon, <1>1, <1>14, <2>1, <2>2, StartTimed
  <2>6. loop'.timer[u].timeout > loop'.time
    <3>1. Clamped(loop.time, 1) = loop.time + 1
      BY <1>3, <2>2, ClampedValue
    <3> QED
      BY <1>1, <1>3, <2>4, <3>1
  <2> HIDE DEF u
  <2>7. LoopInv'
    BY Zenon, <1>1, <1>2, <1>14, <2>4 DEF Inv, LoopInv, u
  <2>8. TimedInv'
    <3> SUFFICES ASSUME NEW v \in loop'.heap, v # u PROVE TimedOk(loop', v)
      BY Zenon, <2>5 DEF TimedInv
    <3>1. v \in l.heap /\ v \in Timers
      BY Zenon, <1>1, <2>4 DEF Loop
    <3> QED
      BY Zenon, <1>6, <2>4, <3>1 DEF TimedOk
  <2>9. data' = [data EXCEPT ![u] = "live"] /\ data \in [Timers -> {"none", "live", "freed"}]
    BY Zenon, <1>14 DEF u, Inv, LoopInv
  <2>10. CloseInv'
    BY <1>2, <1>5, <1>8, <1>9, <1>10, <2>1, <2>3, <2>4, <2>9 DEF CloseInv
  <2>11. StartupInv'
    <3> SUFFICES ASSUME NEW f \in Evlists PROVE Startup(f)'
      BY Zenon DEF StartupInv
    <3>1. CASE f = e
      <4>1. AddTimer(f) \notin loop'.heap
        BY Zenon, <1>14, <2>1, <2>3, <2>4, <3>1
      <4>2. e \in enabled => watcher[e] = "polled"
        BY Zenon DEF Inv, StartupInv, Startup
      <4> QED
        BY Zenon, <1>2, <1>7, <1>14, <2>1, <2>6, <3>1, <4>1, <4>2 DEF Startup, u
    <3>2. CASE f # e
      <4>1. /\ AddTimer(f) \in loop'.heap => AddTimer(f) \in loop.heap
            /\ EnableTimer(f) \in loop'.heap => EnableTimer(f) \in loop.heap
        BY Zenon, <1>8, <2>4, <3>2, TimerIds DEF u
      <4>2. loop'.timer[EnableTimer(f)] = loop.timer[EnableTimer(f)]
        BY <1>1, <1>14, <2>4, <3>2, TimerIds DEF u
      <4>3. /\ data'[AddTimer(f)] = data[AddTimer(f)]
            /\ data'[EnableTimer(f)] = data[EnableTimer(f)]
        BY Zenon, <2>1, <2>9, <3>2, TimerIds DEF u
      <4> QED
        BY <1>1, <1>2, <1>7, <1>14, <2>4, <3>2, <4>1, <4>2, <4>3
           DEF Inv, StartupInv, Startup
    <3> QED
      BY Zenon, <3>1, <3>2
  <2> QED
    BY Zenon, <2>7, <2>8, <2>10, <2>11 DEF Inv
<1> QED
  BY Zenon, <1>2, <1>12, <1>13, <1>14

\* The loop time is updated at the start of an iteration and by epoll_wait.
LEMMA UpdateTimeStep ==
  ASSUME Inv, Iterate \/ EpollWait
  PROVE  Inv'
<1>1. /\ phase \in {"alive", "wait"}
      /\ UNCHANGED <<clock, closeq, data, once, watcher, enabled>>
      /\ \/ loop' = [loop EXCEPT !.time = clock, !.fresh = {}]
         \/ loop' = [loop EXCEPT !.time = clock]
  BY Zenon DEF Iterate, EpollWait
<1>2. loop \in Loop /\ clock \in Nat /\ {} \in SUBSET Timers
  BY Zenon DEF Inv, LoopInv
<1>3. loop' \in Loop
  BY Zenon, <1>1, <1>2 DEF Loop
<1>4. /\ loop'.heap = loop.heap /\ loop'.timer = loop.timer
      /\ loop'.time = clock /\ loop'.closing = loop.closing
      /\ loop'.closing_handles = loop.closing_handles
  BY Zenon, <1>1, <1>2 DEF Loop
<1>5. LoopInv'
  BY <1>1, <1>2, <1>3, <1>4 DEF Inv, LoopInv
<1>6. TimedInv' /\ CloseInv'
  BY Zenon, <1>1, <1>4 DEF Inv, TimedInv, TimedOk, CloseInv
<1>7. ~TimersPhase
  BY Zenon, <1>1 DEF TimersPhase
<1>8. StartupInv'
  BY Zenon, <1>1, <1>4, <1>7 DEF Inv, StartupInv, Startup
<1> QED
  BY Zenon, <1>5, <1>6, <1>8 DEF Inv

\* Every queued watcher is in epoll when epoll_wait is called.
LEMMA EpollCtlStep ==
  ASSUME Inv, EpollCtl
  PROVE  Inv'
<1>1. /\ watcher' = [e \in Evlists |->
                       IF watcher[e] = "queued" THEN "polled" ELSE watcher[e]]
      /\ UNCHANGED <<clock, loop, closeq, data, once, enabled>>
  BY Zenon DEF EpollCtl
<1>2. LoopInv'
  BY Zenon, <1>1 DEF Inv, LoopInv
<1>3. TimedInv' /\ CloseInv'
  BY Zenon, <1>1 DEF Inv, TimedInv, TimedOk, CloseInv
<1>4. StartupInv'
  <2> SUFFICES ASSUME NEW e \in Evlists PROVE Startup(e)'
    BY Zenon DEF StartupInv
  <2>1. watcher[e] \in {"none", "queued", "polled"}
    BY Zenon DEF Inv, LoopInv
  <2>2. EnableTimer(e) \in loop.heap => watcher[e] # "none"
    BY Zenon DEF Inv, StartupInv, Startup, CloseInv
  <2> QED
    BY Zenon, <1>1, <2>1, <2>2 DEF Inv, StartupInv, Startup
<1> QED
  BY Zenon, <1>2, <1>3, <1>4 DEF Inv

\* luv_close_cb frees the data of handles that are closing.
LEMMA ClosingStep ==
  ASSUME Inv, TakeClosing \/ FinishClose
  PROVE  Inv'
<1>1. loop \in Loop /\ closeq \in Seq(Timers)
      /\ data \in [Timers -> {"none", "live", "freed"}]
  BY Zenon DEF Inv, LoopInv
<1>2. CASE TakeClosing
  <2>1. /\ phase = "dispatch" /\ closeq' = loop.closing_handles
        /\ loop' = [loop EXCEPT !.closing_handles = << >>]
        /\ UNCHANGED <<clock, data, once, watcher, enabled>>
    BY Zenon, <1>2 DEF TakeClosing
  <2>2. << >> \in Seq(Timers) /\ closeq' \in Seq(Timers)
    BY <1>1, <2>1 DEF Loop
  <2>3. loop' \in Loop
    BY Zenon, <1>1, <2>1, <2>2 DEF Loop
  <2>4. /\ loop'.heap = loop.heap /\ loop'.timer = loop.timer
        /\ loop'.time = loop.time /\ loop'.closing = loop.closing
        /\ loop'.closing_handles = << >>
    BY Zenon, <1>1, <2>1 DEF Loop
  <2>5. LoopInv'
    BY Zenon, <2>1, <2>2, <2>3, <2>4 DEF Inv, LoopInv
  <2>6. TimedInv' /\ CloseInv'
    BY <2>1, <2>4 DEF Inv, TimedInv, TimedOk, CloseInv
  <2>7. ~TimersPhase
    BY Zenon, <2>1 DEF TimersPhase
  <2>8. StartupInv'
    BY Zenon, <2>1, <2>4, <2>7 DEF Inv, StartupInv, Startup
  <2> QED
    BY Zenon, <2>5, <2>6, <2>8 DEF Inv
<1>3. CASE FinishClose
  <2> DEFINE t == Head(closeq)
  <2>1. /\ phase = "closing" /\ closeq # << >> /\ closeq' = Tail(closeq)
        /\ data' = [data EXCEPT ![t] = "freed"]
        /\ UNCHANGED <<clock, loop, once, watcher, enabled>>
    BY Zenon, <1>3 DEF FinishClose
  <2>2. /\ t = closeq[1] /\ t \in Timers /\ 1 \in 1 .. Len(closeq)
        /\ Tail(closeq) \in Seq(Timers)
    BY <1>1, <2>1
  <2>3. t \in loop.closing /\ t \notin loop.heap /\ data[t] # "none"
    BY Zenon, <2>2 DEF Inv, CloseInv
  <2> HIDE DEF t
  <2>4. LoopInv'
    BY Zenon, <1>1, <2>1, <2>2 DEF Inv, LoopInv
  <2>5. TimedInv'
    BY Zenon, <2>1 DEF Inv, TimedInv, TimedOk
  <2>6. ASSUME NEW n \in 1 .. Len(closeq') PROVE closeq'[n] \in loop.closing
    <3>1. Len(Tail(closeq)) = Len(closeq) - 1 /\ Len(closeq) \in Nat
      BY <1>1, <2>1
    <3>2. n + 1 \in 1 .. Len(closeq) /\ Tail(closeq)[n] = closeq[n + 1]
      BY <1>1, <2>1, <3>1
    <3> QED
      BY Zenon, <2>1, <3>2 DEF Inv, CloseInv
  <2>7. CloseInv'
    BY <1>1, <2>1, <2>2, <2>3, <2>6 DEF Inv, CloseInv
  <2>8. \A u \in Timers : data[u] = "none" <=> data'[u] = "none"
    BY Zenon, <1>1, <2>1, <2>2, <2>3
  <2>9. ~TimersPhase
    BY Zenon, <2>1 DEF TimersPhase
  <2>10. StartupInv'
    BY Zenon, <2>1, <2>8, <2>9, TimerIds DEF Inv, StartupInv, Startup
  <2> QED
    BY Zenon, <2>4, <2>5, <2>7, <2>10 DEF Inv
<1> QED
  BY Zenon, <1>2, <1>3

\* Every step of the loop keeps the invariant.
LEMMA InvInductive ==
  ASSUME Inv, [Next]_vars
  PROVE  Inv'
<1>1. clock \in Nat /\ clock < MaxWord
  BY Zenon DEF Inv, LoopInv
<1>2. ASSUME \/ Tick \/ UserReturns \/ UserRaises \/ Leave \/ TimersDone
             \/ ClosingDone \/ Rest \/ UNCHANGED vars
             \/ \E e \in Evlists : Wakeup(e) \/ PollCallback(e)
      PROVE  Inv'
  <2>1. UNCHANGED <<loop, closeq, data, once, watcher, enabled>>
    BY Zenon, <1>2 DEF Tick, UserReturns, UserRaises, Leave, TimersDone, ClosingDone,
                Rest, Wakeup, PollCallback, vars
  <2>2. clock' \in {clock, clock + 1} /\ clock' < MaxWord
    BY Zenon, <1>1, <1>2 DEF Tick, UserReturns, UserRaises, Leave, TimersDone,
                      ClosingDone, Rest, Wakeup, PollCallback, vars
  <2>3. TimersPhase => TimersPhase'
    BY Zenon, <1>2 DEF TimersPhase, Tick, UserReturns, UserRaises, UserCode, Leave,
                TimersDone, ClosingDone, Rest, Wakeup, PollCallback, vars
  <2> QED
    BY Zenon, <2>1, <2>2, <2>3, QuietStep
<1>3. ASSUME User PROVE Inv'
  BY Zenon, <1>3, SetTimerStep, StopTimerStep, CloseTimerStep, PerfOnStep DEF User
<1> QED
  BY Zenon, <1>2, <1>3, UpdateTimeStep, EpollCtlStep, ClosingStep, RunTimerStep
     DEF Next, Run

\* The invariant holds in every state of the loop.
THEOREM LoopCorrect == SafeSpec => []Inv
BY InitInv, InvInductive, PTL DEF SafeSpec

-----------------------------------------------------------------------------

\* The nested timers of perf.on enable the events of an evlist only when
\* epoll watches its fds, for any number of evlists, timers and delays: the
\* step Enable of PerfPipeline finds the fds polled.
THEOREM EventsEnabledAfterPolled == SafeSpec => []EnabledAfterPolled
<1> DEFINE OnlyEvlists == enabled \in SUBSET Evlists
<1>1. Init => OnlyEvlists
  BY Zenon DEF Init
<1>2. OnlyEvlists /\ [Next]_vars => OnlyEvlists'
  BY Zenon DEF vars, Next, Run, User, UserRaises, Tick, Rest, Wakeup, UserReturns,
         Iterate, Leave, TimersDone, EpollCtl, EpollWait, TakeClosing,
         FinishClose, ClosingDone, RunTimer, PollCallback, SetTimer,
         StopTimer, CloseTimer, PerfOn
<1>3. Inv /\ OnlyEvlists => EnabledAfterPolled
  BY Zenon DEF Inv, StartupInv, Startup, EnabledAfterPolled
<1> QED
  BY <1>1, <1>2, <1>3, LoopCorrect, PTL DEF SafeSpec

\* luv_timer_cb never runs for a timer that is closing or whose luv_handle_t
\* luv_close_cb has freed.
THEOREM TimersAlive == SafeSpec => []NoCallbackAfterClose
<1>1. Inv => NoCallbackAfterClose
  BY Zenon DEF Inv, CloseInv, NoCallbackAfterClose
<1> QED
  BY <1>1, LoopCorrect, PTL

\* uv__run_timers calls no timer before its timeout, for any timeout an
\* uint64_t holds.
THEOREM TimersNotEarly == SafeSpec => NotEarly
<1>1. Inv => DelayPassed
  <2> SUFFICES ASSUME Inv, NEW t \in Timers, RunTimer(t)
               PROVE  loop.time >= loop.timer[t].base + loop.timer[t].delay
    BY Zenon DEF DelayPassed
  <2>1. t \in loop.heap /\ loop.timer[t].timeout <= loop.time
    BY Zenon DEF RunTimer, heap_min
  <2>2. /\ loop.time \in Nat /\ loop.time < MaxWord /\ MaxWord \in Nat
        /\ loop.timer[t] \in Timer
    BY LoopAssumption DEF Inv, LoopInv, Loop
  <2>3. loop.timer[t].timeout \in
          {loop.timer[t].base + loop.timer[t].delay, MaxWord}
    BY Zenon, <2>1 DEF Inv, TimedInv, TimedOk
  <2> QED
    BY <2>1, <2>2, <2>3 DEF Timer
<1> QED
  BY <1>1, LoopCorrect, PTL DEF NotEarly

-----------------------------------------------------------------------------
(* The count of active handles.                                            *)

\* The loop counts the timers of its heap and n handles more.
Counted(l, n) ==
  /\ l \in Loop /\ IsFiniteSet(l.heap)
  /\ l.active_handles = Cardinality(l.heap) + n

LEMMA StopCounted ==
  ASSUME NEW l, NEW n \in Nat, Counted(l, n), NEW t \in Timers
  PROVE  Counted(uv_timer_stop(l, t), n)
<1>1. /\ IsFiniteSet(l.heap) /\ Cardinality(l.heap) \in Nat
      /\ IsFiniteSet(l.heap \ {t})
      /\ Cardinality(l.heap \ {t}) =
           IF t \in l.heap THEN Cardinality(l.heap) - 1 ELSE Cardinality(l.heap)
  BY Zenon, FS_CardinalityType, FS_RemoveElement DEF Counted
<1>2. uv_timer_stop(l, t) \in Loop
  BY Zenon, StopEffect DEF Counted
<1> QED
  BY <1>1, <1>2 DEF Counted, uv_timer_stop, Loop

LEMMA StartCounted ==
  ASSUME NEW l, NEW n \in Nat, Counted(l, n), NEW t \in Timers, l.time < MaxWord,
         NEW d \in 0 .. MaxWord, NEW repeat \in 0 .. MaxWord
  PROVE  Counted(uv_timer_start(l, t, d, repeat), n)
<1> DEFINE s == uv_timer_stop(l, t)
           r == uv_timer_start(l, t, d, repeat)
<1>1. Counted(s, n)
  BY Zenon, StopCounted
<1>2. l \in Loop /\ s \in Loop /\ s.heap = l.heap \ {t}
  BY Zenon, StopEffect DEF Counted
<1>3. r \in Loop
  BY Zenon, <1>2, StartEffect
<1>4. r.heap = s.heap \cup {t} /\ r.active_handles = s.active_handles + 1
  <2>1. r = [s EXCEPT !.timer[t] = [timeout |-> Clamped(s.time, d), repeat |-> repeat,
                                    start_id |-> s.timer_counter, base |-> s.time,
                                    delay |-> d],
                      !.timer_counter = @ + 1, !.heap = @ \cup {t},
                      !.active_handles = @ + 1, !.fresh = @ \cup {t}]
    BY Zenon DEF uv_timer_start
  <2> HIDE DEF s, r
  <2> QED
    BY Zenon, <1>2, <2>1 DEF Loop
<1> HIDE DEF s, r
<1>5. /\ IsFiniteSet(s.heap) /\ Cardinality(s.heap) \in Nat
      /\ IsFiniteSet(s.heap \cup {t})
      /\ Cardinality(s.heap \cup {t}) = Cardinality(s.heap) + 1
  BY Zenon, <1>1, <1>2, FS_CardinalityType, FS_AddElement DEF Counted
<1>6. s.active_handles = Cardinality(s.heap) + n
  BY Zenon, <1>1 DEF Counted
<1> QED
  BY <1>3, <1>4, <1>5, <1>6 DEF Counted, r

LEMMA CloseCounted ==
  ASSUME NEW l, NEW n \in Nat, Counted(l, n), NEW t \in Timers
  PROVE  Counted(uv_close(l, t), n)
<1> DEFINE s == uv_timer_stop(l, t)
<1>1. Counted(s, n)
  BY Zenon, StopCounted
<1>2. uv_close(l, t) \in Loop
  BY Zenon, CloseEffect DEF Counted
<1>3. uv_close(l, t) = [s EXCEPT !.closing = s.closing \cup {t},
                                 !.closing_handles = <<t>> \o s.closing_handles]
  BY Zenon DEF uv_close
<1> HIDE DEF s
<1>4. uv_close(l, t).heap = s.heap /\ uv_close(l, t).active_handles = s.active_handles
  BY Zenon, <1>1, <1>3 DEF Counted, Loop
<1> QED
  BY Zenon, <1>1, <1>2, <1>4 DEF Counted

\* Before a callback, a timer is stopped, restarted if it repeats, and closed if
\* it is one of set_timeout.
LEMMA FireCounted ==
  ASSUME Inv, NEW n \in Nat, Counted(loop, n), NEW t \in Timers
  PROVE  Counted(ontimeout(uv_timer_again(uv_timer_stop(loop, t), t), t), n)
<1> DEFINE s == uv_timer_stop(loop, t)
           a == uv_timer_again(s, t)
<1>1. loop.time < MaxWord /\ loop.time \in Nat
  BY LoopAssumption DEF Inv, LoopInv, Loop
<1>2. Counted(s, n) /\ s \in Loop /\ s.time = loop.time
  BY StopCounted, StopEffect DEF Counted
<1> HIDE DEF s
<1>3. Counted(a, n)
  <2> DEFINE repeat == s.timer[t].repeat
             z == uv_timer_stop(s, t)
  <2>1. repeat \in 0 .. MaxWord
    BY Zenon, <1>2 DEF Loop, Timer
  <2>2. Counted(z, n) /\ z \in Loop /\ z.time < MaxWord
    BY Zenon, <1>1, <1>2, StopCounted, StopEffect
  <2>3. a = IF repeat = 0 THEN s ELSE uv_timer_start(z, t, repeat, repeat)
    BY Zenon DEF uv_timer_again
  <2> HIDE DEF z, repeat, a
  <2>4. Counted(uv_timer_start(z, t, repeat, repeat), n)
    BY Zenon, <2>1, <2>2, StartCounted
  <2> QED
    BY Zenon, <1>2, <2>3, <2>4
<1> HIDE DEF a
<1>4. Counted(uv_timer_stop(a, t), n)
  BY Zenon, <1>3, StopCounted
<1>5. Counted(uv_close(uv_timer_stop(a, t), t), n)
  BY Zenon, <1>4, CloseCounted
<1> QED
  BY Zenon, <1>3, <1>5 DEF ontimeout, s, a

Watched == {e \in Evlists : watcher[e] # "none"}

CountInv == IsFiniteSet(Watched) /\ Counted(loop, Cardinality(Watched))

\* Only perf.on adds a watcher, and only calls of libuv change the count.
LEMMA CountInductive ==
  ASSUME Inv, CountInv, [Next]_vars
  PROVE  CountInv'
<1> DEFINE n == Cardinality(Watched)
<1>1. /\ loop \in Loop /\ loop.time < MaxWord /\ loop.time \in Nat /\ MaxWord \in Nat
      /\ MaxWord > 0 /\ 0 \in 0 .. MaxWord /\ 1 \in 0 .. MaxWord
      /\ watcher \in [Evlists -> {"none", "queued", "polled"}]
  BY LoopAssumption DEF Inv, LoopInv, Loop
<1>2. n \in Nat /\ IsFiniteSet(Watched) /\ Counted(loop, n)
  BY Zenon, FS_CardinalityType DEF CountInv
<1> HIDE DEF n
<1>3. ASSUME Watched' = Watched, Counted(loop', n) PROVE CountInv'
  BY Zenon, <1>2, <1>3 DEF CountInv, n
<1>4. ASSUME UNCHANGED watcher PROVE Watched' = Watched
  BY Zenon, <1>4 DEF Watched
<1>5. CASE UNCHANGED <<loop, watcher>>
  BY Zenon, <1>2, <1>3, <1>4, <1>5
<1>6. ASSUME NEW t \in UserTimers, NEW d \in Delays, NEW interval \in BOOLEAN,
             SetTimer(t, d, interval)
      PROVE  CountInv'
  <2> DEFINE repeat == IF interval THEN d ELSE 0
  <2>1. t \in Timers /\ d \in 0 .. MaxWord /\ repeat \in 0 .. MaxWord
    BY Zenon, <1>1, LoopAssumption, TimerIds
  <2>2. loop' = uv_timer_start(loop, t, d, repeat) /\ UNCHANGED watcher
    BY Zenon, <1>6 DEF SetTimer
  <2> HIDE DEF repeat
  <2> QED
    BY Zenon, <1>1, <1>2, <1>3, <1>4, <2>1, <2>2, StartCounted
<1>7. ASSUME NEW t \in UserTimers, StopTimer(t) \/ CloseTimer(t) PROVE CountInv'
  <2>1. /\ t \in Timers /\ UNCHANGED watcher
        /\ \/ UNCHANGED loop
           \/ loop' = uv_timer_stop(loop, t)
           \/ loop' = uv_close(loop, t)
    BY Zenon, <1>7, TimerIds DEF StopTimer, CloseTimer
  <2> QED
    BY Zenon, <1>2, <1>3, <1>4, <2>1, StopCounted, CloseCounted
<1>8. ASSUME NEW e \in Evlists, PerfOn(e) PROVE CountInv'
  <2> DEFINE l == [loop EXCEPT !.active_handles = loop.active_handles + 1]
  <2>1. /\ watcher[e] = "none" /\ watcher' = [watcher EXCEPT ![e] = "queued"]
        /\ loop' = uv_timer_start(l, AddTimer(e), 0, 0)
    BY Zenon, <1>8 DEF PerfOn
  <2>2. Watched' = Watched \cup {e} /\ e \notin Watched
    BY Zenon, <1>1, <2>1 DEF Watched
  <2>3. IsFiniteSet(Watched') /\ Cardinality(Watched') = n + 1
    BY Zenon, <1>2, <2>2, FS_AddElement DEF n
  <2>4. Counted(l, n + 1) /\ l.time < MaxWord
    <3>1. IsFiniteSet(loop.heap) /\ Cardinality(loop.heap) \in Nat
          /\ loop.active_handles = Cardinality(loop.heap) + n
      BY Zenon, <1>2, FS_CardinalityType DEF Counted
    <3>2. loop.active_handles + 1 \in Int
      BY <1>1 DEF Loop
    <3>3. l \in Loop /\ l.heap = loop.heap /\ l.time = loop.time
          /\ l.active_handles = loop.active_handles + 1
      BY Zenon, <1>1, <3>2 DEF Loop
    <3> HIDE DEF l
    <3> QED
      BY <1>1, <1>2, <3>1, <3>3 DEF Counted
  <2> HIDE DEF l
  <2>5. Counted(loop', n + 1)
    BY <1>1, <1>2, <2>1, <2>4, TimerIds, StartCounted
  <2> QED
    BY Zenon, <2>3, <2>5 DEF CountInv
<1>9. ASSUME NEW t \in Timers, RunTimer(t) PROVE CountInv'
  <2> DEFINE l == ontimeout(uv_timer_again(uv_timer_stop(loop, t), t), t)
  <2>1. Counted(l, n)
    BY Zenon, <1>2, FireCounted
  <2>2. l.time < MaxWord
    BY Zenon, <1>1, FireEffect
  <2>3. /\ UNCHANGED watcher
        /\ \/ loop' = l
           \/ \E e \in Evlists : loop' = uv_timer_start(l, EnableTimer(e), 1, 0)
    BY Zenon, <1>9 DEF RunTimer, InnerTimeout
  <2> HIDE DEF l
  <2>4. \A e \in Evlists : Counted(uv_timer_start(l, EnableTimer(e), 1, 0), n)
    BY Zenon, <1>1, <1>2, <2>1, <2>2, TimerIds, StartCounted
  <2> QED
    BY Zenon, <1>3, <1>4, <2>1, <2>3, <2>4
<1>10. CASE Iterate \/ EpollWait \/ TakeClosing
  <2>1. /\ UNCHANGED watcher
        /\ \/ loop' = [loop EXCEPT !.time = clock, !.fresh = {}]
           \/ loop' = [loop EXCEPT !.time = clock]
           \/ loop' = [loop EXCEPT !.closing_handles = << >>]
    BY Zenon, <1>10 DEF Iterate, EpollWait, TakeClosing
  <2>2. clock \in Nat /\ {} \in SUBSET Timers /\ << >> \in Seq(Timers)
    BY DEF Inv, LoopInv
  <2>3. loop' \in Loop /\ loop'.heap = loop.heap
        /\ loop'.active_handles = loop.active_handles
    BY Zenon, <1>1, <2>1, <2>2 DEF Loop
  <2> QED
    BY Zenon, <1>2, <1>3, <1>4, <2>1, <2>3 DEF Counted
<1>11. CASE EpollCtl
  <2>1. Watched' = Watched /\ UNCHANGED loop
    BY Zenon, <1>1, <1>11 DEF EpollCtl, Watched
  <2> QED
    BY Zenon, <1>2, <1>3, <2>1
<1>12. CASE \/ Tick \/ UserReturns \/ UserRaises \/ Leave \/ TimersDone
            \/ ClosingDone \/ FinishClose \/ Rest
            \/ \E e \in Evlists : Wakeup(e) \/ PollCallback(e)
  BY Zenon, <1>5, <1>12 DEF Tick, UserReturns, UserRaises, Leave, TimersDone, ClosingDone,
     FinishClose, Rest, Wakeup, PollCallback, vars
<1>13. CASE UNCHANGED vars
  BY Zenon, <1>5, <1>13 DEF vars
<1>14. CASE User
  BY Zenon, <1>6, <1>7, <1>8, <1>14 DEF User
<1> QED
  BY Zenon, <1>9, <1>10, <1>11, <1>12, <1>13, <1>14 DEF Next, Run

\* active_handles, by which uv_run decides to return and whether to block, is
\* exact for any timers and evlists, however they are stopped, restarted and
\* closed.
THEOREM HandlesCounted == SafeSpec => []ActiveCount
<1>1. Init => CountInv
  <2> SUFFICES ASSUME Init PROVE CountInv
    OBVIOUS
  <2>1. loop \in Loop
    BY Zenon, InitInv DEF Inv, LoopInv
  <2>2. loop.heap = {} /\ loop.active_handles = 0 /\ Watched = {}
    BY Zenon DEF Init, Watched
  <2> QED
    BY <2>1, <2>2, FS_EmptySet DEF CountInv, Counted
<1>2. CountInv => ActiveCount
  BY Zenon DEF CountInv, Counted, ActiveCount, Watched
<1> QED
  BY <1>1, <1>2, CountInductive, LoopCorrect, PTL DEF SafeSpec

-----------------------------------------------------------------------------
(* The lists of closing handles.                                           *)

Member(q, t) == \E i \in 1 .. Len(q) : q[i] = t
Distinct(q) == \A i, j \in 1 .. Len(q) : q[i] = q[j] => i = j

LEMMA ConsDistinct ==
  ASSUME NEW q \in Seq(Timers), NEW t \in Timers, Distinct(q), ~Member(q, t)
  PROVE  /\ Distinct(<<t>> \o q)
         /\ \A u : Member(<<t>> \o q, u) <=> u = t \/ Member(q, u)
<1> DEFINE r == <<t>> \o q
<1>1. Len(r) = Len(q) + 1 /\ Len(q) \in Nat
  OBVIOUS
<1>2. r[1] = t /\ \A i \in 2 .. Len(r) : r[i] = q[i - 1] /\ i - 1 \in 1 .. Len(q)
  BY <1>1
<1>3. \A i \in 1 .. Len(q) : q[i] = r[i + 1] /\ i + 1 \in 2 .. Len(r)
  BY <1>1, <1>2
<1> HIDE DEF r
<1>4. Distinct(r)
  <2> SUFFICES ASSUME NEW i \in 1 .. Len(r), NEW j \in 1 .. Len(r), r[i] = r[j]
               PROVE  i = j
    BY Zenon DEF Distinct
  <2>1. CASE i = 1 \/ j = 1
    BY <1>1, <1>2, <2>1 DEF Member
  <2>2. CASE i # 1 /\ j # 1
    <3>1. i \in 2 .. Len(r) /\ j \in 2 .. Len(r)
      BY <1>1, <2>2
    <3>2. q[i - 1] = q[j - 1] /\ i - 1 \in 1 .. Len(q) /\ j - 1 \in 1 .. Len(q)
      BY Zenon, <1>2, <3>1
    <3>3. i - 1 = j - 1
      BY Zenon, <3>2 DEF Distinct
    <3> QED
      BY <3>1, <3>3
  <2> QED
    BY Zenon, <2>1, <2>2
<1>5. ASSUME NEW u PROVE Member(r, u) <=> u = t \/ Member(q, u)
  <2>1. ASSUME Member(r, u) PROVE u = t \/ Member(q, u)
    <3>1. PICK i \in 1 .. Len(r) : r[i] = u
      BY Zenon, <2>1 DEF Member
    <3>2. i = 1 \/ i \in 2 .. Len(r)
      BY <1>1
    <3> QED
      BY Zenon, <1>2, <3>1, <3>2 DEF Member
  <2>2. 1 \in 1 .. Len(r)
    BY <1>1
  <2>3. ASSUME Member(q, u) PROVE Member(r, u)
    <3>1. PICK i \in 1 .. Len(q) : q[i] = u
      BY Zenon, <2>3 DEF Member
    <3>2. i + 1 \in 1 .. Len(r)
      BY <1>1
    <3> QED
      BY Zenon, <1>3, <3>1, <3>2 DEF Member
  <2> QED
    BY Zenon, <1>2, <2>1, <2>2, <2>3 DEF Member
<1> QED
  BY Zenon, <1>4, <1>5 DEF r

LEMMA TailDistinct ==
  ASSUME NEW q \in Seq(Timers), q # << >>, Distinct(q)
  PROVE  /\ Distinct(Tail(q))
         /\ \A u : Member(Tail(q), u) <=> u # Head(q) /\ Member(q, u)
<1> DEFINE r == Tail(q)
<1>1. Len(r) = Len(q) - 1 /\ Len(q) \in Nat /\ Len(q) > 0
  OBVIOUS
<1>2. Head(q) = q[1] /\ \A i \in 1 .. Len(r) : r[i] = q[i + 1] /\ i + 1 \in 1 .. Len(q)
  BY <1>1
<1> HIDE DEF r
<1>3. Distinct(r)
  <2> SUFFICES ASSUME NEW i \in 1 .. Len(r), NEW j \in 1 .. Len(r), r[i] = r[j]
               PROVE  i = j
    BY Zenon DEF Distinct
  <2>1. i + 1 = j + 1
    BY <1>2 DEF Distinct
  <2> QED
    BY <2>1
<1>4. ASSUME NEW u PROVE Member(r, u) <=> u # Head(q) /\ Member(q, u)
  <2>1. ASSUME Member(r, u) PROVE u # Head(q) /\ Member(q, u)
    <3>1. PICK i \in 1 .. Len(r) : r[i] = u
      BY Zenon, <2>1 DEF Member
    <3>2. q[i + 1] = u /\ i + 1 \in 1 .. Len(q) /\ i + 1 # 1 /\ 1 \in 1 .. Len(q)
      BY <1>1, <1>2, <3>1
    <3> QED
      BY Zenon, <1>2, <3>2 DEF Member, Distinct
  <2>2. ASSUME u # Head(q), Member(q, u) PROVE Member(r, u)
    <3>1. PICK i \in 1 .. Len(q) : q[i] = u
      BY Zenon, <2>2 DEF Member
    <3>2. i # 1
      BY Zenon, <1>2, <2>2, <3>1
    <3>3. i - 1 \in 1 .. Len(r) /\ i - 1 + 1 = i
      BY <1>1, <3>2
    <3>4. r[i - 1] = q[i]
      BY Zenon, <1>2, <3>3
    <3> QED
      BY Zenon, <3>1, <3>3, <3>4 DEF Member
  <2> QED
    BY Zenon, <2>1, <2>2
<1> QED
  BY Zenon, <1>3, <1>4 DEF r

\* One of the two lists is empty, the other holds every handle that waits for
\* uv__finish_close, once.
Waiting(l, d, t) == t \in l.closing /\ d[t] # "freed"

Listed(l, q, d) ==
  /\ Distinct(l.closing_handles) /\ Distinct(q)
  /\ l.closing_handles = << >> \/ q = << >>
  /\ \A t \in Timers :
       Waiting(l, d, t) <=> Member(l.closing_handles, t) \/ Member(q, t)

OnceInv ==
  /\ ret # "closing"
  /\ IF phase = "closing" THEN loop.closing_handles = << >> ELSE closeq = << >>
  /\ Listed(loop, closeq, data)

LEMMA SameListed ==
  ASSUME NEW l, NEW q, NEW d, Listed(l, q, d),
         NEW k, k.closing = l.closing, k.closing_handles = l.closing_handles,
         NEW c, \A t \in Timers : t \in l.closing => c[t] = d[t]
  PROVE  Listed(k, q, c)
BY Zenon DEF Listed, Waiting

LEMMA CloseListed ==
  ASSUME NEW l \in Loop, NEW d, Listed(l, << >>, d),
         NEW t \in Timers, t \notin l.closing, d[t] # "freed",
         NEW k, k.closing = l.closing \cup {t},
         k.closing_handles = <<t>> \o l.closing_handles
  PROVE  Listed(k, << >>, d)
<1>1. l.closing_handles \in Seq(Timers) /\ Distinct(l.closing_handles)
  BY Zenon DEF Loop, Listed
<1>2. \A u : ~Member(<< >>, u)
  BY DEF Member
<1>3. ~Member(l.closing_handles, t)
  BY Zenon DEF Listed, Waiting
<1>4. /\ Distinct(k.closing_handles)
      /\ \A u : Member(k.closing_handles, u) <=> u = t \/ Member(l.closing_handles, u)
  BY <1>1, <1>3, ConsDistinct
<1> QED
  BY Zenon, <1>2, <1>4 DEF Listed, Waiting

LEMMA OnceInductive ==
  ASSUME Inv, OnceInv, [Next]_vars
  PROVE  OnceInv'
<1>1. /\ loop \in Loop /\ loop.time < MaxWord /\ loop.time \in Nat /\ MaxWord \in Nat
      /\ MaxWord > 0 /\ 0 \in 0 .. MaxWord /\ 1 \in 0 .. MaxWord
      /\ data \in [Timers -> {"none", "live", "freed"}] /\ closeq \in Seq(Timers)
      /\ \A t \in loop.heap : data[t] = "live" /\ t \notin loop.closing
      /\ \A t \in Timers : data[t] = "none" => t \notin loop.closing
  BY LoopAssumption DEF Inv, LoopInv, Loop, CloseInv
<1>2. Listed(loop, closeq, data)
  BY Zenon DEF OnceInv
<1>16. ret' # "closing"
  BY Zenon DEF OnceInv, vars, Next, Run, User, UserRaises, Tick, Rest, Wakeup, UserReturns,
         Iterate, Leave, TimersDone, EpollCtl, EpollWait, TakeClosing,
         FinishClose, ClosingDone, RunTimer, PollCallback, SetTimer,
         StopTimer, CloseTimer, PerfOn
<1>3. ASSUME phase # "closing", phase' # "closing", UNCHANGED closeq,
             Listed(loop', closeq, data')
      PROVE  OnceInv'
  BY Zenon, <1>3, <1>16 DEF OnceInv
<1>4. ASSUME phase # "closing", phase' # "closing", UNCHANGED closeq,
             loop'.closing = loop.closing, loop'.closing_handles = loop.closing_handles,
             \A t \in Timers : t \in loop.closing => data'[t] = data[t]
      PROVE  OnceInv'
  <2>1. Listed(loop', closeq, data')
    BY Zenon, <1>2, <1>4, SameListed
  <2> QED
    BY Zenon, <1>3, <1>4, <2>1
<1>5. CASE \/ Tick \/ UserReturns \/ UserRaises \/ Leave \/ TimersDone \/ EpollCtl
           \/ Rest \/ UNCHANGED vars
           \/ \E e \in Evlists : Wakeup(e) \/ PollCallback(e)
  <2>1. UNCHANGED <<loop, closeq, data>>
    BY Zenon, <1>5 DEF Tick, UserReturns, UserRaises, Leave, TimersDone, EpollCtl,
       Rest, Wakeup, PollCallback, vars
  <2>2. phase' = "closing" <=> phase = "closing"
    BY Zenon, <1>5 DEF OnceInv, Tick, UserReturns, UserRaises, UserCode, Leave, TimersDone, EpollCtl,
       Rest, Wakeup, PollCallback, vars
  <2> QED
    BY Zenon, <1>16, <2>1, <2>2 DEF OnceInv
<1>6. ASSUME NEW t \in UserTimers, NEW d \in Delays, NEW interval \in BOOLEAN,
             SetTimer(t, d, interval)
      PROVE  OnceInv'
  <2> DEFINE repeat == IF interval THEN d ELSE 0
  <2>1. t \in Timers /\ d \in 0 .. MaxWord /\ repeat \in 0 .. MaxWord
    BY Zenon, <1>1, LoopAssumption, TimerIds
  <2>2. /\ loop' = uv_timer_start(loop, t, d, repeat)
        /\ data[t] = "none" /\ data' = [data EXCEPT ![t] = "live"]
        /\ phase \in {"script", "callback"} /\ UNCHANGED <<phase, closeq>>
    BY Zenon, <1>6 DEF SetTimer, UserCode
  <2> HIDE DEF repeat
  <2>3. loop'.closing = loop.closing /\ loop'.closing_handles = loop.closing_handles
    BY <1>1, <2>1, <2>2, StartEffect
  <2>4. \A u \in Timers : u \in loop.closing => data'[u] = data[u]
    BY Zenon, <1>1, <2>1, <2>2
  <2> QED
    BY Zenon, <1>4, <2>2, <2>3, <2>4
<1>7. ASSUME NEW t \in UserTimers, StopTimer(t) PROVE OnceInv'
  <2>1. /\ t \in Timers /\ phase # "closing" /\ phase' # "closing"
        /\ UNCHANGED <<closeq, data>>
        /\ loop' = loop \/ loop' = uv_timer_stop(loop, t)
    BY Zenon, <1>7, TimerIds DEF StopTimer, UserCode
  <2>2. loop'.closing = loop.closing /\ loop'.closing_handles = loop.closing_handles
    BY <1>1, <2>1, StopEffect
  <2> QED
    BY Zenon, <1>4, <2>1, <2>2
<1>8. ASSUME NEW t \in UserTimers, CloseTimer(t) PROVE OnceInv'
  <2>1. /\ t \in Timers /\ phase # "closing" /\ phase' # "closing" /\ closeq = << >>
        /\ UNCHANGED <<closeq, data>>
        /\ \/ loop' = loop
           \/ data[t] = "live" /\ t \notin loop.closing /\ loop' = uv_close(loop, t)
    BY Zenon, <1>8, TimerIds DEF CloseTimer, UserCode, Closeable, OnceInv
  <2>2. CASE loop' = loop
    BY Zenon, <1>4, <2>1, <2>2
  <2>3. CASE data[t] = "live" /\ t \notin loop.closing /\ loop' = uv_close(loop, t)
    <3>1. /\ loop'.closing = loop.closing \cup {t}
          /\ loop'.closing_handles = <<t>> \o loop.closing_handles
      BY Zenon, <1>1, <2>1, <2>3, CloseEffect
    <3>2. Listed(loop', << >>, data)
      BY Zenon, <1>1, <1>2, <2>1, <2>3, <3>1, CloseListed
    <3> QED
      BY Zenon, <1>3, <2>1, <3>2
  <2> QED
    BY Zenon, <2>1, <2>2, <2>3
<1>9. ASSUME NEW e \in Evlists, PerfOn(e) PROVE OnceInv'
  <2> DEFINE t == AddTimer(e)
             l == [loop EXCEPT !.active_handles = loop.active_handles + 1]
  <2>1. /\ watcher[e] = "none" /\ data' = [data EXCEPT ![t] = "live"]
        /\ loop' = uv_timer_start(l, t, 0, 0)
        /\ phase \in {"script", "callback"} /\ UNCHANGED <<phase, closeq>>
    BY Zenon, <1>9 DEF PerfOn, UserCode
  <2>2. l \in Loop /\ l.time = loop.time /\ l.closing = loop.closing
        /\ l.closing_handles = loop.closing_handles
    <3>1. loop.active_handles + 1 \in Int
      BY <1>1 DEF Loop
    <3> QED
      BY Zenon, <1>1, <3>1 DEF Loop
  <2>3. t \in Timers /\ data[t] = "none"
    BY Zenon, <2>1, TimerIds DEF Inv, StartupInv, Startup
  <2> HIDE DEF l, t
  <2>4. loop'.closing = loop.closing /\ loop'.closing_handles = loop.closing_handles
    BY <1>1, <2>1, <2>2, <2>3, StartEffect
  <2>5. \A u \in Timers : u \in loop.closing => data'[u] = data[u]
    BY Zenon, <1>1, <2>1, <2>3
  <2> QED
    BY Zenon, <1>4, <2>1, <2>4, <2>5
<1>10. ASSUME NEW t \in Timers, RunTimer(t) PROVE OnceInv'
  <2> DEFINE l == ontimeout(uv_timer_again(uv_timer_stop(loop, t), t), t)
  <2>1. /\ l \in Loop /\ l.time = loop.time
        /\ \/ l.closing = loop.closing /\ l.closing_handles = loop.closing_handles
           \/ /\ l.closing = loop.closing \cup {t}
              /\ l.closing_handles = <<t>> \o loop.closing_handles
    BY Zenon, FireEffect
  <2>2. /\ phase = "timers" /\ phase' \in {"timers", "callback"} /\ UNCHANGED closeq
        /\ t \in loop.heap /\ closeq = << >>
        /\ \/ loop' = l /\ UNCHANGED data
           \/ \E e \in Evlists :
                /\ t = AddTimer(e)
                /\ loop' = uv_timer_start(l, EnableTimer(e), 1, 0)
                /\ data' = [data EXCEPT ![EnableTimer(e)] = "live"]
    BY Zenon, <1>10 DEF RunTimer, heap_min, InnerTimeout, OnceInv
  <2> HIDE DEF l
  <2>3. Listed(l, << >>, data)
    <3>1. t \notin loop.closing /\ data[t] = "live"
      BY Zenon, <1>1, <2>2
    <3>2. CASE l.closing = loop.closing /\ l.closing_handles = loop.closing_handles
      BY Zenon, <1>2, <2>2, <3>2, SameListed
    <3>3. CASE /\ l.closing = loop.closing \cup {t}
               /\ l.closing_handles = <<t>> \o loop.closing_handles
      BY Zenon, <1>1, <1>2, <2>2, <3>1, <3>3, CloseListed
    <3> QED
      BY Zenon, <2>1, <3>2, <3>3
  <2>4. CASE loop' = l /\ UNCHANGED data
    BY Zenon, <1>3, <2>2, <2>3, <2>4
  <2>5. ASSUME NEW e \in Evlists, t = AddTimer(e),
               loop' = uv_timer_start(l, EnableTimer(e), 1, 0),
               data' = [data EXCEPT ![EnableTimer(e)] = "live"]
        PROVE  OnceInv'
    <3> DEFINE u == EnableTimer(e)
    <3>1. u \in Timers /\ u # t /\ data[u] = "none"
      BY Zenon, <2>2, <2>5, TimerIds DEF Inv, StartupInv, Startup
    <3>2. u \notin l.closing
      BY Zenon, <1>1, <2>1, <3>1
    <3> HIDE DEF u
    <3>3. loop'.closing = l.closing /\ loop'.closing_handles = l.closing_handles
      BY <1>1, <2>1, <2>5, <3>1, StartEffect DEF u
    <3>4. \A v \in Timers : v \in l.closing => data'[v] = data[v]
      BY Zenon, <1>1, <2>5, <3>1, <3>2 DEF u
    <3>5. Listed(loop', << >>, data')
      BY Zenon, <2>3, <3>3, <3>4, SameListed
    <3> QED
      BY Zenon, <1>3, <2>2, <3>5
  <2> QED
    BY Zenon, <2>2, <2>4, <2>5
<1>11. CASE Iterate \/ EpollWait
  <2>1. /\ phase # "closing" /\ phase' # "closing" /\ UNCHANGED <<closeq, data>>
        /\ \/ loop' = [loop EXCEPT !.time = clock, !.fresh = {}]
           \/ loop' = [loop EXCEPT !.time = clock]
    BY Zenon, <1>11 DEF Iterate, EpollWait
  <2>2. loop'.closing = loop.closing /\ loop'.closing_handles = loop.closing_handles
    BY Zenon, <1>1, <2>1 DEF Loop
  <2> QED
    BY Zenon, <1>4, <2>1, <2>2
<1>12. CASE TakeClosing
  <2>1. /\ phase' = "closing" /\ closeq' = loop.closing_handles /\ closeq = << >>
        /\ loop' = [loop EXCEPT !.closing_handles = << >>] /\ UNCHANGED data
    BY Zenon, <1>12 DEF TakeClosing, OnceInv
  <2>2. loop'.closing = loop.closing /\ loop'.closing_handles = << >>
    BY Zenon, <1>1, <2>1 DEF Loop
  <2> QED
    BY Zenon, <1>2, <1>16, <2>1, <2>2 DEF OnceInv, Listed, Waiting
<1>13. CASE FinishClose
  <2> DEFINE t == Head(closeq)
  <2>1. /\ phase = "closing" /\ phase' = "closing" /\ closeq # << >>
        /\ closeq' = Tail(closeq) /\ data' = [data EXCEPT ![t] = "freed"]
        /\ loop' = loop /\ loop.closing_handles = << >>
    BY Zenon, <1>13 DEF FinishClose, OnceInv
  <2>2. t \in Timers
    BY <1>1, <2>1
  <2>3. /\ Distinct(closeq')
        /\ \A u : Member(closeq', u) <=> u # t /\ Member(closeq, u)
    BY Zenon, <1>1, <1>2, <2>1, TailDistinct DEF Listed
  <2>4. \A u : ~Member(<< >>, u)
    BY DEF Member
  <2> HIDE DEF t
  <2>5. \A u \in Timers : Waiting(loop, data', u) <=> u # t /\ Waiting(loop, data, u)
    BY Zenon, <1>1, <2>1, <2>2 DEF Waiting
  <2> QED
    BY Zenon, <1>2, <1>16, <2>1, <2>3, <2>4, <2>5 DEF OnceInv, Listed
<1>14. CASE ClosingDone
  <2>1. phase' # "closing" /\ closeq = << >> /\ UNCHANGED <<loop, closeq, data>>
    BY Zenon, <1>14 DEF ClosingDone
  <2> QED
    BY Zenon, <1>2, <1>16, <2>1 DEF OnceInv
<1>15. CASE User
  BY Zenon, <1>6, <1>7, <1>8, <1>9, <1>15 DEF User
<1> QED
  BY Zenon, <1>5, <1>10, <1>11, <1>12, <1>13, <1>14, <1>15 DEF Next, Run

LEMMA EmptyConcat ==
  ASSUME NEW p \in Seq(Timers), NEW q \in Seq(Timers), p = << >> \/ q = << >>
  PROVE  /\ p \o q \in Seq(Timers)
         /\ \/ p \o q = p /\ q = << >>
            \/ p \o q = q /\ p = << >>
<1>1. CASE p = << >>
  BY <1>1
<1>2. CASE q = << >>
  <2>1. p \o << >> = p
    OBVIOUS
  <2>2. p \o q = p
    BY Zenon, <1>2, <2>1
  <2> QED
    BY Zenon, <1>2, <2>2
<1> QED
  BY Zenon, <1>1, <1>2

\* A handle on which uv.close was called is in the lists exactly once until it is
\* finished and never after that: luv_close_cb frees its luv_handle_t once.
THEOREM EachClosedOnce == SafeSpec => []ClosedOnce
<1>1. Init => OnceInv
  BY DEF Init, OnceInv, Listed, Waiting, Distinct, Member
<1>2. OnceInv /\ Inv => ClosedOnce
  <2> SUFFICES ASSUME OnceInv, Inv, NEW t \in Timers
               PROVE  LET all == loop.closing_handles \o closeq
                      IN  Cardinality({n \in DOMAIN all : all[n] = t}) =
                            IF t \in loop.closing /\ data[t] # "freed" THEN 1 ELSE 0
    BY Zenon DEF ClosedOnce
  <2> DEFINE all == loop.closing_handles \o closeq
             here == {n \in DOMAIN all : all[n] = t}
  <2>1. loop.closing_handles \in Seq(Timers) /\ closeq \in Seq(Timers)
    BY Zenon DEF Inv, LoopInv, Loop
  <2>2. \A u : ~Member(<< >>, u)
    BY DEF Member
  <2>3. /\ all \in Seq(Timers)
        /\ \/ all = loop.closing_handles /\ closeq = << >>
           \/ all = closeq /\ loop.closing_handles = << >>
    <3>1. loop.closing_handles = << >> \/ closeq = << >>
      BY Zenon DEF OnceInv, Listed
    <3> QED
      BY Zenon, <2>1, <3>1, EmptyConcat
  <2> HIDE DEF all
  <2>4. Distinct(all) /\ (Member(all, t) <=> Waiting(loop, data, t))
    BY Zenon, <2>2, <2>3 DEF OnceInv, Listed
  <2>5. DOMAIN all = 1 .. Len(all)
    BY <2>3
  <2>6. CASE ~Member(all, t)
    <3>1. here = {}
      BY Zenon, <2>5, <2>6 DEF Member
    <3>2. Cardinality(here) = 0
      BY Zenon, <3>1, FS_EmptySet
    <3> QED
      BY Zenon, <2>4, <2>6, <3>2 DEF Waiting, all
  <2>7. CASE Member(all, t)
    <3>1. PICK i \in 1 .. Len(all) : all[i] = t
      BY Zenon, <2>7 DEF Member
    <3>2. here = {i}
      BY Zenon, <2>4, <2>5, <3>1 DEF Distinct
    <3> HIDE DEF here
    <3>3. Cardinality(here) = 1
      BY Zenon, <3>2, FS_Singleton
    <3> QED
      BY Zenon, <2>4, <2>7, <3>3 DEF Waiting, all, here
  <2> QED
    BY Zenon, <2>6, <2>7
<1> QED
  BY <1>1, <1>2, OnceInductive, LoopCorrect, PTL DEF SafeSpec

=============================================================================
