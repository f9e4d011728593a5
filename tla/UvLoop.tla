------------------------------- MODULE UvLoop -------------------------------
(***************************************************************************)
(* The event loop shark runs scripts in: uv_run of libuv with its timers,  *)
(* poll watchers and closing handles, luv's timer handles, set_timeout and *)
(* set_interval of shark_init.lua, and the two nested timers with which    *)
(* perf.on enables the events of an evlist.                                *)
(*                                                                         *)
(* `loop` is the uv_loop_t; the operators named after libuv's functions    *)
(* return the loop they leave behind, so that an action composes the calls *)
(* a handler makes in the order it makes them.                             *)
(***************************************************************************)
EXTENDS Integers, Sequences, FiniteSets

CONSTANTS
  UserTimers, \* timers the script can create
  Evlists,    \* evlists the script can open with perf.on
  Delays,     \* timeouts and intervals of the script, in ms
  MaxTime,    \* bound: the clock, unless a timer that does not repeat waits
  MaxWord     \* the largest uint64_t

ASSUME LoopAssumption ==
  /\ MaxTime \in Nat
  /\ MaxWord \in Nat \ {0}
  /\ Delays \subseteq 0 .. MaxWord
  /\ UserTimers \cap (Evlists \X {"add", "enable"}) = {}

\* perf.on creates two timers: the first arms the second, which enables the
\* events.
Timers == UserTimers \cup (Evlists \X {"add", "enable"})
AddTimer(e)    == <<e, "add">>
EnableTimer(e) == <<e, "enable">>

VARIABLES
  clock,    \* the time, in ms
  loop,     \* the uv_loop_t
  phase,    \* where uv_run is
  ret,      \* the phase the running callback returns to
  closeq,   \* local p of uv__run_closing_handles: handles still to finish
  timeout,  \* argument of uv__io_poll
  data,     \* handle->data, the luv_handle_t of a timer
  once,     \* timers of set_timeout, as opposed to set_interval
  watcher,  \* poll watchers of an evlist: in no queue, in watcher_queue, in epoll
  enabled,  \* evlists whose events are enabled
  readable, \* kernel: evlists with a readable fd
  ready     \* evlists epoll_wait reported and not yet called back

vars == <<clock, loop, phase, ret, closeq, timeout, data, once, watcher,
          enabled, readable, ready>>

Timer == [timeout : 0 .. MaxWord, repeat : 0 .. MaxWord, start_id : Nat,
          base : Nat, delay : 0 .. MaxWord]

Init ==
  /\ clock = 0
  /\ loop = [time |-> 0, heap |-> {}, timer_counter |-> 0,
             active_handles |-> 0, closing |-> {}, closing_handles |-> << >>,
             fresh |-> {},
             timer |-> [t \in Timers |-> [timeout |-> 0, repeat |-> 0,
                          start_id |-> 0, base |-> 0, delay |-> 0]]]
  /\ phase = "script" /\ ret = "timers"
  /\ closeq = << >>
  /\ timeout = 0
  /\ data = [t \in Timers |-> "none"]
  /\ once = {}
  /\ watcher = [e \in Evlists |-> "none"]
  /\ enabled = {} /\ readable = {} /\ ready = {}

-----------------------------------------------------------------------------
(* libuv's timers and closing handles.  A timer is active when it is in    *)
(* the heap; `base`, `delay` and `fresh`, the timers started in this       *)
(* iteration, are history.                                                 *)

\* Mutant: the sum wraps around.
Wrapped(time, d) == (time + d) % (MaxWord + 1)

\* clamped_timeout
Clamped(time, d) ==
  LET sum == (time + d) % (MaxWord + 1)
  IN  IF sum < d THEN MaxWord ELSE sum

\* Mutant: a timer that is not active is stopped as well.
StopAlways(l, t) == [l EXCEPT !.heap = @ \ {t}, !.active_handles = @ - 1]

uv_timer_stop(l, t) ==
  IF t \in l.heap THEN [l EXCEPT !.heap = @ \ {t}, !.active_handles = @ - 1]
  ELSE l

uv_timer_start(l, t, d, repeat) ==
  LET s == uv_timer_stop(l, t)
  IN  [s EXCEPT !.timer[t] = [timeout |-> Clamped(s.time, d),
                              repeat |-> repeat,
                              start_id |-> s.timer_counter,
                              base |-> s.time, delay |-> d],
                !.timer_counter = @ + 1,
                !.heap = @ \cup {t},
                !.active_handles = @ + 1,
                !.fresh = @ \cup {t}]

uv_timer_again(l, t) ==
  LET repeat == l.timer[t].repeat
  IN  IF repeat = 0 THEN l
      ELSE uv_timer_start(uv_timer_stop(l, t), t, repeat, repeat)

\* Mutant: an active timer is closed without being stopped.
CloseActive(l, t) ==
  [l EXCEPT !.closing = @ \cup {t}, !.closing_handles = <<t>> \o @]

\* uv_close of a timer: uv__timer_close, then uv__make_close_pending.
uv_close(l, t) ==
  [uv_timer_stop(l, t) EXCEPT !.closing = @ \cup {t},
                              !.closing_handles = <<t>> \o @]

timer_less_than(l, a, b) ==
  \/ l.timer[a].timeout < l.timer[b].timeout
  \/ /\ l.timer[a].timeout = l.timer[b].timeout
     /\ l.timer[a].start_id < l.timer[b].start_id

\* heap_min of the timer heap.
heap_min(l, t) == t \in l.heap /\ \A u \in l.heap \ {t} : timer_less_than(l, t, u)

\* Mutant: timers do not shorten the wait.
ActiveOnly == IF loop.active_handles = 0 THEN 0 ELSE -1

\* uv_backend_timeout and uv__next_timeout: how long epoll_wait may block.
uv_backend_timeout ==
  IF loop.active_handles = 0 \/ loop.closing_handles # << >> THEN 0
  ELSE IF loop.heap = {} THEN -1
  ELSE LET due == loop.timer[CHOOSE t \in loop.heap : heap_min(loop, t)].timeout
       IN  IF due <= loop.time THEN 0 ELSE due - loop.time

uv__loop_alive == loop.active_handles > 0 \/ loop.closing_handles # << >>

-----------------------------------------------------------------------------
(* The environment.                                                        *)

\* Time passes, beyond MaxTime only for the sake of timers that fire once.
Tick ==
  /\ phase \notin {"returned", "exited"}
  /\ clock + 1 < MaxWord
  /\ \/ clock < MaxTime
     \/ \E t \in loop.heap : /\ loop.timer[t].repeat = 0
                             /\ loop.timer[t].timeout \in clock + 1 .. MaxWord - 1
  /\ clock' = clock + 1
  /\ UNCHANGED <<loop, phase, ret, closeq, timeout, data, once, watcher,
                 enabled, readable, ready>>

\* An event of an enabled evlist wakes its fd.
Wakeup(e) ==
  /\ phase \notin {"returned", "exited"}
  /\ e \in enabled \ readable
  /\ readable' = readable \cup {e}
  /\ UNCHANGED <<clock, loop, phase, ret, closeq, timeout, data, once,
                 watcher, enabled, ready>>

-----------------------------------------------------------------------------
(* What a script, or a callback of it, can do.                             *)

UserCode == phase \in {"script", "callback"}

\* uv.new_timer and uv.timer_start of set_timeout and set_interval.
SetTimer(t, d, interval) ==
  /\ UserCode
  /\ data[t] = "none"
  /\ data' = [data EXCEPT ![t] = "live"]
  /\ once' = IF interval THEN once ELSE once \cup {t}
  /\ loop' = uv_timer_start(loop, t, d, IF interval THEN d ELSE 0)
  /\ UNCHANGED <<clock, phase, ret, closeq, timeout, watcher, enabled,
                 readable, ready>>

\* uv.timer_stop raises an error for a handle that was closed; an error of
\* the script or of a callback ends the process.
StopTimer(t) ==
  /\ UserCode
  /\ data[t] # "none"
  /\ \/ /\ data[t] = "live"
        /\ loop' = uv_timer_stop(loop, t)
        /\ UNCHANGED phase
     \/ /\ data[t] = "freed"
        /\ phase' = "exited"
        /\ UNCHANGED loop
  /\ UNCHANGED <<clock, ret, closeq, timeout, data, once, watcher, enabled,
                 readable, ready>>

\* Mutant: luv_close leaves out uv_is_closing.
CloseIfLive(t) == data[t] = "live"

\* luv_close accepts the handle.
Closeable(t) == data[t] = "live" /\ t \notin loop.closing

\* uv.close raises an error for a handle that is closing or was closed.
CloseTimer(t) ==
  /\ UserCode
  /\ data[t] # "none"
  /\ \/ /\ Closeable(t)
        /\ loop' = uv_close(loop, t)
        /\ UNCHANGED phase
     \/ /\ ~Closeable(t)
        /\ phase' = "exited"
        /\ UNCHANGED loop
  /\ UNCHANGED <<clock, ret, closeq, timeout, data, once, watcher, enabled,
                 readable, ready>>

\* perf.on: uv.poll_start on the fds of the evlist, then set_timeout(.., 0).
PerfOn(e) ==
  /\ UserCode
  /\ watcher[e] = "none"
  /\ watcher' = [watcher EXCEPT ![e] = "queued"]
  /\ data' = [data EXCEPT ![AddTimer(e)] = "live"]
  /\ once' = once \cup {AddTimer(e)}
  /\ loop' = uv_timer_start([loop EXCEPT !.active_handles = @ + 1],
                            AddTimer(e), 0, 0)
  /\ UNCHANGED <<clock, phase, ret, closeq, timeout, enabled, readable, ready>>

\* The script ends and main calls uv_run, or a callback ends.
UserReturns ==
  /\ UserCode
  /\ phase' = IF phase = "script" THEN "alive" ELSE ret
  /\ UNCHANGED <<clock, loop, ret, closeq, timeout, data, once, watcher,
                 enabled, readable, ready>>

UserRaises ==
  /\ UserCode
  /\ phase' = "exited"
  /\ UNCHANGED <<clock, loop, ret, closeq, timeout, data, once, watcher,
                 enabled, readable, ready>>

-----------------------------------------------------------------------------
(* uv_run.                                                                 *)

\* The loop is alive: an iteration starts with uv__update_time.
Iterate ==
  /\ phase = "alive"
  /\ uv__loop_alive
  /\ loop' = [loop EXCEPT !.time = clock, !.fresh = {}]
  /\ phase' = "timers"
  /\ UNCHANGED <<clock, ret, closeq, timeout, data, once, watcher, enabled,
                 readable, ready>>

Leave ==
  /\ phase = "alive"
  /\ ~uv__loop_alive
  /\ phase' = "returned"
  /\ UNCHANGED <<clock, loop, ret, closeq, timeout, data, once, watcher,
                 enabled, readable, ready>>

\* Mutant: the second timer of perf.on is due at once.
AtOnce == 0

\* The timeout of the second timer of perf.on.
InnerTimeout == 1

\* The wrapper ontimeout of set_timeout stops and closes the timer before it
\* calls the callback; the one of set_interval does not.
ontimeout(l, t) ==
  IF t \in once THEN uv_close(uv_timer_stop(l, t), t) ELSE l

\* A turn of uv__run_timers: the first timer of the heap is due; it is
\* stopped, restarted if it repeats, and called.
RunTimer(t) ==
  /\ phase = "timers"
  /\ heap_min(loop, t)
  /\ loop.timer[t].timeout <= loop.time
  /\ LET l == ontimeout(uv_timer_again(uv_timer_stop(loop, t), t), t)
     IN  \/ /\ t \in UserTimers
            /\ loop' = l
            /\ phase' = "callback" /\ ret' = "timers"
            /\ UNCHANGED <<data, once, enabled>>
         \/ \E e \in Evlists :
              /\ t = AddTimer(e)
              /\ loop' = uv_timer_start(l, EnableTimer(e), InnerTimeout, 0)
              /\ data' = [data EXCEPT ![EnableTimer(e)] = "live"]
              /\ once' = once \cup {EnableTimer(e)}
              /\ UNCHANGED <<phase, ret, enabled>>
         \/ \E e \in Evlists :
              /\ t = EnableTimer(e)
              /\ loop' = l
              /\ enabled' = enabled \cup {e}
              /\ UNCHANGED <<phase, ret, data, once>>
  /\ UNCHANGED <<clock, closeq, timeout, watcher, readable, ready>>

TimersDone ==
  /\ phase = "timers"
  /\ \A t \in loop.heap :
       heap_min(loop, t) => loop.timer[t].timeout > loop.time
  /\ timeout' = uv_backend_timeout
  /\ phase' = "poll"
  /\ UNCHANGED <<clock, loop, ret, closeq, data, once, watcher, enabled,
                 readable, ready>>

\* uv__io_poll first adds the queued watchers to epoll.
EpollCtl ==
  /\ phase = "poll"
  /\ watcher' = [e \in Evlists |->
                   IF watcher[e] = "queued" THEN "polled" ELSE watcher[e]]
  /\ phase' = "wait"
  /\ UNCHANGED <<clock, loop, ret, closeq, timeout, data, once, enabled,
                 readable, ready>>

\* epoll_wait returns with the readable fds, or none when the timeout is
\* over; loop->time is updated.
EpollWait ==
  /\ phase = "wait"
  /\ \/ \E e \in readable : watcher[e] = "polled"
     \/ timeout # -1 /\ clock >= loop.time + timeout
  /\ ready' = {e \in readable : watcher[e] = "polled"}
  /\ readable' = readable \ ready'
  /\ loop' = [loop EXCEPT !.time = clock]
  /\ phase' = "dispatch"
  /\ UNCHANGED <<clock, ret, closeq, timeout, data, once, watcher, enabled>>

\* The poll_callback of perf.lua, with the callbacks it makes.
PollCallback(e) ==
  /\ phase = "dispatch"
  /\ e \in ready
  /\ ready' = ready \ {e}
  /\ phase' = "callback" /\ ret' = "dispatch"
  /\ UNCHANGED <<clock, loop, closeq, timeout, data, once, watcher, enabled,
                 readable>>

\* uv__run_closing_handles takes the list.
TakeClosing ==
  /\ phase = "dispatch"
  /\ ready = {}
  /\ closeq' = loop.closing_handles
  /\ loop' = [loop EXCEPT !.closing_handles = << >>]
  /\ phase' = "closing"
  /\ UNCHANGED <<clock, ret, timeout, data, once, watcher, enabled, readable,
                 ready>>

\* uv__finish_close and luv_close_cb, which frees handle->data.
FinishClose ==
  /\ phase = "closing"
  /\ closeq # << >>
  /\ closeq' = Tail(closeq)
  /\ data' = [data EXCEPT ![Head(closeq)] = "freed"]
  /\ UNCHANGED <<clock, loop, phase, ret, timeout, once, watcher, enabled,
                 readable, ready>>

ClosingDone ==
  /\ phase = "closing"
  /\ closeq = << >>
  /\ phase' = "alive"
  /\ UNCHANGED <<clock, loop, ret, closeq, timeout, data, once, watcher,
                 enabled, readable, ready>>

\* The process has ended, or waits for events or for the bound of the clock.
Rest ==
  /\ phase \in {"returned", "exited", "wait"}
  /\ UNCHANGED vars

User ==
  \/ \E t \in UserTimers, d \in Delays, interval \in BOOLEAN :
       SetTimer(t, d, interval)
  \/ \E t \in UserTimers : StopTimer(t) \/ CloseTimer(t)
  \/ \E e \in Evlists : PerfOn(e)

Run ==
  \/ UserReturns \/ Iterate \/ Leave \/ TimersDone \/ EpollCtl \/ EpollWait
  \/ TakeClosing \/ FinishClose \/ ClosingDone
  \/ \E t \in Timers : RunTimer(t)
  \/ \E e \in Evlists : PollCallback(e)

Next ==
  \/ Run \/ User \/ UserRaises \/ Tick \/ Rest
  \/ \E e \in Evlists : Wakeup(e)

SafeSpec == Init /\ [][Next]_vars

\* Time passes, the process is scheduled, and callbacks return.
Spec == SafeSpec /\ WF_vars(Run) /\ WF_vars(Tick)

-----------------------------------------------------------------------------
(* Properties.                                                             *)

\* The type of every variable of the loop.
TypeOK ==
  /\ clock \in Nat
  /\ loop \in [time : Nat, heap : SUBSET Timers, timer_counter : Nat,
               active_handles : Int, closing : SUBSET Timers,
               closing_handles : Seq(Timers), fresh : SUBSET Timers,
               timer : [Timers -> Timer]]
  /\ phase \in {"script", "alive", "timers", "poll", "wait", "dispatch",
                "closing", "callback", "returned", "exited"}
  /\ ret \in {"timers", "dispatch"}
  /\ closeq \in Seq(Timers)
  /\ timeout \in Int
  /\ data \in [Timers -> {"none", "live", "freed"}]
  /\ once \in SUBSET Timers
  /\ watcher \in [Evlists -> {"none", "queued", "polled"}]
  /\ enabled \in SUBSET Evlists
  /\ readable \in SUBSET Evlists /\ ready \in SUBSET Evlists

\* The events of an evlist are enabled only when epoll watches its fds,
\* wherever perf.on was called from: in the script, in a timer callback or
\* in a poll callback.
EnabledAfterPolled == \A e \in enabled : watcher[e] = "polled"

\* active_handles, which decides when uv_run returns and whether it blocks,
\* counts the timers in the heap and the poll watchers, however often a
\* timer is stopped, restarted or closed.
ActiveCount ==
  loop.active_handles = Cardinality(loop.heap) +
                        Cardinality({e \in Evlists : watcher[e] # "none"})

\* A timer in the heap, which luv_timer_cb may be called for, is not closing
\* and its luv_handle_t is allocated.
NoCallbackAfterClose ==
  \A t \in loop.heap : data[t] = "live" /\ t \notin loop.closing

\* A handle on which uv.close was called is in the list of closing handles
\* exactly once until it is finished, and its luv_handle_t is freed once.
ClosedOnce ==
  \A t \in Timers :
    LET all == loop.closing_handles \o closeq
    IN  Cardinality({n \in DOMAIN all : all[n] = t}) =
          IF t \in loop.closing /\ data[t] # "freed" THEN 1 ELSE 0

\* No timer is called before its timeout has passed since the loop time at
\* which it was started, however long the timeout.
DelayPassed ==
  \A t \in Timers :
    RunTimer(t) => loop.time >= loop.timer[t].base + loop.timer[t].delay

\* uv__run_timers calls no timer early, also when loop->time + timeout does
\* not fit an uint64_t.
NotEarly == [][DelayPassed]_vars

\* A timer with timeout 0 fires on the next iteration of the event loop, not
\* in the one it was started in.
ZeroWaits ==
  \A t \in Timers :
    RunTimer(t) /\ loop.timer[t].delay = 0 => t \notin loop.fresh

\* uv__run_timers as libuv's manual describes it for timeout 0.
ZeroFiresNextIteration == [][ZeroWaits]_vars

\* perf.on leads to enabled events, unless the process ends.
StartupCompletes ==
  \A e \in Evlists :
    watcher[e] # "none" ~> e \in enabled \/ phase = "exited"

\* A timer of set_timeout is called, stopped or closed, unless the process
\* ends or its timeout is out of reach.
TimeoutFires ==
  \A t \in UserTimers :
    t \in loop.heap /\ t \in once /\ loop.timer[t].timeout < MaxWord
      ~> t \notin loop.heap \/ phase = "exited"

=============================================================================
