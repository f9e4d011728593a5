---------------------------- MODULE PerfPipeline ----------------------------
(***************************************************************************)
(* The perf event pipeline of shark: perf.on, the poll callback, the       *)
(* time-ordered read of the per-CPU ring buffers and the flush at the end  *)
(* of a run (perf/perf.lua and the functions perf/perf-4.0.patch adds to   *)
(* libperf).                                                               *)
(*                                                                         *)
(* One ring per handle and CPU is shared by two actors.  The kernel        *)
(* (external) appends records at any time while the events are enabled;    *)
(* the single-threaded process runs one step of perf.lua at a time, and    *)
(* a record may be written between any two of them.                        *)
(***************************************************************************)
EXTENDS Integers, Sequences, FiniteSets

CONSTANTS
  Handles,        \* the handles of the script: one per call of perf.on
  NoHandle,       \* the value nil of the Lua global `handle`
  NrMmaps,        \* evlist->nr_mmaps: rings of one evlist, one per CPU
  Capacity,       \* records a ring holds before the kernel drops
  ReadEventsRate, \* perf_default_config.read_events_rate
  Kinds,          \* the classes of records the kernel writes
  MaxProduced     \* bound: records the kernel tries to write in all

ASSUME PipelineAssumption ==
  /\ NoHandle \notin Handles
  /\ NrMmaps \in Nat \ {0}
  /\ Capacity \in Nat \ {0}
  /\ ReadEventsRate \in Nat \ {0}
  /\ Kinds \subseteq {"sample", "other", "bad", "notime"}
  /\ MaxProduced \in Nat

Mmaps == 1 .. NrMmaps
Rings == Handles \X Mmaps

(***************************************************************************)
(* A record: `kind` is what the code tells apart.  "sample" and "other"    *)
(* are PERF_RECORD_SAMPLE and any record but SAMPLE and LOST; "bad" is one *)
(* perf_evlist__parse_sample_v2 refuses; "notime" one that                 *)
(* perf_evlist__parse_time refuses; "lost" is PERF_RECORD_LOST, for n      *)
(* dropped records.                                                        *)
(***************************************************************************)
Record == [kind : {"sample", "other", "bad", "notime", "lost"},
           time : Nat, n : Nat]

VARIABLES
  data,      \* kernel: every record written to a ring, oldest first
  prev,      \* md->prev: number of records read
  tail,      \* data_tail: number of records given back to the kernel
  lost,      \* kernel: records dropped since the last LOST record
  poll,      \* kernel: rb->poll, readable until the next poll of the fd
  produced,  \* number of records the kernel tried to write
  now,       \* clock of the records
  evlist     \* life of each evlist, see EvlistState

VARIABLES
  handle,       \* the Lua global `handle` of open_perf_event
  pc,           \* where the process is
  sig,          \* SIGINT or SIGTERM: "none", "pending" in libuv's signal
                \* pipe, "reported" by epoll_wait
  batch,        \* rings whose fd epoll_wait reported and not yet called back
  drain,        \* handles call_end has still to flush
  flushing,     \* mmap_read_consume was called by the end notification
  cur,          \* handle of the evlist being read
  sampleHandle, \* perf_sample.handle
  nr_read,      \* local of mmap_read_consume
  i,            \* loop index of mmap_read_top
  idx,          \* *idx of mmap_read_top, 0 while top_event is NULL
  seen,         \* head of each ring as this mmap_read_top loaded it
  stop          \* why the last mmap_read_consume on a handle returned

VARIABLES
  log,       \* history: numbers of the samples of a ring given to the callback
  dropped,   \* history: number of records the kernel dropped
  polled_num,\* history: number of samples read by poll callbacks
  samples_num, lost_num, flush_num, prev_samples_num \* the table `stats`

kernelVars == <<data, lost, poll, produced, now, dropped>>
readVars   == <<nr_read, i, idx, seen>>
statVars   == <<log, polled_num, samples_num, lost_num, flush_num,
                prev_samples_num>>
loopVars   == <<handle, sig, batch, drain, flushing, cur, sampleHandle, stop>>
vars == <<kernelVars, prev, tail, evlist, pc, readVars, statVars, loopVars>>

\* closed -> open (fds handed to libuv) -> polled (fds in epoll) -> enabled
EvlistState == {"closed", "open", "polled", "enabled", "disabled"}

Init ==
  /\ data = [r \in Rings |-> << >>]
  /\ prev = [r \in Rings |-> 0]
  /\ tail = [r \in Rings |-> 0]
  /\ lost = [r \in Rings |-> 0]
  /\ poll = [r \in Rings |-> FALSE]
  /\ produced = 0
  /\ dropped = 0
  /\ now = 0
  /\ evlist = [h \in Handles |-> "closed"]
  /\ handle = NoHandle
  /\ pc = "script"
  /\ sig = "none"
  /\ batch = {}
  /\ drain = {}
  /\ flushing = FALSE
  /\ cur = NoHandle
  /\ sampleHandle = NoHandle
  /\ nr_read = 0
  /\ i = 1
  /\ idx = 0
  /\ seen = [c \in Mmaps |-> 0]
  /\ stop = [h \in Handles |-> "none"]
  /\ log = [r \in Rings |-> << >>]
  /\ polled_num = 0
  /\ samples_num = 0
  /\ lost_num = 0
  /\ flush_num = 0
  /\ prev_samples_num = 0

-----------------------------------------------------------------------------
(* The kernel (external).                                                  *)

\* A reservation that finds room first writes the pending LOST record, then
\* the record itself.  With no_buffering (wakeup_events = 1) a sample makes
\* the ring readable.
Reserve(r, k, t) ==
  LET pending == IF lost[r] = 0 THEN << >>
                 ELSE <<[kind |-> "lost", time |-> t, n |-> lost[r]]>>
      new == pending \o <<[kind |-> k, time |-> t, n |-> 0]>>
  IN  /\ Len(data[r]) + Len(new) - tail[r] <= Capacity
      /\ data' = [data EXCEPT ![r] = @ \o new]
      /\ lost' = [lost EXCEPT ![r] = 0]
      /\ poll' = [poll EXCEPT ![r] = @ \/ k # "other"]
      /\ UNCHANGED dropped

Drop(r) ==
  /\ Len(data[r]) + (IF lost[r] = 0 THEN 1 ELSE 2) - tail[r] > Capacity
  /\ lost' = [lost EXCEPT ![r] = @ + 1]
  /\ dropped' = dropped + 1
  /\ UNCHANGED <<data, poll>>

KernelWrite(r) ==
  /\ evlist[r[1]] = "enabled"
  /\ pc # "exited"
  /\ produced < MaxProduced
  /\ produced' = produced + 1
  /\ \E t \in {now, now + 1} :
       /\ now' = t
       /\ \E k \in Kinds : Reserve(r, k, t) \/ Drop(r)
  /\ UNCHANGED <<prev, tail, evlist, pc, readVars, statVars, loopVars>>

\* SIGINT or SIGTERM, written to libuv's signal pipe.
Interrupt ==
  /\ pc \notin {"script", "exited"}
  /\ sig = "none"
  /\ sig' = "pending"
  /\ UNCHANGED <<kernelVars, prev, tail, evlist, pc, readVars, statVars,
                 handle, batch, drain, flushing, cur, sampleHandle, stop>>

-----------------------------------------------------------------------------
(* perf.on and the event loop.                                             *)

\* perf.on, in the script or in a callback: open_perf_event assigns the
\* global `handle`, starts a poll watcher per fd and leaves the events off.
Open(h) ==
  /\ pc = "script" \/ (pc = "callback" /\ ~flushing)
  /\ evlist[h] = "closed"
  /\ evlist' = [evlist EXCEPT ![h] = "open"]
  /\ handle' = h
  /\ UNCHANGED <<kernelVars, prev, tail, pc, readVars, statVars, sig, batch,
                 drain, flushing, cur, sampleHandle, stop>>

\* Any failing step of open_perf_event makes perf.on call os.exit(-1).
OpenFails ==
  /\ pc = "script" \/ (pc = "callback" /\ ~flushing)
  /\ \E h \in Handles : evlist[h] = "closed"
  /\ pc' = "exited"
  /\ UNCHANGED <<kernelVars, prev, tail, evlist, readVars, statVars, loopVars>>

\* The script returned; main calls uv_run.
StartLoop ==
  /\ pc = "script"
  /\ pc' = "idle"
  /\ UNCHANGED <<kernelVars, prev, tail, evlist, readVars, statVars, loopVars>>

\* uv__io_poll adds the queued watchers to epoll.
Register ==
  /\ pc = "idle"
  /\ \E h \in Handles : evlist[h] = "open"
  /\ evlist' = [h \in Handles |->
                  IF evlist[h] = "open" THEN "polled" ELSE evlist[h]]
  /\ UNCHANGED <<kernelVars, prev, tail, pc, readVars, statVars, loopVars>>

\* The second of the two nested timers of perf.on enables the events.
Enable(h) ==
  /\ pc = "idle"
  /\ evlist[h] = "polled"
  /\ evlist' = [evlist EXCEPT ![h] = "enabled"]
  /\ UNCHANGED <<kernelVars, prev, tail, pc, readVars, statVars, loopVars>>

Readable == {r \in Rings : poll[r]}

\* epoll_wait: polling a perf fd clears rb->poll.
EpollWait ==
  /\ pc = "idle"
  /\ Readable # {} \/ sig = "pending"
  /\ batch' = Readable
  /\ poll' = [r \in Rings |-> poll[r] /\ r \notin Readable]
  /\ sig' = IF sig = "pending" THEN "reported" ELSE sig
  /\ pc' = "batch"
  /\ UNCHANGED <<data, lost, produced, now, dropped, prev, tail, evlist,
                 readVars, statVars, handle, drain, flushing, cur,
                 sampleHandle, stop>>

\* Mutant: the evlist is taken from the global `handle`.
EvlistOfGlobal(r) == handle

\* The upvalue `evlist` of the poll_callback started for the fd of r.
EvlistOf(r) == r[1]

\* poll_callback of one reported fd.  It hands the global `handle` to
\* mmap_read_consume, with the evlist it was created for.
PollCallback(r) ==
  /\ pc = "batch"
  /\ r \in batch
  /\ batch' = batch \ {r}
  /\ cur' = EvlistOf(r)
  /\ sampleHandle' = handle
  /\ flushing' = FALSE
  /\ pc' = "while"
  /\ UNCHANGED <<kernelVars, prev, tail, evlist, readVars, statVars, handle,
                 sig, drain, stop>>

BatchDone ==
  /\ pc = "batch"
  /\ batch = {}
  /\ sig # "reported"
  /\ pc' = "idle"
  /\ UNCHANGED <<kernelVars, prev, tail, evlist, readVars, statVars, loopVars>>

\* The signal watcher, anywhere in the batch: call_end starts the end
\* notification, which flushes every handle of perf_handle_tbl.
CallEnd ==
  /\ pc = "batch"
  /\ sig = "reported"
  /\ drain' = {h \in Handles : evlist[h] # "closed"}
  /\ pc' = "notify"
  /\ UNCHANGED <<kernelVars, prev, tail, evlist, readVars, statVars, handle,
                 sig, batch, flushing, cur, sampleHandle, stop>>

\* Mutant: the events stay enabled during the flush.
StillEnabled(h) == evlist

\* perf_evlist__disable
Disabled(h) == [evlist EXCEPT ![h] = "disabled"]

\* One turn of the notification: disable the events of h, then drain it.
Flush(h) ==
  /\ pc = "notify"
  /\ h \in drain
  /\ drain' = drain \ {h}
  /\ evlist' = Disabled(h)
  /\ prev_samples_num' = samples_num
  /\ cur' = h
  /\ sampleHandle' = h
  /\ flushing' = TRUE
  /\ pc' = "while"
  /\ UNCHANGED <<kernelVars, prev, tail, readVars, log, polled_num, samples_num, lost_num,
                 flush_num, handle, sig, batch, stop>>

\* The callback of shark.on_end, then os.exit(0).
Exit ==
  /\ pc = "notify"
  /\ drain = {}
  /\ pc' = "exited"
  /\ UNCHANGED <<kernelVars, prev, tail, evlist, readVars, statVars, loopVars>>

-----------------------------------------------------------------------------
(* mmap_read_consume and perf_evlist__mmap_read_top.                       *)

\* mmap_read_consume returns: to the event loop, or to the notification,
\* which adds the samples of this flush to flush_num.
Return(why) ==
  /\ stop' = [stop EXCEPT ![cur] = why]
  /\ nr_read' = 0 /\ i' = 1 /\ idx' = 0 /\ seen' = [c \in Mmaps |-> 0]
  /\ pc' = IF flushing THEN "notify" ELSE "batch"
  /\ flush_num' = IF flushing THEN flush_num + samples_num - prev_samples_num
                  ELSE flush_num

\* Mutant: a flush is limited like a poll callback.
AlwaysLimited == nr_read < ReadEventsRate

\* nr_read < max_nr_read.  The limit of a flush, 4294967295, is above any
\* number of records of the model.
BelowLimit == flushing \/ nr_read < ReadEventsRate

\* The head of the while loop.
While ==
  /\ pc = "while"
  /\ \/ /\ BelowLimit
        /\ nr_read' = nr_read + 1
        /\ pc' = "scan"
        /\ UNCHANGED <<i, idx, seen, stop, flush_num>>
     \/ /\ ~BelowLimit
        /\ Return("budget")
  /\ UNCHANGED <<kernelVars, prev, tail, evlist, log, polled_num, samples_num,
                 lost_num, prev_samples_num, handle, sig, batch, drain,
                 flushing, cur, sampleHandle>>

Front(r) == data[r][prev[r] + 1]

\* Mutant: the first ring with a record wins.
FirstFound(r) == idx = 0

\* time < top_time; top_time is the largest u64 while there is no top_event.
OlderThanTop(r) ==
  idx = 0 \/ Front(r).time < Front(<<cur, idx>>).time

\* Mutant: an empty ring ends the loop.
BreakIfEmpty(visible) == IF visible THEN i + 1 ELSE NrMmaps + 1

\* An empty ring continues the loop like any other.
NextMmap(visible) == i + 1

\* One turn of the loop over the mmaps: peek at the front record of ring i
\* and keep it if it is older than the best so far.  A record without a time
\* is reported and mmap_consume'd, but md->prev was already put back, so the
\* tail moves only up to it.
ScanMmap ==
  /\ pc = "scan"
  /\ i <= NrMmaps
  /\ LET r == <<cur, i>>
         visible == prev[r] < Len(data[r])
         timed == visible /\ Front(r).kind # "notime"
     IN  /\ idx' = IF timed /\ OlderThanTop(r) THEN i ELSE idx
         /\ tail' = IF visible /\ ~timed THEN [tail EXCEPT ![r] = prev[r]]
                    ELSE tail
         /\ seen' = [seen EXCEPT ![i] = Len(data[r])]
         /\ i' = NextMmap(visible)
  /\ UNCHANGED <<kernelVars, prev, evlist, pc, nr_read, statVars, loopVars>>

\* No ring had a record: mmap_read_consume returns.
ReadNothing ==
  /\ pc = "scan"
  /\ i > NrMmaps
  /\ idx = 0
  /\ Return("empty")
  /\ UNCHANGED <<kernelVars, prev, tail, evlist, log, polled_num, samples_num, lost_num,
                 prev_samples_num, handle, sig, batch, drain, flushing, cur,
                 sampleHandle>>

\* Mutant: the second read of the ring is left out.
NotAdvanced(r) == prev

\* The second perf_evlist__mmap_read moves md->prev past the record.
Advanced(r) == [prev EXCEPT ![r] = @ + 1]

\* Mutant: mmap_consume comes before the callback.
ConsumedFirst(r) == [tail EXCEPT ![r] = prev[r] + 1]

\* Only a record that fails to parse is given back right away.
TailAtDispatch(r) ==
  IF Front(r).kind = "bad" THEN [tail EXCEPT ![r] = prev[r] + 1] ELSE tail

\* Mutant: a LOST record counts as one lost record.
LostCountsOne(e) == IF e.kind = "lost" THEN 1 ELSE 0

\* event.lost.lost, 0 for a record of another type.
LostOf(e) == e.n

\* mmap_read_top reads ring idx again, which moves md->prev past the record;
\* then mmap_read_consume parses and dispatches it.
ReadTop ==
  /\ pc = "scan"
  /\ i > NrMmaps
  /\ idx # 0
  /\ LET r == <<cur, idx>>
         e == Front(r)
     IN  /\ prev' = Advanced(r)
         /\ tail' = TailAtDispatch(r)
         /\ \/ /\ e.kind = "bad"
               /\ Return("bad")
               /\ UNCHANGED <<log, polled_num, samples_num, lost_num>>
            \/ /\ e.kind = "sample"
               /\ samples_num' = samples_num + 1
               /\ polled_num' = IF flushing THEN polled_num ELSE polled_num + 1
               /\ log' = [log EXCEPT ![r] = Append(@, prev[r] + 1)]
               /\ pc' = "callback"
               /\ UNCHANGED <<lost_num, stop, flush_num, readVars>>
            \/ /\ e.kind \in {"other", "lost"}
               /\ lost_num' = lost_num + LostOf(e)
               /\ pc' = "consume"
               /\ UNCHANGED <<log, polled_num, samples_num, stop, flush_num,
                              readVars>>
  /\ UNCHANGED <<kernelVars, evlist, prev_samples_num, handle, sig, batch,
                 drain, flushing, cur, sampleHandle>>

\* The user's callback returns.
CallbackReturns ==
  /\ pc = "callback"
  /\ pc' = "consume"
  /\ UNCHANGED <<kernelVars, prev, tail, evlist, readVars, statVars, loopVars>>

\* The user's callback raises: luv_call_callback ends the process.
CallbackRaises ==
  /\ pc = "callback"
  /\ pc' = "exited"
  /\ UNCHANGED <<kernelVars, prev, tail, evlist, readVars, statVars, loopVars>>

\* perf_evlist__mmap_consume gives the ring's space up to md->prev back, and
\* the while loop turns.
Consume ==
  /\ pc = "consume"
  /\ tail' = [tail EXCEPT ![<<cur, idx>>] = prev[<<cur, idx>>]]
  /\ i' = 1 /\ idx' = 0 /\ seen' = [c \in Mmaps |-> 0]
  /\ pc' = "while"
  /\ UNCHANGED <<kernelVars, prev, evlist, nr_read, statVars, loopVars>>

Exited == pc = "exited" /\ UNCHANGED vars

Reader ==
  \/ While \/ ScanMmap \/ ReadNothing \/ ReadTop
  \/ CallbackReturns \/ CallbackRaises \/ Consume

Next ==
  \/ \E r \in Rings : KernelWrite(r) \/ PollCallback(r)
  \/ \E h \in Handles : Open(h) \/ Enable(h) \/ Flush(h)
  \/ Interrupt \/ OpenFails \/ StartLoop \/ Register \/ EpollWait
  \/ BatchDone \/ CallEnd \/ Exit \/ Reader \/ Exited

Spec == Init /\ [][Next]_vars

-----------------------------------------------------------------------------
(* Properties.                                                             *)

\* The type of every variable of the pipeline.
TypeOK ==
  /\ data \in [Rings -> Seq(Record)]
  /\ prev \in [Rings -> Nat] /\ tail \in [Rings -> Nat]
  /\ lost \in [Rings -> Nat] /\ produced \in Nat /\ dropped \in Nat
  /\ poll \in [Rings -> BOOLEAN]
  /\ now \in Nat
  /\ evlist \in [Handles -> EvlistState]
  /\ handle \in Handles \cup {NoHandle}
  /\ pc \in {"script", "idle", "batch", "notify", "while", "scan",
             "callback", "consume", "exited"}
  /\ sig \in {"none", "pending", "reported"}
  /\ batch \in SUBSET Rings
  /\ drain \in SUBSET Handles
  /\ flushing \in BOOLEAN
  /\ cur \in Handles \cup {NoHandle}
  /\ sampleHandle \in Handles \cup {NoHandle}
  /\ nr_read \in Nat
  /\ i \in 1 .. NrMmaps + 1
  /\ idx \in 0 .. NrMmaps
  /\ seen \in [Mmaps -> Nat]
  /\ stop \in [Handles -> {"none", "empty", "budget", "bad"}]
  /\ log \in [Rings -> Seq(Nat \ {0})]
  /\ polled_num \in Nat /\ samples_num \in Nat /\ lost_num \in Nat
  /\ flush_num \in Nat /\ prev_samples_num \in Nat

\* The record handed to the callback, which perf_sample.event and raw_data
\* point into, is not overwritten while the callback runs: the kernel
\* reuses the slot of record n for record n + Capacity, and mmap_consume
\* comes after the callback.
CallbackRecordIntact ==
  pc = "callback" =>
    prev[<<cur, idx>>] > Len(data[<<cur, idx>>]) - Capacity

\* Ring space is never leaked: what has been read of a ring has been given
\* back to the kernel, except for the one record being processed.  The error
\* paths of mmap_read_consume and mmap_read_top return space as well.
SpaceReturned ==
  pc # "exited" =>
    \A r \in Rings :
      prev[r] - tail[r] =
        IF pc \in {"callback", "consume"} /\ r = <<cur, idx>> THEN 1 ELSE 0

\* The callback gets every sample of a ring that was read exactly once and
\* in the order of the ring, whatever wakeups, budgets and flushes the reads
\* were spread over.
DeliveredExactlyOnce ==
  \A r \in Rings :
    /\ \A a, b \in DOMAIN log[r] : a < b => log[r][a] < log[r][b]
    /\ {log[r][a] : a \in DOMAIN log[r]} =
       {n \in 1 .. prev[r] : data[r][n].kind = "sample"}

\* The handle of a sample, perf_sample.handle, is the one whose event the
\* sample is: the callback resolves addresses with it.
SampleHandleIsOwn == pc = "callback" => sampleHandle = cur

\* If a ring of the evlist being read is advanced, the record taken is not
\* younger than any record mmap_read_top could see.
TakesOldestSeen ==
  \A c \in Mmaps : cur # NoHandle /\ prev'[<<cur, c>>] # prev[<<cur, c>>] =>
    \A d \in Mmaps : \A n \in prev[<<cur, d>>] + 1 .. seen[d] :
      \/ Front(<<cur, d>>).kind = "notime"
      \/ Front(<<cur, c>>).time <= data[<<cur, d>>][n].time

\* mmap_read_top merges the rings of an evlist by time as well as it can
\* know: when a record is read, no record that was in a ring of the evlist
\* as mmap_read_top looked there is older, except behind a record without a
\* time.
MergedByTime == [][TakesOldestSeen]_vars

\* If a flush advances a ring, the record taken is not younger than any
\* record left in the rings of the handle.
TakesOldest ==
  \A r \in Rings : flushing /\ prev'[r] # prev[r] =>
    \A c \in Mmaps :
      \A n \in prev[<<r[1], c>>] + 1 .. Len(data'[<<r[1], c>>]) :
        \/ Front(<<r[1], c>>).kind = "notime"
        \/ Front(r).time <= data'[<<r[1], c>>][n].time

\* The flush of the end notification hands over the records of a handle in
\* the order of their times: its events are disabled before it reads, so
\* none can still arrive.
FlushSorted == [][TakesOldest]_vars

Unread(r) == {n \in prev[r] + 1 .. Len(data[r]) : data[r][n].kind = "sample"}
Blocked(r) == prev[r] < Len(data[r]) /\ Front(r).kind = "notime"

\* No wakeup is lost: when the process waits in epoll_wait and no ring of a
\* handle is readable, samples are left in its rings only because the last
\* read used up read_events_rate or stopped at a record it could not parse,
\* or because they are behind a record without a time.
NoLostWakeup ==
  pc = "idle" =>
    \A h \in Handles :
      (\A c \in Mmaps : ~poll[<<h, c>>]) /\ stop[h] \notin {"budget", "bad"} =>
        \A c \in Mmaps : Unread(<<h, c>>) = {} \/ Blocked(<<h, c>>)

\* After the end notification nothing is left: each ring of a flushed handle
\* is read to its end or up to a record without a time, unless the flush met
\* a record it could not parse.
FlushComplete ==
  pc = "notify" =>
    \A h \in Handles \ drain :
      evlist[h] = "disabled" /\ stop[h] # "bad" =>
        \A c \in Mmaps : prev[<<h, c>>] = Len(data[<<h, c>>]) \/ Blocked(<<h, c>>)

=============================================================================
