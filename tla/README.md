# Verification of shark

shark runs Lua scripts (LuaJIT) that observe a Linux system through perf events
and eBPF programs. A script registers callbacks; a libuv event loop, bound to
Lua by luv, delivers events to them until a signal ends the run. This directory
holds TLA+ models of that machinery, the TLC runs that check them on small
instances and the TLAPS proofs that cover every instance.

## The system and its parts

| part | code | modules |
|---|---|---|
| perf event pipeline | `perf/perf.lua`, `perf/perf-4.0.patch` | `PerfPipeline`, `PerfSched`, `PerfImplements` |
| event loop, timers, closing handles, epoll | `core/libuv/src/unix/{core,timer,linux-core,poll}.c` | `UvLoop` |
| script timers, start-up of `perf.on` | `core/shark_init.lua`, `perf/perf.lua` | `UvLoop` |
| luv timer and poll handles | `core/luv/{timer,poll,handle,lhandle}.c` | `UvLoop` |
| heap of the timers | `core/libuv/src/heap-inl.h` | `UvHeap` |
| idle, prepare and check handles | `core/libuv/src/unix/loop-watcher.c`, `src/queue.h` | `UvWatchers` |
| signals, `shark.on_end` | `core/libuv/src/unix/signal.c`, `core/shark_init.lua` | `UvSignal`, `PerfPipeline` |
| thread pool, async handles | `core/libuv/src/threadpool.c`, `src/unix/async.c` | `UvThreadPool`, `WorkRequests` |
| luv requests and work | `core/luv/{lreq,req,fs,work}.c` | `LuvPool` |
| streams | `core/libuv/src/unix/{stream,tcp}.c` | `UvStream` |
| bpf maps | `bpf/bpf.c`, `bpf/bpf_map_*_func.h`, `bpf/bpf.lua` | `BpfMap` |
| bpf loader | `bpf/libbpf/bpf_load.c`, `bpf/bpf.c` | `BpfLoad` |
| LuaJIT's collector | `core/luajit/src/lj_gc.c` and the callers of its barriers | `LjGc` |

How they meet: `perf.on` opens an evlist with one mmap'ed ring buffer per CPU,
starts a libuv poll watcher for each fd and, through two nested timers, enables
the events once epoll watches the fds. The kernel then fills the rings; a
readable fd makes the loop call `poll_callback`, which merges the rings by time
and calls the script. `bpf.cdef` compiles and loads programs whose maps the
script reads with `pairs`. File system calls and `uv.queue_work` go through the
thread pool; luv keeps their memory alive against the collector. SIGINT or
SIGTERM runs the end notification, which disables the events and drains the
rings, and the process exits.

## Modules

**`PerfPipeline`** is the pipeline at the grain of the accesses to a ring. The
kernel (external) and the single-threaded process alternate freely: a record
may be written between any two turns of the scan loop of
`perf_evlist__mmap_read_top`. `data[r]` is every record ever written to ring r,
`prev[r]` is `md->prev` and `tail[r]` is `data_tail`, both as counts, so the
occupied part of the ring is `tail+1 .. Len(data)`. `pc` follows the process:
the script, the idle loop, the batch of fds `epoll_wait` reported, the `while`
loop, the scan, the callback, `mmap_consume`, the notification. `stop[h]`
records why the last read of a handle returned. `log`, `dropped` and
`polled_num` are history. Records are only what the code tells apart: samples,
other records, LOST records, records that do not parse, and records whose time
cannot be determined.

| action | code |
|---|---|
| `Open`, `OpenFails` | `open_perf_event`, `perf.on` |
| `Register`, `EpollWait`, `BatchDone` | `uv__io_poll` |
| `Enable` | the inner timer of `perf.on` |
| `PollCallback` | `poll_callback` |
| `While`, `ReadNothing`, `ReadTop`, `Consume` | `mmap_read_consume` |
| `ScanMmap` | one turn of the loop of `mmap_read_top` |
| `CallEnd`, `Flush`, `Exit` | `call_end`, the end notification |
| `CallbackReturns`, `CallbackRaises` | the script's callback, `luv_call_callback` |
| `KernelWrite`, `Interrupt` | external |

**`PerfSched`** is the abstract specification: who runs when, with a ring
reduced to a number of unread records. It has no history, so its state is
finite while the kernel writes for ever; liveness is asked here.
**`PerfImplements`** holds the refinement mapping from `PerfPipeline`.

**`UvLoop`** is `uv_run`. `loop` is the `uv_loop_t`; the operators named after
libuv's functions (`uv_timer_start`, `uv_timer_stop`, `uv_timer_again`,
`uv_close`) return the loop they leave, so that an action composes the calls of
a handler in their order. `phase` follows `uv_run`: alive test, timers,
registration, wait, dispatch, closing. The script, or any callback, may create,
stop and close timers and call `perf.on`, in any order. `base`, `delay` and
`fresh` are history.

**`UvHeap`** is the binary heap of the timers on its pointers: `heap_insert`,
`heap_remove`, `heap_node_swap`, with the path to a place computed from its
number as the code does. **`UvWatchers`** is the intrusive list of idle handles
and `uv__run_idle`, whose callbacks start, stop and close handles of the list
under the walk; with `Derail` also after they stopped the handle they are called
for.

**`UvSignal`** is `signal.c`: a handler runs on any thread at any moment the
thread has not blocked signals, takes the lock, and writes one message per
watcher into a pipe that can be full; `uv_signal_start`, `uv_signal_stop` and
`uv_close` are the steps stop, block and lock, change the tree, unlock and
unblock; the loop reads the pipe into a buffer of several messages and finishes
a close only when `caught_signals` equals `dispatched_signals`.

**`UvThreadPool`** is `threadpool.c` and `async.c`. A section under one mutex is
one step; a mutex held over several steps is state. Workers take, run and post
requests, the loop is woken through an async handle (`pending`, then the
eventfd), `uv_cancel` runs on the loop between any two steps of the workers, and
the destructor posts the exit message and joins. **`WorkRequests`** is what the
pool promises of a request; **`LuvPool`** builds on that promise and adds luv's
registry references, `luv_req_t`, work contexts, and a collector that may run at
any moment. `Rash` are the requests the script may cancel, or read before they are
reported; `Shared` are the contexts it may queue a work on while another is in
use. `crashed` records a NULL pointer that the code dereferences.

**`UvStream`** is one TCP stream. A call of `uv__stream_io` (or of
`uv__stream_destroy`) is a list of steps in `todo`; between two of them the
script may run in a callback, where it may write, try to write, shut down, read,
stop reading or close. `asked`, `wire`, `before` and `stranded` are history.

**`BpfMap`** walks a hash map with `pairs` one system call at a time while
programs insert and delete keys. **`BpfLoad`** is the three passes of the loader
over the sections of an object file, with the globals that survive a load.

**`LjGc`** is the incremental collector: `propagatemark` one object at a time,
the atomic phase in its steps, the sweep, the finalizers, and a program that
allocates, loads, stores, closes upvalues, switches coroutines and sets
metatables between any two steps, with the barrier each of the code's stores
runs.

**`MCPerfPipeline`**, **`MCGc`**, **`MCLive`** and **`MCParts`** instantiate the
models for TLC. The last two put parts that share
no state into one run: a behaviour is one of the parts, and the others keep
their initial state. The `*Proofs` modules hold the theorems.

## Runs

| run | shows |
|---|---|
| `perf_rings` | two rings, three records, some that do not parse or carry no time: merged by time, exactly once, intact in the callback, flush sorted, and what wakeups and the flush still guarantee |
| `perf_two_handles` | two handles with read limit 1, the second opened anywhere, overflow, recovery and a second overflow: refinement of the scheduling, statistics add up |
| `uv_loop` | a script timer with delays 0, 2 and one that overflows, and two evlists: the counter of active handles, closing, no early timer, start-up order; with a fair clock start-up completes and timeouts fire |
| `parts` | the safety of thread pool, luv requests, signals, stream, idle handles, timer heap, bpf map, bpf loader and collector |
| `live` | a signal ends shark under endless events, wakeups are answered, requests are reported, the exit joins every worker, a closed signal watcher is finished, writes are called back |
| `perf_handle` (violation) | a poll callback uses the handle opened last |
| `uv_zero` (violation) | a timer started with timeout 0 in a timer callback is called in the same iteration |
| `bpf_pairs` (violation) | `pairs` over a map that contains key 0 leaves out key 0 and the keys before it |
| `gc_upvalue` (violation) | `lua_setupvalue` on one of two functions that share an upvalue leaves a black upvalue with a white value |
| `luv_cancel` (violation) | `uv.cancel` gives up a request whose callback is still to come |
| `luv_ctx` (violation) | the first of two works of a context to end drops the reference that keeps the context for the second |
| `uv_idle` (violation) | an idle callback that stops its own handle and the next one leads the walk to the stopped handle |

The seven violations are disagreements between the code and what the repository
says of it:

- the comment at `perf/perf.lua:443` against the global assigned at line 751;
- `core/libuv/docs/src/timer.rst:41` against `uv__run_timers`;
- `README.md:252` against `bpf/bpf_map_next_func.h:11`;
- `core/luajit/src/lj_obj.h:59` against `lj_api.c:1023` (nothing in shark calls
  `lua_setupvalue`);
- `core/libuv/docs/src/request.rst:69`, "It's **not** safe to free the memory
  associated with the request until the callback is called", against
  `core/luv/req.c:48`;
- the comment "ctx should ref up" at `core/luv/work.c:181` against line 121, where
  any work that ends removes the one entry of its context;
- `core/libuv/docs/src/idle.rst:52` (and `prepare.rst:44`, `check.rst:44`), "Stop
  the handle, the callback will no longer be called", against
  `loop-watcher.c:51`.

### Limits of the code that the properties state

These have no run of their own; the properties, or the constants they are checked
under, say exactly when they happen. Some are at odds with the documentation too,
and it is said where.

- A read that used up its limit, or met a record that does not parse, leaves
  samples behind until the next wakeup (`NoLostWakeup` of `PerfPipeline`). A
  record without a time stays at the front of its ring for good, since
  `mmap_read_top` puts `md->prev` back before it consumes.
- A request that was cancelled passes the test of `uv__work_cancel` again, also
  after its report, and would be reported twice (`Recancel`). The runs and the
  theorems take a program that cancels a request once.
- `MemoryKept` is about the requests outside of `Rash` and the contexts outside of
  `Shared`: the runs `luv_cancel` and `luv_ctx` show what happens to the others.
- An asynchronous scandir that fails is never released: `luv_fs_cb` keeps the
  request of every scandir for `luv_fs_scandir_next`, which has no entries to come
  to the end of and dereferences NULL instead. `fs.rst:160` says that the clean-up
  "Must be called after a request is finished". The last conjunct of `RefsExact`
  states it: a failed scandir keeps its data and its registry entry.
- `luv_fs_scandir_next` checks `req->data` only. That a script waits for the
  callback first is what `fs.rst:204` asks of it; a request of `Rash` may be read
  earlier.
- `WalkExact` is about callbacks that change the list no further once they stopped
  their own handle (`Derail` false); the run `uv_idle` shows the others.
- A shutdown asked for while the stream connects is not carried out before the
  next write: `uv__stream_connect` stops waiting for output when no write waits
  (`stranded`, `stream.c:1289`). `NoStall` excepts just this shutdown, although
  `stream.rst:99-102` promises that its callback is called after the shutdown is
  complete.
- A key deleted by a program between `next` and the lookup is copied with the
  value of the buffer (`BpfMap`, "garbage"). A second load leaves out sections
  whose numbers the first had marked (`BpfLoad`, `stale`): `EachOnce` excepts just
  these, so that a program of a second `bpf.cdef` may never reach the kernel.
- `README.md:155-165` lists `read_events_rate` among the options of `perf.on`, but
  `poll_callback` passes the one of `perf_default_config` (`perf/perf.lua:765`);
  `ReadEventsRate` is that value.
- A userdata reachable only from a finalised one without `__gc` is flagged
  finalized, and a metatable set later is never called (`missed`, `LjGc`). A
  dead string can be found and revived by the intern table on any path, not
  only by `fixstring`, as the comment in `lj_str.c` has it.

### Bounds

- Rings: two per evlist where order between rings matters, one where loss or
  several handles matter. Two rings show every order of a scan against a write.
- `Capacity` 2 or 3 records: a LOST record and its successor need two slots, so
  2 is the smallest size at which recovery after loss happens.
- `ReadEventsRate` 1 or 2: smaller than the number of records, so that a read
  runs out of its limit. The limit of a flush (4294967295) is out of reach.
- `MaxProduced` bounds the records written. Five are enough to overflow, read,
  recover and overflow again with one ring. Three in two rings of `perf_rings` are
  enough to have one record in the way of another and a third in the other ring;
  the theorems have no such bound.
- `UvLoop`: `MaxTime` bounds the clock, except that it runs on for a timer that
  fires once. `MaxWord` stands for the largest `uint64_t`; the delay 7 with
  `MaxWord` 7 overflows at every loop time but 0. Two `perf.on` and a script timer
  make up to five timers in the heap, opened, closed and restarted at will.
- Thread pool: three workers and three requests, so that one can be queued, one
  run and one reported while the loop cancels.
- luv: in `parts` a file system call that may be cancelled, a scandir, and two works
  of one context, one after the other; in `luv_ctx` they overlap.
- Idle handles: three, so that a callback can stop itself, the next and the one
  after it.
- Signals: a pipe of two messages (it fills up), a buffer of two, two threads,
  two handles, three calls of the program, one signal that cannot be caught.
- Stream: two writes in either order, of sizes 2 and 1 in `parts` and 0 and 1 in
  `live`: partial, complete and empty writes. Heap: seven timers, so that the
  last row is left and entered.
- Bpf: four keys in buckets that do not follow their order, two deletions; two
  loads of three files with different section layouts and `MaxMaps` 2 (32 in
  `bpf_load.h`, any number in the theorems).
- Collector: three objects beside the main thread in four mixes of kinds. Each
  mix reaches the barriers of its kinds.
- Symmetry is used for the two handles of `perf_two_handles` only, which has no
  liveness property.
- Deadlock is checked in all runs; a part that may stop does so by an explicit
  step that changes nothing.

### Fairness

`PerfSched!Spec` has weak fairness of the process: the operating system runs
it, and the script's callbacks return. Nothing is assumed of the kernel, which
may write at any rate. `UvLoop!Spec` has weak fairness of the steps of
`uv_run` and of the clock. The thread pool has strong fairness of each worker,
of the call the loop is in and of the loop: they wait on mutexes that others
release again and again, which the scheduler hands over eventually. Signal
handlers and the loop compete for one lock in the same way. For a stream it is
assumed in addition that the peer reads, that is, that an fd on which output is
waited for becomes writable and takes bytes again and again. Opening handles,
raising errors, signals, cancels and calls of the script are never forced.


## Proofs

Each theorem holds for every value of the constants: any number of handles,
rings, timers, evlists, workers, requests, signals, threads, writes, keys, files
and objects, any capacity, read limit, size and delay. The named assumptions
(`PipelineAssumption`, `LoopAssumption`, `PoolAssumption`, `NameAssumption`) say
that sizes are positive, that delays fit a word and that names of different
things differ. The other modules have no assumption of their own; their theorems
state theirs: `Instance` (signals, streams), `Distinct` (luv) and `Apart` (idle
handles) again say that names differ and sizes are numbers; `~Recancel` excludes
a second cancel of a request, `~SetUpvalue` the call of `lua_setupvalue` and
`~Derail` a callback of an idle handle that goes on to change the list after it
stopped its own handle;
`WellFormed` says of an object file that every relocation section is for a
program of its own and refers to a map the file defines; `Buckets` says that the
buckets put the keys in a line in which any set of keys has a first one. The
instances that TLC checks satisfy them. `MaxProduced`, `MaxTime`, `MaxSignals` and `MaxCalls` are
arbitrary; the only limit that stays is that the clock, in ms, does not reach
the largest word.

| theorem | states |
|---|---|
| `PerfPipelineProofs!TypeCorrect`, `SpaceAlwaysReturned`, `CallbackSafe` | `TypeOK`, `SpaceReturned`, `CallbackRecordIntact` |
| `PerfPipelineProofs!PipelineImplementsSched` | `ImplementsSched`: the refinement |
| `PerfPipelineProofs!ExactlyOnce`, `Merged`, `SortedFlush` | `DeliveredExactlyOnce`, `MergedByTime`, `FlushSorted` |
| `PerfPipelineProofs!WakeupsKept`, `FlushLeavesNothing` | `NoLostWakeup`, `FlushComplete` |
| `UvLoopProofs!EventsEnabledAfterPolled`, `TimersAlive`, `TimersNotEarly` | `EnabledAfterPolled`, `NoCallbackAfterClose`, `NotEarly` |
| `UvLoopProofs!HandlesCounted`, `EachClosedOnce` | `ActiveCount`, `ClosedOnce` |
| `UvThreadPoolProofs!PoolTypes`, `NoRequestLost`, `ReportsAreTrue`, `CancelIsSafe` | `TypeOK`, `Accounted`, `ReportedTruly`, `CancelFails` |
| `UvThreadPoolProofs!WakeupsArrive`, `PoolStaysAwake`, `ExitIsClean` | `NoLostWakeup`, `NotAllAsleep`, `ExitDrains` |
| `UvThreadPoolProofs!PoolImplements` | `Implements`: the refinement of `WorkRequests` |
| `UvPartsProofs!HandlersDoNotSelfDeadlock`, `InstalledWhileWatched`, `CloseIsSafe` | `UvSignal`'s `NoSelfDeadlock`, `HandlerInstalled`, `CloseSafe` |
| `UvPartsProofs!WhatIsUsedIsKept`, `RegistryExact` | `LuvPool`'s `MemoryKept`, `RefsExact` |
| `UvPartsProofs!WatchInvHolds`, `EachIdleOnce` | the invariant of the list, `UvWatchers`'s `WalkExact` |
| `BpfProofs!WhatStaysIsCopied` | `BpfMap`'s `RestCopied` |
| `BpfProofs!RelocatedToOwnMaps`, `ProgramsGivenOnce` | `BpfLoad`'s `OwnMaps`, `EachOnce` |
| `UvStreamProofs!WrittenInOrder`, `StreamNeverStalls`, `CloseCallsBack`, `ShutdownComesLast` | `WireInOrder`, `NoStall`, `CloseReports`, `ShutdownWaits` |
| `LjGcProofs!CollectorCorrect`, `NothingInUseIsFreed`, `BarriersSuffice`, `FinalizersRunOnce` | the invariant, `NoDangling`, `BlackNotToWhite`, `FinalizedOnce` |

The arguments, with the inductive invariant of each and why it is needed:

**Pipeline.** Layered; each layer is inductive relative to those below it.

1. `TypeInv`: types, plus which handle is read while `pc` is in
   `mmap_read_consume` and that a ring was chosen when a record is processed.
2. `RingInv`: `tail <= prev <= Len(data)`, occupancy within the capacity, and
   `SpaceReturned`. The record of a callback is intact because it is the one
   record not yet given back.
3. `TimeInv`, `FlushInv`, `ScanInv`: a ring is sorted by time, a flush reads a
   disabled evlist, and in the middle of a scan `idx` is the oldest front among
   the rings already passed, as they were when passed. `ScanInv` is what
   `MergedByTime` needs and what a write behind the scan must not break.
4. `WakeInv`: at every step, not only when idle, a ring with unread samples has
   a wakeup due, is yet to be visited by the running scan, or was given up.
5. `EndInv`: a flushed ring stays as the flush left it.
6. `CountInv`: `nr_read` is zero outside of a read; with 1 and 2 it makes every
   step of the pipeline a step or a stutter of `PerfSched`.

**Loop.** `Inv` joins four parts: the type of the loop; a timer in the heap is
due no earlier than `base + delay` (or is clamped to the largest word, which the
clock does not reach); timers in the heap are live and not closing; and the
start-up order: while the inner timer of `perf.on` is in the heap, either its
evlist is already polled or the inner timer is due only after the next
registration. `CountInv` (the counter is the cardinality of the active handles)
and `OnceInv` (the closing lists have no duplicates and agree with the flags)
are inductive on top of it.

**Thread pool.** `PoolInv` says who holds which mutex, that a request in the pool
is in exactly one queue or hand (`PlaceInv`), what the target of a running
cancel may be, that a queued request or exit message leaves some worker awake or
signalled (`AwakeInv`), that a request to report leaves a wakeup under way in one
of the places from `pending` to the eventfd (`WakeInv`), and what the exit has
left (`ExitInv`, `EndInv`). `AwakeInv` needs the chain by which a worker that
takes a request signals the next.

**Signals.** `LockInv` ties the lock to the thread inside a section and to the
blocked signals; `TreeInv` ties the tree to the installed actions; `CloseInv`
and `CountInv` say that `caught - dispatched` is exactly the number of messages
in pipe and buffer that name the handle, which is what makes the deferred close
safe.

**luv requests.** `KeepInv`: what the registry or the script refers to is alive, and
a request that is not rash has its `luv_req_t` while the pool or its callback has
it, or for ever as a failed scandir. `ReqRefs`: the registry refers to exactly the
requests with a `luv_req_t` and to the works in use. `CtxRefs`: it refers to the
context of a work in use, and of a context that is not shared only one work is in
use, so that the end of a work takes the entry from no other. Rash requests and
shared contexts live in the same registry and take the same steps, so the
invariant also says that they take nothing from the others.

**Idle handles.** `WatchInv` gives every active handle a place, a number, such that
the links lead from each to the one with the next larger number; a handle that is
started takes a number smaller than all, which is why the walk never meets it.
The handles still due are active and lie at or behind the node the walk comes to
next, those called and still active before it. The property itself says nothing
about the list, so the order has to be invented for the proof.

**Bpf map.** `CopyInv`: every key that stayed and lies before the one the walk
stands on has its value. When that key is deleted the kernel starts again from
the first key, which only puts more keys ahead.

**Bpf loader.** `LoadInv` says for each pass what it has done to the sections it
has passed: `map_fd` holds this load's maps up to the largest number defined, the
programs of the relocation sections are marked, the unmarked programs were given
to the kernel. `Explained` says that a program marked during this load belongs to
a relocation section, which is what keeps the third pass from leaving one out.

**Stream.** `Inv` has eight parts. `Good` says that the requests of the two queues
are distinct, that `write_queue_size` is the sum of what they have left (by a
function of partial sums, as the provers have no induction), and that what was
asked for is the wire followed by what is left of the queue, in order, as long
as the stream can still send. `PlanInv` says which steps of `uv__stream_io` can
follow each other, `AtInv` what holds at them, `ConnInv` what a stream that is
not connected cannot have, `StallInv` that whatever waits is going to be called
for by a watcher, a fed watcher or a step still to come, `ClosingInv` that a
closing stream waits for nothing and that requests are failed only when none can
be sent any more, and `CallInv` which requests are in the queues. A step of the
script is the same whether it is made from the loop or in a callback in the
middle of `uv__stream_io`, so that the steps to come belong to the invariant.

**Collector.** `Inv` is the tri-colour invariant for every barrier the code has:
`MarkInv` (in the mark phase a black object refers to no white one, but for
those in `grayagain`, the stack of a running thread and open upvalues),
`AtomicInv` (what each step of the atomic phase has completed), `SweepInv` (what
is not swept yet has the colours of the last cycle, what is swept or new the
current white), and `LiveInv` (no object in use refers to a dead one).
`FinInv` adds the life of a finalized userdata. `SetUpvalue` is assumed false
since the run `gc_upvalue` shows that the invariant fails otherwise; in the run
`parts` it is true, with upvalues of one function only.

### What is only model-checked

- All liveness (`SignalEnds`, `WakeupAnswered`, `StartupCompletes`,
  `TimeoutFires`, `AllReported`, `JoinReturns`, `CloseCompletes`,
  `WritesReported`): the prover has no rules for fairness.
- `HeapSound`: `UvHeap` is recursive, along the path to a place and along a walk,
  and what a recursive definition computes needs an induction the provers lack.
- `StatsAddUp`: sums over the rings and over the records of a ring, as folds. How a
  fold changes when one of its terms does needs the same induction.

## What the models leave out

- `PerfPipeline` assumes the default `no_buffering`, by which every sample
  wakes its fd; a kernel that supports `sample_id_all`; and that the number of
  reported fds fits one `epoll_wait` batch. Errors and hang-ups of perf fds are
  not modelled, and neither is a `perf.on` inside a callback of the final
  flush, where Lua leaves the traversal of the table undefined.
- `UvLoop` has no pending handles, no `uv_ref`, `uv_unref` or `uv_stop`, no close
  callbacks and no `INT_MAX` cap of the wait. One watcher stands for all fds of
  an evlist, which are started and registered together. A script does not start a
  timer that is closing (`core/luv/timer.c:42-50` lets it). A script that chains
  zero timeouts for ever is outside its finite set of timers.
- `UvSignal` has one loop, no `uv__signal_loop_cleanup` and no fork.
  `UvThreadPool` has one loop and does not close async handles.
- `UvStream` has no blocking streams, no passing of descriptors, no listen and
  accept, no `alloc_cb` that returns no memory, and one connect, which fails at once
  only with ECONNREFUSED. After one write error all later writes fail: an error that
  passes, such as ENOBUFS, is left out.
- `LuvPool` reads a directory only through the request of a scandir, and a request
  of `uv.fs_scandir` is read to its end in one step. A request collected in its own
  callback after the directory was read there (`fs.c:258` still reads `fs_type`) is
  allowed by `MemoryKept`: whether it is on the Lua stack then depends on the script.
- `BpfMap` has numeric keys below 2^53 and one key to a bucket: of several, the
  kernel moves an updated one to the front. `BpfLoad` takes the layout of the
  sections as a constant; ELF is not parsed.
- `LjGc` has no traces, prototypes, cdata finalizers, weak keys, `lua_close` or
  stack slots above the top, and a step of the collector may come at any moment:
  the pacing by debt and threshold is left out.
- `shark.on_end` is taken to be called once. The user's callbacks are steps that
  return, raise, or make the calls above.
- Not modelled at all: the bpf compiler front end (text processing, runs clang),
  histograms and printing (formatting), the other luv bindings (argument
  conversion around single libuv calls), sharkcloud (HTTP upload), libuv for
  other systems, and the rest of LuaJIT. These are most of the lines of the
  repository, and vendored for the greater part.
