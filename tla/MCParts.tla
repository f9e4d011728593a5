------------------------------ MODULE MCParts ------------------------------
(***************************************************************************)
(* The parts that share no state, side by side: a behaviour is one of      *)
(* UvThreadPool, LuvPool, UvSignal, UvStream, UvWatchers, UvHeap, BpfMap,  *)
(* BpfLoad or LjGc, and the variables of the others keep their initial     *)
(* values.                                                                 *)
(***************************************************************************)
EXTENDS UvThreadPool

VARIABLES
  part,
  phase, memory, data, registry, held, ctx, failed, cb, crashed,
  signum, tree, caught, dispatched, state, registered, pipe, lock, masked,
  handler, spc, todo, buf, in_cb, signals, calls,
  bytes, connect, flags, pevents, fed, queue, completed, left, error, size,
  iosteps, count, dead, rstate, asked, wire, before, stranded,
  next, prev, watching, q, in_watcher, due, called,
  heap,
  map, step, key, new, present, from0, deletes,
  processed, map_fd, prog_fd, event_fd, global, pass, i, file, loads, tried,
  patched, stale,
  kind, alloc, marked, finalized, refs, open, owner, running, gcstate, gcstep, full,
  white, gray, grayagain, weak, mmudata, unswept, gccalls, missed

luvVars == <<phase, memory, data, registry, held, ctx, failed, cb, crashed>>
signalVars == <<signum, tree, caught, dispatched, state, registered, pipe, lock,
  masked, handler, spc, todo, buf, in_cb, signals, calls>>
streamVars == <<bytes, connect, flags, pevents, fed, queue, completed, left, error, size,
  iosteps, count, dead, rstate, asked, wire, before, stranded>>
watcherVars == <<next, prev, watching, q, in_watcher, due, called>>
mapVars == <<map, step, key, new, present, from0, deletes>>
loadVars == <<processed, map_fd, prog_fd, event_fd, global, pass, i, file, loads,
  tried, patched, stale>>
gcVars == <<kind, alloc, marked, finalized, refs, open, owner, running, gcstate, gcstep,
  full, white, gray, grayagain, weak, mmudata, unswept, gccalls, missed>>
partsVars == <<part, vars, luvVars, signalVars, streamVars, watcherVars, heap, mapVars,
  loadVars, gcVars>>

-----------------------------------------------------------------------------

\* A file system request that may be cancelled, a scandir, and two works that take
\* turns with a context.
Luv == INSTANCE LuvPool WITH
  FsReqs <- {"f1", "s1"}, Scandirs <- {"s1"}, Works <- {"w1", "w2"}, Ctxs <- {"c1"},
  Rash <- {"f1"}, Shared <- {}

\* Two signal watchers, for signals of which one cannot be caught.
Signal == INSTANCE UvSignal WITH
  Handles <- {"h1", "h2"}, Signums <- {"SIGINT", "SIGTERM", "SIGKILL"},
  Invalid <- {"SIGKILL"}, Threads <- {"loop", "worker"}, Loop <- "loop",
  PipeSize <- 2, BufSize <- 2, MaxSignals <- 2, MaxCalls <- 3,
  lpc <- spc

\* Two writes, in either order, one of which can be written in part.
Stream == INSTANCE UvStream WITH
  Writes <- {"r1", "r2"}, Sizes <- {[r1 |-> 2, r2 |-> 1]}, ReadCount <- 1,
  todo <- iosteps, state <- rstate

Watchers == INSTANCE UvWatchers WITH
  Handles <- {"h1", "h2", "h3"}, ListHead <- "head", Derail <- FALSE,
  in_cb <- in_watcher, active <- watching

\* Seven timers: the last row of the heap has room for four.
Heap == INSTANCE UvHeap WITH Nodes <- 1 .. 7

\* Keys in buckets that do not follow their order.
Buckets == <<2, 0, 3, 1>>
Before ==
  [k \in 0 .. 3 |-> {j \in 0 .. 3 : \E m, n \in DOMAIN Buckets :
                                      m < n /\ Buckets[m] = j /\ Buckets[n] = k}]

Map == INSTANCE BpfMap WITH
  Keys <- 0 .. 3, MaxEntries <- 4, MaxDeletes <- 2, pc <- step

\* Three object files: programs with and without maps, laid out differently.
Plain(k) == [kind |-> k, prog |-> 0, map |-> 0, maps |-> 0]
Maps(n) == [Plain("maps") EXCEPT !.maps = n]
Rel(p, m) == [Plain("rel") EXCEPT !.prog = p, !.map = m]

WithMaps ==
  <<Plain("prog"), Rel(1, 1), Plain("prog"), Rel(3, 2), Plain("prog"), Maps(2),
    Plain("license"), Plain("version")>>
MapsFirst ==
  <<Maps(1), Plain("license"), Plain("version"), Plain("prog"), Rel(4, 1), Plain("prog")>>
NoMaps ==
  <<Plain("other"), Plain("prog"), Plain("license"), Plain("version"), Plain("prog")>>

Load == INSTANCE BpfLoad WITH
  Files <- {WithMaps, MapsFirst, NoMaps}, MaxMaps <- 2, MaxLoads <- 2, pc <- pass

\* Three objects of every useful mix of kinds, no upvalue of two functions.
Mix(a, b, c) == [o1 |-> a, o2 |-> b, o3 |-> c]
Mixes ==
  {Mix("weak", "tab", "str"), Mix("udata", "tab", "none"),
   Mix("func", "upval", "tab"), Mix("thread", "func", "upval")}

Gc == INSTANCE LjGc WITH
  Objs <- {"o1", "o2", "o3"}, Main <- "main", Kinds <- Mixes, MaxRefs <- 1,
  SetUpvalue <- TRUE, state <- gcstate, step <- gcstep, calls <- gccalls

-----------------------------------------------------------------------------

PartsInit ==
  /\ part \in {"pool", "luv", "signal", "stream", "watchers", "heap", "map", "load", "gc"}
  /\ Init /\ Luv!Init /\ Signal!Init /\ Stream!Init /\ Watchers!Init /\ Heap!Init
  /\ Map!Init /\ Load!Init /\ Gc!Init
  /\ part # "gc" => kind["o3"] = "none"

PartsNext ==
  /\ UNCHANGED part
  /\ \/ /\ part = "pool" /\ Next
        /\ UNCHANGED <<luvVars, signalVars, streamVars, watcherVars, heap,
                       mapVars, loadVars, gcVars>>
     \/ /\ part = "luv" /\ Luv!Next
        /\ UNCHANGED <<vars, signalVars, streamVars, watcherVars, heap,
                       mapVars, loadVars, gcVars>>
     \/ /\ part = "signal" /\ Signal!Next
        /\ UNCHANGED <<vars, luvVars, streamVars, watcherVars, heap,
                       mapVars, loadVars, gcVars>>
     \/ /\ part = "stream" /\ Stream!Next
        /\ UNCHANGED <<vars, luvVars, signalVars, watcherVars, heap,
                       mapVars, loadVars, gcVars>>
     \/ /\ part = "watchers" /\ Watchers!Next
        /\ UNCHANGED <<vars, luvVars, signalVars, streamVars, heap,
                       mapVars, loadVars, gcVars>>
     \/ /\ part = "heap" /\ Heap!Next
        /\ UNCHANGED <<vars, luvVars, signalVars, streamVars, watcherVars,
                       mapVars, loadVars, gcVars>>
     \/ /\ part = "map" /\ Map!Next
        /\ UNCHANGED <<vars, luvVars, signalVars, streamVars, watcherVars,
                       heap, loadVars, gcVars>>
     \/ /\ part = "load" /\ Load!Next
        /\ UNCHANGED <<vars, luvVars, signalVars, streamVars, watcherVars,
                       heap, mapVars, gcVars>>
     \/ /\ part = "gc" /\ Gc!Next
        /\ UNCHANGED <<vars, luvVars, signalVars, streamVars, watcherVars, heap, mapVars,
                       loadVars>>

PartsSpec == PartsInit /\ [][PartsNext]_partsVars

-----------------------------------------------------------------------------
(* The properties of the parts; those of UvThreadPool have their own names. *)

\* The memory of a request and the context of a work outlive libuv's use of them,
\* unless the script cancels the one or shares the other.
MemoryKept == part = "luv" => Luv!MemoryKept

\* The registry holds just what libuv and unread directories need, and scandirs
\* that failed.
RefsExact == part = "luv" => Luv!RefsExact

\* A signal watcher is freed only when nothing refers to it any more.
CloseSafe == part = "signal" => Signal!CloseSafe

\* The action of a signal is installed just while a handle watches it.
HandlerInstalled == part = "signal" => Signal!HandlerInstalled

\* The bytes of a stream are written in the order they were asked for.
WireInOrder == part = "stream" => Stream!WireInOrder

\* Whatever waits in a stream is going to be called for.
NoStall == part = "stream" => Stream!NoStall

\* A shutdown is preceded by the writes made before it.
ShutdownWaits == Stream!ShutdownWaits

\* A close calls every request back, and leaves the closed fd alone.
CloseReports == part = "stream" => Stream!CloseReports

\* A walk of uv__run_idle calls each active handle once, whatever callbacks do
\* before they stop their own handle.
WalkExact == Watchers!WalkExact

\* The timers form a complete binary tree, each due no earlier than its parent.
HeapSound == part = "heap" => Heap!HeapSound

\* copy_map gets the value of every key behind key 0 that was there all the time.
RestCopied == part = "map" => Map!RestCopied

\* copy_map gets every key that was in the map all the time.
PairsComplete == part = "map" => Map!PairsComplete

\* Every program of an object file is given to the kernel, and none twice.
EachOnce == part = "load" => Load!EachOnce

\* A program refers to maps of its own file.
OwnMaps == part = "load" => Load!OwnMaps

\* The collector frees nothing that is in use.
NoDangling == part = "gc" => Gc!NoDangling

\* The finalizer of a userdata is called once, before it is freed.
FinalizedOnce == Gc!FinalizedOnce

=============================================================================
