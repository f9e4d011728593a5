-------------------------------- MODULE LjGc --------------------------------
(***************************************************************************)
(* The incremental collector of LuaJIT (src/lj_gc.c) and the program it    *)
(* interleaves with: marking in small steps, the write barriers by which   *)
(* stores keep the marks true, the atomic end of marking, the sweep and    *)
(* the finalizers.  What an object refers to is a set: the slots of a      *)
(* table or a stack, the upvalues of a function, the value of an upvalue,  *)
(* the metatable of a userdata.  The slot an open upvalue points to is     *)
(* kept with the upvalue, and is part of the stack of its thread.  The     *)
(* stack of the main thread stands for all roots.  A list of objects is a  *)
(* set, any member of which may be the next: its order is never relied on. *)
(***************************************************************************)
EXTENDS Naturals, FiniteSets

CONSTANTS
  Objs,       \* memory for objects other than the main thread
  Main,       \* mainthread(g)
  Kinds,      \* what Objs may be: functions to "tab", "weak", "func", ...
  MaxRefs,    \* bound: references in a table
  SetUpvalue  \* does the program call lua_setupvalue?

None == "none"
All == Objs \cup {Main}

VARIABLES
  kind,       \* gct, where "weak" is a table with a weak mode
  alloc,      \* the objects in memory
  marked,     \* "white0", "white1", "gray" or "black"
  finalized,  \* userdata with LJ_GC_FINALIZED
  refs,       \* what an object refers to
  open,       \* the upvalues that point to a slot of a stack
  owner,      \* the thread whose stack that is
  running,    \* the thread that runs
  state,      \* g->gc.state
  step,       \* how far atomic() is, or None
  full,       \* is lj_gc_fullgc finishing a sweep?
  white,      \* g->gc.currentwhite
  gray, grayagain, weak, mmudata, \* the lists
  unswept,    \* the objects g->gc.sweep and sweepstr have not passed
  calls,      \* history: calls of the __gc of a userdata
  missed      \* history: flagged as finalized when there was no __gc to call

memVars == <<kind, alloc, refs, open, owner, running>>
listVars == <<gray, grayagain, weak>>
endVars == <<finalized, mmudata, calls, missed>>
vars == <<memVars, marked, state, step, full, white, listVars, unswept, endVars>>

Of(k) == {o \in alloc : kind[o] = k}

Init ==
  /\ \E k \in Kinds : kind = [o \in All |-> IF o = Main THEN "thread" ELSE k[o]]
  /\ alloc = {Main}
  /\ marked = [o \in All |-> "white0"]
  /\ refs = [o \in All |-> {}]
  /\ open = {} /\ owner = [o \in All |-> Main]
  /\ running = Main
  /\ state = "pause" /\ step = None /\ full = FALSE /\ white = "white0"
  /\ gray = {} /\ grayagain = {} /\ weak = {} /\ unswept = {}
  /\ finalized = {} /\ mmudata = {} /\ missed = {}
  /\ calls = [o \in Objs |-> 0]

-----------------------------------------------------------------------------
(* Colours.                                                                *)

otherwhite == IF white = "white0" THEN "white1" ELSE "white0"
iswhite(o) == marked[o] \in {"white0", "white1"}
isdead(o) == marked[o] = otherwhite

Whites(S) == {o \in S : iswhite(o)}
RefsOf(S) == UNION {refs[o] : o \in S}

OpenOf(th) == {uv \in open : owner[uv] = th}

\* The values on the stack of a thread.
Stack(th) == refs[th] \cup RefsOf(OpenOf(th))

\* gc_mark of the white objects of S: a userdata marks its metatable and an
\* upvalue its value, at once; a value is no upvalue, a metatable is a table.
Reached(S) ==
  LET a == Whites(S)
      b == a \cup Whites(RefsOf({o \in a : kind[o] = "upval"}))
  IN  b \cup Whites(RefsOf({o \in b : kind[o] = "udata"}))

\* The colour an object has from gc_mark.
MarkColour(o) ==
  IF kind[o] = "udata" \/ (kind[o] = "upval" /\ o \notin open) THEN "black" ELSE "gray"

\* Those that gc_mark puts on the gray list, to be traversed.
Traversed(S) == {o \in S : kind[o] \in {"tab", "weak", "func", "thread"}}

\* gc_mark of S when the marks are m and the gray list is g, and nothing else.
gc_mark(S, m, g) ==
  /\ marked' = [o \in All |-> IF o \in Reached(S) THEN MarkColour(o) ELSE m[o]]
  /\ gray' = g \cup Traversed(Reached(S))

-----------------------------------------------------------------------------
(* The collector: gc_onestep, one action per state.                        *)

gc_mark_start ==
  /\ state = "pause"
  /\ gc_mark({Main}, marked, {})
  /\ grayagain' = {} /\ weak' = {}
  /\ state' = "propagate"
  /\ UNCHANGED <<memVars, step, full, white, unswept, endVars>>

\* What the traversal of an object marks: nothing for a weak table.
Strong(o) ==
  CASE kind[o] = "weak" -> {}
    [] kind[o] = "thread" -> Stack(o)
    [] OTHER -> refs[o]

\* Weak tables and threads stay gray, for the atomic phase.
KeptGray(o) ==
  /\ weak' = IF kind[o] = "weak" THEN weak \cup {o} ELSE weak
  /\ grayagain' = IF kind[o] = "thread" THEN grayagain \cup {o} ELSE grayagain

propagatemark ==
  \E o \in gray :
    /\ gc_mark(Strong(o),
               [marked EXCEPT ![o] = IF kind[o] \in {"weak", "thread"} THEN "gray" ELSE "black"],
               gray \ {o})
    /\ KeptGray(o)
    /\ UNCHANGED <<memVars, state, step, full, white, unswept, endVars>>

\* A step of the mark phase, or of gc_propagate_gray in atomic().
Propagate == (state = "propagate" \/ step # None) /\ propagatemark

MarkPhaseEnds ==
  /\ state = "propagate" /\ gray = {}
  /\ state' = "atomic"
  /\ UNCHANGED <<memVars, marked, step, full, white, listVars, unswept, endVars>>

gc_mark_uv == {uv \in open : marked[uv] = "gray"}

AtomicStarts ==
  /\ state = "atomic" /\ step = None
  /\ gc_mark(RefsOf(gc_mark_uv), marked, gray)
  /\ step' = "upvalues"
  /\ UNCHANGED <<memVars, state, full, white, grayagain, weak, unswept, endVars>>

RemarkWeak ==
  /\ step = "upvalues" /\ gray = {}
  /\ gc_mark({running}, marked, weak)
  /\ weak' = {}
  /\ step' = "weak"
  /\ UNCHANGED <<memVars, state, full, white, grayagain, unswept, endVars>>

RemarkGrayagain ==
  /\ step = "weak" /\ gray = {}
  /\ gray' = grayagain /\ grayagain' = {}
  /\ step' = "again"
  /\ UNCHANGED <<memVars, marked, state, full, white, weak, unswept, endVars>>

\* Mutant: a userdata is separated whenever it is not marked.
SeparateAgain == {u \in Of("udata") \ mmudata : iswhite(u)}

lj_gc_separateudata == {u \in Of("udata") \ (mmudata \cup finalized) : iswhite(u)}

HasGc(u) == refs[u] # {}

\* lj_gc_separateudata and gc_mark_mmudata, which marks those of earlier cycles
\* again.
Separate ==
  /\ step = "again" /\ gray = {}
  /\ LET new == lj_gc_separateudata
         all == mmudata \cup {u \in new : HasGc(u)}
     IN  /\ finalized' = finalized \cup new
         /\ missed' = missed \cup {u \in new : ~HasGc(u)}
         /\ mmudata' = all
         /\ gc_mark(RefsOf(all), [o \in All |-> IF o \in all THEN "black" ELSE marked[o]], gray)
  /\ step' = "udata"
  /\ UNCHANGED <<memVars, state, full, white, grayagain, weak, unswept, calls>>

gc_mayclear(v) ==
  kind[v] # "str" /\ (iswhite(v) \/ (kind[v] = "udata" /\ v \in finalized))

\* Open upvalues are swept with their thread, mmudata is not swept.
Sweepable == alloc \ (mmudata \cup open)

\* gc_clearweak, which marks strings, and the preparation of the sweep.
AtomicEnds ==
  /\ step = "udata" /\ gray = {}
  /\ refs' = [o \in All |-> IF o \in weak THEN {v \in refs[o] : ~gc_mayclear(v)} ELSE refs[o]]
  /\ marked' = [o \in All |-> IF kind[o] = "str" /\ o \in Whites(RefsOf(weak)) THEN "gray"
                              ELSE marked[o]]
  /\ white' = otherwhite
  /\ unswept' = Sweepable
  /\ state' = "sweepstring" /\ step' = None
  /\ UNCHANGED <<kind, alloc, open, owner, running, full, listVars, endVars>>

\* What gc_sweep frees.
Condemned(o) == isdead(o)

\* gc_sweep of o, and of the open upvalues of a thread: what is alive becomes
\* white, what is dead is freed.  A thread that goes closes its upvalues.
SweepOne(o) ==
  LET gone == {x \in OpenOf(o) \cup {o} : Condemned(x) /\ x # Main}
  IN  /\ alloc' = alloc \ gone
      /\ marked' = [x \in All |-> IF x \in gone THEN "white0"
                                 ELSE IF x \in OpenOf(o) \cup {o} THEN white ELSE marked[x]]
      /\ refs' = [x \in All |-> IF x \in gone THEN {} ELSE refs[x]]
      /\ open' = open \ (gone \cup (IF o \in gone THEN OpenOf(o) ELSE {}))
      /\ UNCHANGED owner
      /\ finalized' = finalized \ gone
      /\ missed' = missed \ gone
      /\ calls' = [x \in Objs |-> IF x \in gone THEN 0 ELSE calls[x]]
      /\ unswept' = unswept \ {o}
      /\ UNCHANGED <<kind, running, state, step, full, white, listVars, mmudata>>

\* The strings first, chain by chain, then the others.
SweepString ==
  /\ state = "sweepstring"
  /\ \E o \in unswept : kind[o] = "str" /\ SweepOne(o)

StringsSwept ==
  /\ state = "sweepstring" /\ \A o \in unswept : kind[o] # "str"
  /\ state' = "sweep"
  /\ UNCHANGED <<memVars, marked, step, full, white, listVars, unswept, endVars>>

Sweep == state = "sweep" /\ \E o \in unswept : SweepOne(o)

\* lj_gc_fullgc goes on to the next cycle without the finalizers.
SweepEnds ==
  /\ state = "sweep" /\ unswept = {}
  /\ state' = IF mmudata # {} /\ ~full THEN "finalize" ELSE "pause"
  /\ full' = FALSE
  /\ UNCHANGED <<memVars, marked, step, white, listVars, unswept, endVars>>

\* The finalizer gets the userdata, which is an ordinary object again.  It is
\* script code like any other; that it usually runs without steps of the
\* collector does not matter.
gc_finalize(u) ==
  /\ state = "finalize" /\ u \in mmudata
  /\ mmudata' = mmudata \ {u}
  /\ marked' = [marked EXCEPT ![u] = white]
  /\ \/ /\ HasGc(u)
        /\ calls' = [calls EXCEPT ![u] = @ + 1]
        /\ refs' = [refs EXCEPT ![running] = @ \cup {u}]
        /\ UNCHANGED missed
     \/ /\ ~HasGc(u)
        /\ missed' = missed \cup {u}
        /\ UNCHANGED <<calls, refs>>
  /\ UNCHANGED <<kind, alloc, open, owner, running, finalized, state, step, full, white,
                 listVars, unswept>>

CycleEnds ==
  /\ state = "finalize" /\ mmudata = {}
  /\ state' = "pause"
  /\ UNCHANGED <<memVars, marked, step, full, white, listVars, unswept, endVars>>

\* The program runs between the steps of the collector.
Mutator == step = None /\ ~full

\* collectgarbage(): marking is given up, and everything swept as alive.
lj_gc_fullgc ==
  /\ Mutator
  /\ \/ /\ state \in {"pause", "propagate", "atomic"}
        /\ unswept' = Sweepable
        /\ gray' = {} /\ grayagain' = {} /\ weak' = {}
        /\ state' = "sweepstring" /\ full' = TRUE
     \/ /\ state \in {"sweepstring", "sweep"}
        /\ full' = TRUE
        /\ UNCHANGED <<state, unswept, listVars>>
     \/ /\ state = "finalize"
        /\ state' = "pause"
        /\ UNCHANGED <<full, unswept, listVars>>
  /\ UNCHANGED <<memVars, marked, step, white, endVars>>

Collector ==
  \/ gc_mark_start \/ Propagate \/ MarkPhaseEnds
  \/ AtomicStarts \/ RemarkWeak \/ RemarkGrayagain \/ Separate \/ AtomicEnds
  \/ SweepString \/ StringsSwept \/ Sweep \/ SweepEnds
  \/ (\E u \in Objs : gc_finalize(u)) \/ CycleEnds

-----------------------------------------------------------------------------
(* The write barriers, for a store to o.  The marks and the lists change.  *)

NoBarrier == UNCHANGED <<marked, gray, grayagain>>

\* Mutant: the table is not told.
lj_gc_nobarrier(t) == NoBarrier

\* Move the propagation frontier back.
lj_gc_barrierback(t) ==
  /\ marked' = [marked EXCEPT ![t] = "gray"]
  /\ grayagain' = grayagain \cup {t}
  /\ UNCHANGED gray

lj_gc_anybarriert(t) == IF marked[t] = "black" THEN lj_gc_barrierback(t) ELSE NoBarrier

lj_gc_barriert(t, v) ==
  IF iswhite(v) /\ marked[t] = "black" THEN lj_gc_barrierback(t) ELSE NoBarrier

\* Move it forward, or avoid further barriers.
lj_gc_barrierf(o, v) ==
  IF state \in {"propagate", "atomic"} THEN gc_mark({v}, marked, gray) /\ UNCHANGED grayagain
  ELSE marked' = [marked EXCEPT ![o] = white] /\ UNCHANGED <<gray, grayagain>>

lj_gc_objbarrier(o, v) ==
  IF iswhite(v) /\ marked[o] = "black" THEN lj_gc_barrierf(o, v) ELSE NoBarrier

-----------------------------------------------------------------------------
(* The program: what the running thread does with the values it holds.     *)

Held == Stack(running)

\* Everything but the references, the marks and the lists a barrier changes.
restVars == <<kind, running, state, step, full, white, weak, unswept, endVars>>

Becomes(o, S) == refs' = [refs EXCEPT ![o] = S]
Pushed(v) == Becomes(running, refs[running] \cup {v})

\* lj_mem_newgco and its like: a new object is white.
lj_mem_newgco(o) ==
  /\ Mutator
  /\ o \in Objs \ alloc /\ kind[o] \in {"tab", "weak", "udata", "thread"}
  /\ alloc' = alloc \cup {o}
  /\ marked' = [marked EXCEPT ![o] = white]
  /\ Pushed(o)
  /\ UNCHANGED <<open, owner, gray, grayagain, restVars>>

\* An interned string that is dead and not swept yet is resurrected.
Resurrected(o) == [marked EXCEPT ![o] = IF isdead(o) THEN white ELSE @]

lj_str_new(s) ==
  /\ Mutator
  /\ s \in Objs /\ kind[s] = "str"
  /\ alloc' = alloc \cup {s}
  /\ marked' = IF s \in alloc THEN Resurrected(s) ELSE [marked EXCEPT ![s] = white]
  /\ Pushed(s)
  /\ UNCHANGED <<open, owner, gray, grayagain, restVars>>

\* A closure over a local variable, which gets an open upvalue (func_finduv).
lj_func_newL_gc(f, uv, v) ==
  /\ Mutator
  /\ f \in Objs \ alloc /\ kind[f] = "func"
  /\ uv \in Objs \ alloc /\ kind[uv] = "upval"
  /\ v \in refs[running]
  /\ alloc' = alloc \cup {f, uv}
  /\ marked' = [marked EXCEPT ![f] = white, ![uv] = white]
  /\ open' = open \cup {uv} /\ owner' = [owner EXCEPT ![uv] = running]
  /\ refs' = [refs EXCEPT ![f] = {uv}, ![uv] = {v},
                          ![running] = (@ \ {v}) \cup {f}]
  /\ UNCHANGED <<gray, grayagain, restVars>>

\* A closure that shares an upvalue: an open one of the running thread, which
\* may be dead, or one of a function that runs.
Shared(f, uv) ==
  /\ Mutator
  /\ f \in Objs \ alloc /\ kind[f] = "func"
  /\ alloc' = alloc \cup {f}
  /\ refs' = [refs EXCEPT ![f] = {uv}, ![running] = @ \cup {f}]
  /\ \/ /\ uv \in OpenOf(running)
        /\ marked' = [Resurrected(uv) EXCEPT ![f] = white]
     \/ /\ \E g \in Held : kind[g] = "func" /\ uv \in refs[g]
        /\ marked' = [marked EXCEPT ![f] = white]
  /\ UNCHANGED <<open, owner, gray, grayagain, restVars>>

\* The colour of an upvalue when it is closed: never gray.
lj_gc_closeuv(uv) ==
  IF marked[uv] # "gray" THEN NoBarrier
  ELSE IF state \in {"propagate", "atomic"}
  THEN gc_mark(refs[uv], [marked EXCEPT ![uv] = "black"], gray) /\ UNCHANGED grayagain
  ELSE marked' = [marked EXCEPT ![uv] = white] /\ UNCHANGED <<gray, grayagain>>

\* A local variable goes out of scope; it lives on in its upvalue.
lj_func_closeuv(uv) ==
  /\ Mutator
  /\ uv \in OpenOf(running)
  /\ open' = open \ {uv}
  /\ \/ /\ isdead(uv)
        /\ alloc' = alloc \ {uv}
        /\ Becomes(uv, {})
        /\ NoBarrier
     \/ /\ ~isdead(uv)
        /\ lj_gc_closeuv(uv)
        /\ UNCHANGED <<alloc, refs>>
  /\ UNCHANGED <<owner, restVars>>

\* Reads of a table, an upvalue or a metatable, onto the stack.
Load(x, v) ==
  /\ Mutator
  /\ x \in Held
  /\ \/ kind[x] \in {"tab", "weak", "udata"} /\ v \in refs[x]
     \/ kind[x] = "func" /\ v \in RefsOf(refs[x])
  /\ Pushed(v)
  /\ UNCHANGED <<alloc, open, owner, marked, gray, grayagain, restVars>>

Pop(v) ==
  /\ Mutator
  /\ v \in refs[running]
  /\ Becomes(running, refs[running] \ {v})
  /\ UNCHANGED <<alloc, open, owner, marked, gray, grayagain, restVars>>

\* A store of v in table t, in the interpreter or by lua_rawseti.
Store(t, v) ==
  /\ Mutator
  /\ t \in Held /\ kind[t] \in {"tab", "weak"} /\ v \in Held
  /\ Cardinality(refs[t] \cup {v}) <= MaxRefs
  /\ Becomes(t, refs[t] \cup {v})
  /\ lj_gc_anybarriert(t) \/ lj_gc_barriert(t, v)
  /\ UNCHANGED <<alloc, open, owner, restVars>>

\* A store of nil: lua_rawseti has no barrier for it, the others do.
StoreNil(t, v) ==
  /\ Mutator
  /\ t \in Held /\ kind[t] \in {"tab", "weak"} /\ v \in refs[t]
  /\ Becomes(t, refs[t] \ {v})
  /\ lj_gc_anybarriert(t) \/ NoBarrier
  /\ UNCHANGED <<alloc, open, owner, restVars>>

\* Of a userdata, to a table with a __gc or to nil.
lua_setmetatable(u) ==
  /\ Mutator
  /\ u \in Held /\ kind[u] = "udata"
  /\ \/ \E mt \in Held : kind[mt] = "tab" /\ Becomes(u, {mt}) /\ lj_gc_objbarrier(u, mt)
     \/ Becomes(u, {}) /\ NoBarrier
  /\ UNCHANGED <<alloc, open, owner, restVars>>

lj_gc_barrieruv(uv, v) ==
  IF uv \notin open THEN lj_gc_objbarrier(uv, v) ELSE NoBarrier

\* BC_USETV in a function f that runs.
SetUpval(f, v) ==
  /\ Mutator
  /\ f \in Held /\ kind[f] = "func" /\ v \in Held
  /\ \E uv \in refs[f] : Becomes(uv, {v}) /\ lj_gc_barrieruv(uv, v)
  /\ UNCHANGED <<alloc, open, owner, restVars>>

\* The store is to the upvalue, and the barrier for the function.
lua_setupvalue(f, v) ==
  /\ SetUpvalue /\ Mutator
  /\ f \in Held /\ kind[f] = "func" /\ v \in Held
  /\ \E uv \in refs[f] : Becomes(uv, {v})
  /\ lj_gc_objbarrier(f, v)
  /\ UNCHANGED <<alloc, open, owner, restVars>>

\* A coroutine is resumed with a value, and stays on the stack of its caller, or
\* yields one.
Switch(th, v) ==
  /\ Mutator
  /\ v \in Held
  /\ \/ /\ running = Main /\ th \in Held /\ kind[th] = "thread"
        /\ refs' = [refs EXCEPT ![th] = @ \cup {v}, ![Main] = @ \cup {th}]
     \/ /\ running # Main /\ th = Main
        /\ Becomes(Main, refs[Main] \cup {v})
  /\ running' = th
  /\ UNCHANGED <<kind, alloc, open, owner, marked, state, step, full, white, listVars, unswept,
                 endVars>>

Program ==
  \/ \E o \in Objs : lj_mem_newgco(o) \/ lj_str_new(o) \/ lj_func_closeuv(o) \/ Pop(o)
                   \/ lua_setmetatable(o)
  \/ \E f, uv \in Objs : Shared(f, uv) \/ \E v \in Objs : lj_func_newL_gc(f, uv, v)
  \/ \E x, v \in Objs : \/ Load(x, v) \/ Store(x, v) \/ StoreNil(x, v)
                        \/ SetUpval(x, v) \/ lua_setupvalue(x, v)
  \/ \E th \in All, v \in Objs : Switch(th, v)

Next == Collector \/ lj_gc_fullgc \/ Program

Spec == Init /\ [][Next]_vars

-----------------------------------------------------------------------------
(* Properties.                                                             *)

\* No object that may still be used refers to memory that was freed, however
\* the steps of the collector and the stores of the program interleave (the
\* barriers, atomic() and gc_sweep of lj_gc.c).
NoDangling ==
  /\ running \in alloc /\ ~isdead(running)
  /\ \A o \in alloc : ~isdead(o) => refs[o] \subseteq alloc

\* "The invariant to preserve is that a black object never points to a white
\* object" (lj_obj.h), while objects are being marked; userdata that wait for
\* their finalizers are marked again at the end.
BlackNotToWhite ==
  state \in {"propagate", "atomic"} =>
    \A o \in alloc \ mmudata : marked[o] = "black" => Whites(refs[o]) = {}

\* A finalizer is called once, before its userdata is freed.  The one it never
\* runs for was found without a finalizer by an earlier collection, or when its
\* turn came (lj_gc_separateudata, gc_finalize and gc_sweep).
FinalizedOnce ==
  [][\A u \in Of("udata") :
       /\ calls'[u] <= 1
       /\ u \notin alloc' /\ HasGc(u) /\ u \notin missed => calls[u] = 1]_vars

=============================================================================
