----------------------------- MODULE LjGcProofs -----------------------------
(***************************************************************************)
(* Proof that the collector frees nothing that is in use and finalizes     *)
(* each userdata once, for every set of objects and every choice of their  *)
(* kinds, as long as lua_setupvalue is not called: the allocations of the  *)
(* program, its metatables and upvalues, and the finalizers.               *)
(***************************************************************************)
EXTENDS LjGc, TLAPS

White == {"white0", "white1"}
Colours == White \cup {"gray", "black"}

TypeInv ==
  /\ alloc \in SUBSET All /\ Main \in alloc
  /\ marked \in [All -> Colours] /\ white \in White
  /\ refs \in [All -> SUBSET Objs]
  /\ open \in SUBSET alloc /\ owner \in [All -> All]
  /\ running \in alloc
  /\ state \in {"pause", "propagate", "atomic", "sweepstring", "sweep", "finalize"}
  /\ step \in {None, "upvalues", "weak", "again", "udata"}
  /\ step # None => state = "atomic"
  /\ mmudata \in SUBSET alloc
  /\ \A o \in All \ alloc : refs[o] = {}

\* What an object of a kind refers to.
Fits(k, S) ==
  /\ k = "udata" => \A r \in S : kind[r] = "tab"
  /\ k = "func" => \A r \in S : kind[r] = "upval"
  /\ k # "func" => \A r \in S : kind[r] # "upval"
  /\ k = "str" => S = {}

KindInv ==
  /\ kind[Main] = "thread"
  /\ \A o \in alloc :
       kind[o] \in {"tab", "weak", "func", "upval", "udata", "thread", "str"}
  /\ \A o \in alloc : Fits(kind[o], refs[o])
  /\ \A uv \in open : kind[uv] = "upval" /\ owner[uv] \in alloc /\ kind[owner[uv]] = "thread"
  /\ \A u \in mmudata : kind[u] = "udata"
  /\ kind[running] = "thread"
  /\ running = Main \/ running \in refs[Main]

Alive(S) == \A r \in S : r \in alloc /\ ~isdead(r)

\* What is not dead refers to what is not dead.
LiveInv ==
  /\ ~isdead(Main)
  /\ \A o \in alloc : ~isdead(o) => Alive(refs[o])
  /\ \A uv \in open : ~isdead(owner[uv]) => Alive(refs[uv])
  /\ \A u \in mmudata : ~isdead(u) /\ marked[u] # "gray"
  /\ \A uv \in open : marked[uv] # "black"

\* Between two cycles everything is white; during the sweep, what is not is
\* still to be swept.
SweepInv ==
  /\ state \in {"pause", "finalize"} => \A o \in alloc \ mmudata : marked[o] = white
  /\ state \notin {"sweepstring", "sweep"} => \A o \in alloc : ~isdead(o)
  /\ state \in {"sweepstring", "sweep"} =>
       \A o \in alloc \ mmudata :
         \/ marked[o] = white
         \/ o \in unswept
         \/ o \in open /\ owner[o] \in unswept

Marking == state \in {"propagate", "atomic"}

Marked(S) == \A r \in S : ~iswhite(r)

\* The lists a gray object is on.
Listed(o) ==
  /\ kind[o] \in {"tab", "thread"} => o \in gray \cup grayagain
  /\ kind[o] = "func" => o \in gray
  /\ kind[o] = "weak" => o \in gray \cup weak
  /\ kind[o] = "upval" => o \in open
  /\ kind[o] # "udata"

\* The tricolour invariant.
MarkInv ==
  Marking =>
    /\ marked[Main] = "gray"
    /\ gray \in SUBSET alloc /\ grayagain \in SUBSET alloc /\ weak \in SUBSET alloc
    /\ \A o \in weak : kind[o] = "weak" /\ ~iswhite(o)
    /\ \A o \in grayagain : kind[o] \in {"tab", "weak", "thread"} /\ ~iswhite(o)
    /\ \A o \in gray : kind[o] \in {"tab", "weak", "func", "thread"} /\ ~iswhite(o)
    /\ \A o \in alloc \ mmudata : marked[o] = "black" => Marked(refs[o])
    /\ \A o \in alloc : marked[o] = "black" => kind[o] \in {"tab", "func", "upval", "udata"}
    /\ \A o \in alloc : marked[o] = "gray" => Listed(o)

\* What each part of atomic() has made sure of.
AtomicInv ==
  /\ step # None => \A uv \in open : marked[uv] = "gray" => Marked(refs[uv])
  /\ step \in {"weak", "again", "udata"} => ~iswhite(running)
  /\ step \in {"again", "udata"} =>
       \A o \in grayagain : kind[o] = "thread" /\ Marked(Stack(o))
  /\ step = "udata" => \A u \in mmudata : marked[u] = "black" /\ Marked(refs[u])

Inv == TypeInv /\ KindInv /\ LiveInv /\ SweepInv /\ MarkInv /\ AtomicInv

-----------------------------------------------------------------------------
(* Marking.                                                                *)

\* The initial state, of which only the main thread is in memory.
LEMMA InitInv == Init => Inv
  BY DEF Init, Inv, TypeInv, KindInv, LiveInv, SweepInv, MarkInv, AtomicInv, White, Colours,
         All, None, Fits, Alive, Marking, isdead, otherwhite

\* Outside the sweep nothing is dead, so every reference is to an object.
LEMMA NoDead ==
  ASSUME Inv, state \notin {"sweepstring", "sweep"}
  PROVE  \A o \in alloc : ~isdead(o) /\ refs[o] \subseteq alloc
  BY Zenon DEF Inv, LiveInv, SweepInv, Alive

\* What gc_mark reaches from S: the white objects of S, and with a userdata or
\* an upvalue what it refers to.
LEMMA ReachedFacts ==
  ASSUME Inv, state \notin {"sweepstring", "sweep"}, NEW S \in SUBSET alloc
  PROVE  /\ Whites(S) \subseteq Reached(S)
         /\ \A o \in Reached(S) : o \in alloc /\ iswhite(o)
         /\ \A o \in Reached(S) : kind[o] \in {"udata", "upval"} =>
              \A r \in refs[o] : iswhite(r) => r \in Reached(S)
<1> DEFINE a == Whites(S)
           b == a \cup Whites(RefsOf({o \in a : kind[o] = "upval"}))
           c == b \cup Whites(RefsOf({o \in b : kind[o] = "udata"}))
<1>1. Reached(S) = c
  BY Zenon DEF Reached
<1>2. \A o \in a : o \in alloc /\ iswhite(o)
  BY Zenon DEF Whites
<1>3. \A o \in b : o \in a \/ (iswhite(o) /\ \E x \in a : kind[x] = "upval" /\ o \in refs[x])
  BY Zenon DEF Whites, RefsOf
<1>4. \A o \in c : o \in b \/ (iswhite(o) /\ \E x \in b : kind[x] = "udata" /\ o \in refs[x])
  BY Zenon DEF Whites, RefsOf
<1>5. \A x \in a : \A o \in refs[x] : kind[x] = "upval" /\ iswhite(o) => o \in b
  BY Zenon DEF Whites, RefsOf
<1>6. \A x \in b : \A o \in refs[x] : kind[x] = "udata" /\ iswhite(o) => o \in c
  BY Zenon DEF Whites, RefsOf
<1> HIDE DEF a, b, c
<1>7. \A o \in b : o \in alloc /\ iswhite(o)
  BY Zenon, <1>2, <1>3, NoDead
<1>8. \A o \in c : o \in alloc /\ iswhite(o)
  BY Zenon, <1>4, <1>7, NoDead
<1>9. \A o \in alloc : Fits(kind[o], refs[o])
  BY Zenon DEF Inv, KindInv
<1>10. \A o \in b : kind[o] = "upval" => o \in a
  BY Zenon, <1>2, <1>3, <1>9 DEF Fits
<1>11. \A o \in c : kind[o] \in {"udata", "upval"} => o \in b
  BY Zenon, <1>4, <1>7, <1>9 DEF Fits
<1>12. \A o \in c : kind[o] \in {"udata", "upval"} =>
         \A r \in refs[o] : iswhite(r) => r \in c
  BY Zenon, <1>5, <1>6, <1>10, <1>11 DEF b, c
<1> QED
  BY Zenon, <1>1, <1>8, <1>12 DEF a, b, c

\* An object that gc_mark has just marked.
Fresh(o) ==
  /\ o \in alloc /\ iswhite(o)
  /\ marked'[o] = MarkColour(o)
  /\ kind[o] \in {"tab", "weak", "func", "thread"} => o \in gray'
  /\ kind[o] \in {"udata", "upval"} => \A r \in refs[o] : ~iswhite(r)'

\* What gc_mark of S does to the marks m and to the gray list g.
MarkEffect(S, m, g) ==
  /\ marked' \in [All -> Colours]
  /\ \A o \in All : ~iswhite(o) => marked'[o] = m[o] /\ ~iswhite(o)'
  /\ \A o \in S : ~iswhite(o)'
  /\ \A o \in All : marked'[o] = m[o] \/ Fresh(o)
  /\ g \subseteq gray'
  /\ \A o \in gray' : \/ o \in g
                      \/ /\ o \in alloc /\ ~iswhite(o)'
                         /\ kind[o] \in {"tab", "weak", "func", "thread"}

\* The marks that gc_mark starts from are those there are, but for some that
\* are gray or black already.
LEMMA MarkFacts ==
  ASSUME Inv, state \notin {"sweepstring", "sweep"}, NEW S \in SUBSET alloc,
         NEW m \in [All -> Colours], NEW g,
         \A o \in All : m[o] = marked[o] \/ m[o] \in {"gray", "black"},
         gc_mark(S, m, g)
  PROVE  MarkEffect(S, m, g)
<1> DEFINE R == Reached(S)
<1>1. /\ Whites(S) \subseteq R
      /\ \A o \in R : o \in alloc /\ iswhite(o)
      /\ \A o \in R : kind[o] \in {"udata", "upval"} => \A r \in refs[o] : iswhite(r) => r \in R
  BY Zenon, ReachedFacts
<1>2. /\ marked' = [o \in All |-> IF o \in R THEN MarkColour(o) ELSE m[o]]
      /\ gray' = g \cup {o \in R : kind[o] \in {"tab", "weak", "func", "thread"}}
  BY Zenon DEF gc_mark, Traversed
<1> HIDE DEF R
<1>3. alloc \subseteq All /\ marked \in [All -> Colours] /\ refs \in [All -> SUBSET Objs]
  BY Zenon DEF Inv, TypeInv
<1>4. \A o : MarkColour(o) \in {"gray", "black"}
  BY Zenon DEF MarkColour
<1>5. \A o \in All : ~iswhite(o) => o \notin R /\ marked'[o] = m[o] /\ ~iswhite(o)'
  BY Zenon, <1>1, <1>2, <1>3 DEF iswhite, Colours, White
<1>6. \A o \in R : o \in All /\ ~iswhite(o)' /\ marked'[o] = MarkColour(o)
  BY Zenon, <1>1, <1>2, <1>3, <1>4 DEF iswhite
<1>7. \A o \in S : ~iswhite(o)'
  BY Zenon, <1>1, <1>3, <1>5, <1>6 DEF Whites
<1>8. marked' \in [All -> Colours]
  BY Zenon, <1>2, <1>4 DEF Colours
<1>9. ASSUME NEW o \in All
      PROVE  marked'[o] = m[o] \/ Fresh(o)
  <2>1. CASE o \in R
    <3>1. \A r \in refs[o] : r \in All
      BY Zenon, <1>3 DEF All
    <3>2. kind[o] \in {"udata", "upval"} => \A r \in refs[o] : ~iswhite(r)'
      BY Zenon, <2>1, <3>1, <1>1, <1>5, <1>6
    <3> QED
      BY Zenon, <2>1, <3>2, <1>1, <1>2, <1>6 DEF Fresh
  <2>2. CASE o \notin R
    BY Zenon, <2>2, <1>2
  <2> QED
    BY Zenon, <2>1, <2>2
<1> QED
  BY Zenon, <1>1, <1>2, <1>5, <1>6, <1>7, <1>8, <1>9 DEF MarkEffect

\* A step that only marks leaves nothing dead.
LEMMA NoneDies ==
  ASSUME Inv, state \notin {"sweepstring", "sweep"}, UNCHANGED <<memVars, white>>,
         marked' \in [All -> Colours],
         \A o \in All : marked'[o] = marked[o] \/ ~iswhite(o)',
         mmudata' \in SUBSET alloc,
         \A u \in mmudata' : marked'[u] # "gray", \A uv \in open : marked'[uv] # "black"
  PROVE  LiveInv' /\ \A o \in alloc' : ~isdead(o)'
<1>1. alloc \subseteq All /\ Main \in alloc /\ open \subseteq alloc /\ white \in White
  BY Zenon DEF Inv, TypeInv
<1>2. \A o \in alloc : ~isdead(o) /\ refs[o] \subseteq alloc
  BY Zenon, NoDead
<1>3. \A o \in alloc : ~isdead(o)'
  BY Zenon, <1>1, <1>2 DEF isdead, iswhite, otherwhite, White
<1> QED
  BY Zenon, <1>1, <1>2, <1>3 DEF LiveInv, Alive, memVars

LEMMA StartKeepsInv == Inv /\ gc_mark_start => Inv'
<1> SUFFICES ASSUME Inv, gc_mark_start PROVE Inv'
  OBVIOUS
<1>1. TypeInv /\ KindInv /\ LiveInv /\ SweepInv
  BY Zenon DEF Inv
<1>2. /\ state = "pause" /\ state' = "propagate" /\ grayagain' = {} /\ weak' = {}
      /\ UNCHANGED <<memVars, step, full, white, unswept, endVars>>
      /\ gc_mark({Main}, marked, {})
  BY Zenon DEF gc_mark_start
<1>3. step = None /\ marked \in [All -> Colours] /\ {Main} \in SUBSET alloc
  BY Zenon, <1>1, <1>2 DEF TypeInv
<1>15. MarkEffect({Main}, marked, {})
  BY Zenon, <1>2, <1>3, MarkFacts
<1>4. /\ marked' \in [All -> Colours]
      /\ \A o \in All : ~iswhite(o) => marked'[o] = marked[o] /\ ~iswhite(o)'
      /\ ~iswhite(Main)'
      /\ \A o \in All : marked'[o] = marked[o] \/ Fresh(o)
      /\ \A o \in gray' : /\ o \in alloc /\ ~iswhite(o)'
                          /\ kind[o] \in {"tab", "weak", "func", "thread"}
  BY Zenon, <1>15 DEF MarkEffect
<1>5. \A o \in alloc \ mmudata : marked[o] = white /\ iswhite(o)
  BY Zenon, <1>1, <1>2 DEF SweepInv, TypeInv, White, iswhite
<1>6. /\ alloc \subseteq All /\ open \subseteq alloc /\ Main \in alloc \ mmudata
      /\ \A o \in mmudata : kind[o] = "udata" /\ o \in alloc /\ marked[o] # "gray"
      /\ \A uv \in open : kind[uv] = "upval"
  BY Zenon, <1>1 DEF TypeInv, KindInv, LiveInv
<1>7. \A o \in alloc : marked'[o] # marked[o] => Fresh(o)
  BY Zenon, <1>4, <1>6
<1>8. TypeInv'
  BY Zenon, <1>1, <1>2, <1>3, <1>4 DEF TypeInv, memVars, endVars
<1>9. KindInv'
  BY <1>1, <1>2 DEF KindInv, memVars, endVars, Fits
<1>10. LiveInv' /\ \A o \in alloc' : ~isdead(o)'
  <2>1. \A u \in mmudata' : marked'[u] # "gray"
    BY Zenon, <1>2, <1>6, <1>7 DEF Fresh, MarkColour, endVars
  <2>2. \A uv \in open : marked'[uv] # "black"
    BY Zenon, <1>5, <1>6, <1>7 DEF Fresh, MarkColour, iswhite
  <2>3. \A o \in All : marked'[o] = marked[o] \/ ~iswhite(o)'
    BY Zenon, <1>4 DEF Fresh, MarkColour, iswhite
  <2> QED
    BY Zenon, <1>2, <1>4, <1>6, <2>1, <2>2, <2>3, NoneDies DEF endVars
<1>11. SweepInv'
  BY Zenon, <1>2, <1>10 DEF SweepInv
<1>12. MarkInv'
  <2>1. marked'[Main] = "gray"
    BY Zenon, <1>1, <1>4, <1>5, <1>6, <1>7 DEF Fresh, MarkColour, KindInv, iswhite
  <2>2. \A o \in alloc \ mmudata : marked'[o] = "black" =>
          kind[o] \in {"udata", "upval"} /\ \A r \in refs[o] : ~iswhite(r)'
    BY Zenon, <1>5, <1>6, <1>7 DEF Fresh, MarkColour, iswhite
  <2>3. \A o \in alloc : marked'[o] = "black" => kind[o] \in {"udata", "upval"}
    BY Zenon, <1>6, <2>2
  <2>4. \A o \in alloc : marked'[o] = "gray" => Fresh(o) /\ MarkColour(o) = "gray"
    BY Zenon, <1>5, <1>6, <1>7 DEF Fresh, iswhite
  <2>5. \A o \in alloc : marked'[o] = "gray" => Listed(o)'
    BY Zenon, <1>2, <2>4 DEF Fresh, MarkColour, Listed, memVars
  <2> QED
    BY Zenon, <1>2, <1>4, <2>1, <2>2, <2>3, <2>5 DEF MarkInv, Marked, memVars, endVars
<1>13. AtomicInv'
  BY Zenon, <1>2, <1>3 DEF AtomicInv, None
<1> QED
  BY Zenon, <1>8, <1>9, <1>10, <1>11, <1>12, <1>13 DEF Inv

LEMMA PropagateKeepsInv == Inv /\ Propagate => Inv'
<1> SUFFICES ASSUME Inv, Propagate PROVE Inv'
  OBVIOUS
<1> DEFINE C(o) == IF kind[o] \in {"weak", "thread"} THEN "gray" ELSE "black"
           M(o) == [marked EXCEPT ![o] = C(o)]
<1>1. TypeInv /\ KindInv /\ LiveInv /\ MarkInv /\ AtomicInv
  BY Zenon DEF Inv
<1>2. Marking /\ state \notin {"sweepstring", "sweep"}
  BY Zenon, <1>1 DEF Propagate, Marking, TypeInv
<1>3. PICK o \in gray : /\ gc_mark(Strong(o), M(o), gray \ {o})
                        /\ KeptGray(o)
                        /\ UNCHANGED <<memVars, state, step, full, white, unswept, endVars>>
  BY Zenon DEF Propagate, propagatemark
<1> DEFINE m == M(o)
           S == Strong(o)
<1>4. /\ alloc \subseteq All /\ open \subseteq alloc /\ marked \in [All -> Colours]
      /\ o \in alloc /\ kind[o] \in {"tab", "weak", "func", "thread"} /\ ~iswhite(o)
      /\ gray \subseteq alloc /\ grayagain \subseteq alloc /\ weak \subseteq alloc
      /\ marked[Main] = "gray" /\ Main \in alloc /\ kind[Main] = "thread"
      /\ \A u \in mmudata : kind[u] = "udata" /\ u \in alloc /\ marked[u] # "gray"
      /\ \A uv \in open : kind[uv] = "upval" /\ marked[uv] # "black"
  BY <1>1, <1>2 DEF TypeInv, KindInv, LiveInv, MarkInv
<1>5. \A x \in alloc : ~isdead(x) /\ refs[x] \subseteq alloc
  BY Zenon, <1>2, NoDead
<1>6. S \in SUBSET alloc
  BY <1>4, <1>5 DEF Strong, Stack, RefsOf, OpenOf
<1>7. m \in [All -> Colours] /\ \A x \in All : m[x] = marked[x] \/ m[x] \in {"gray", "black"}
  BY Zenon, <1>4 DEF Colours
<1>8. MarkEffect(S, m, gray \ {o})
  BY Zenon, <1>2, <1>3, <1>6, <1>7, MarkFacts
<1>9. /\ marked' \in [All -> Colours]
      /\ \A x \in All : ~iswhite(x) => marked'[x] = m[x] /\ ~iswhite(x)'
      /\ \A x \in S : ~iswhite(x)'
      /\ \A x \in All : marked'[x] = m[x] \/ Fresh(x)
      /\ gray \ {o} \subseteq gray'
      /\ \A x \in gray' : \/ x \in gray \ {o}
                          \/ /\ x \in alloc /\ ~iswhite(x)'
                             /\ kind[x] \in {"tab", "weak", "func", "thread"}
  BY Zenon, <1>8 DEF MarkEffect
<1>10. marked'[o] = C(o) /\ \A x \in alloc \ {o} : marked'[x] = marked[x] \/ Fresh(x)
  BY Zenon, <1>4, <1>9
<1> HIDE DEF m, C, M
<1>11. C(o) \in {"gray", "black"} /\ (C(o) = "gray" <=> kind[o] \in {"weak", "thread"})
  BY Zenon DEF C
<1>12. \A x \in alloc : ~iswhite(x) => ~iswhite(x)'
  BY Zenon, <1>4, <1>9
<1>13. TypeInv'
  BY Zenon, <1>1, <1>3, <1>9 DEF TypeInv, memVars, endVars
<1>14. KindInv'
  BY <1>1, <1>3 DEF KindInv, memVars, endVars, Fits
<1>15. LiveInv' /\ \A x \in alloc' : ~isdead(x)'
  <2>1. \A u \in mmudata' : marked'[u] # "gray"
    BY Zenon, <1>3, <1>4, <1>10 DEF Fresh, MarkColour, endVars
  <2>2. \A uv \in open : marked'[uv] # "black"
    BY Zenon, <1>4, <1>10 DEF Fresh, MarkColour
  <2>3. \A x \in All : marked'[x] = marked[x] \/ ~iswhite(x)'
    BY <1>4, <1>9, <1>11 DEF Fresh, MarkColour, iswhite, m, M
  <2> QED
    BY Zenon, <1>2, <1>3, <1>4, <1>9, <2>1, <2>2, <2>3, NoneDies DEF endVars
<1>16. SweepInv'
  BY Zenon, <1>2, <1>3, <1>15 DEF SweepInv, Marking
<1>17. MarkInv'
  <2>1. marked'[Main] = "gray"
    BY Zenon, <1>4, <1>10, <1>11 DEF Fresh, iswhite
  <2>2. /\ grayagain' \subseteq alloc /\ weak' \subseteq alloc
        /\ \A x \in weak' : kind[x] = "weak" /\ ~iswhite(x)'
        /\ \A x \in grayagain' : kind[x] \in {"tab", "weak", "thread"} /\ ~iswhite(x)'
        /\ \A x \in gray' : /\ kind[x] \in {"tab", "weak", "func", "thread"}
                            /\ x \in alloc /\ ~iswhite(x)'
    BY <1>1, <1>2, <1>3, <1>4, <1>9, <1>12 DEF MarkInv, KeptGray
  <2>3. ASSUME NEW x \in alloc \ mmudata, marked'[x] = "black"
        PROVE  Marked(refs[x])'
    <3>1. CASE x = o
      <4>1. S = refs[o]
        BY Zenon, <3>1, <2>3, <1>4, <1>10, <1>11 DEF Strong
      <4> QED
        BY Zenon, <3>1, <4>1, <1>3, <1>9 DEF Marked, memVars
    <3>2. CASE x # o /\ marked'[x] = marked[x]
      BY Zenon, <3>2, <2>3, <1>1, <1>2, <1>3, <1>5, <1>12 DEF MarkInv, Marked, memVars
    <3>3. CASE x # o /\ Fresh(x)
      BY Zenon, <3>3, <2>3, <1>3 DEF Fresh, MarkColour, Marked, memVars
    <3> QED
      BY Zenon, <3>1, <3>2, <3>3, <1>10
  <2>4. \A x \in alloc : marked'[x] = "black" => kind[x] \in {"tab", "func", "upval", "udata"}
    BY <1>1, <1>2, <1>4, <1>10, <1>11 DEF MarkInv, Fresh, MarkColour
  <2>5. ASSUME NEW x \in alloc, marked'[x] = "gray"
        PROVE  Listed(x)'
    <3>1. CASE x = o
      BY Zenon, <3>1, <2>5, <1>3, <1>4, <1>10, <1>11 DEF Listed, KeptGray, memVars
    <3>2. CASE x # o /\ marked'[x] = marked[x]
      BY Zenon, <3>2, <2>5, <1>1, <1>2, <1>3, <1>9 DEF MarkInv, Listed, KeptGray, memVars
    <3>3. CASE x # o /\ Fresh(x)
      BY Zenon, <3>3, <2>5, <1>3 DEF Fresh, MarkColour, Listed, memVars
    <3> QED
      BY Zenon, <3>1, <3>2, <3>3, <1>10
  <2> QED
    BY Zenon, <1>3, <2>1, <2>2, <2>3, <2>4, <2>5 DEF MarkInv, memVars, endVars
<1>18. AtomicInv'
  <2>1. \A x \in alloc : Marked(refs[x]) => Marked(refs[x])'
    BY Zenon, <1>3, <1>5, <1>12 DEF Marked, memVars
  <2>2. step # None => \A uv \in open : marked'[uv] = "gray" => Marked(refs[uv])'
    <3>1. \A uv \in open : Fresh(uv) => Marked(refs[uv])'
      BY Zenon, <1>3, <1>4 DEF Fresh, Marked, memVars
    <3> QED
      BY Zenon, <3>1, <2>1, <1>1, <1>4, <1>10 DEF AtomicInv
  <2>3. step \in {"weak", "again", "udata"} => ~iswhite(running)'
    BY Zenon, <1>1, <1>3, <1>12 DEF AtomicInv, TypeInv, memVars
  <2>4. step \in {"again", "udata"} =>
          \A x \in grayagain' : kind[x] = "thread" /\ Marked(Stack(x))'
    <3>1. \A x \in alloc : Stack(x)' = Stack(x) /\ Stack(x) \subseteq alloc
      BY <1>3, <1>4, <1>5 DEF Stack, RefsOf, OpenOf, memVars
    <3>2. \A x \in alloc : Marked(Stack(x)) => Marked(Stack(x))'
      BY Zenon, <3>1, <1>12 DEF Marked
    <3>3. kind[o] = "thread" => S = Stack(o)
      BY Zenon DEF Strong
    <3>4. kind[o] = "thread" => Marked(Stack(o))'
      BY Zenon, <3>1, <3>3, <1>4, <1>9 DEF Marked
    <3>5. \A x \in grayagain' : x \in grayagain \/ (x = o /\ kind[o] = "thread")
      BY Zenon, <1>3 DEF KeptGray
    <3> HIDE DEF S
    <3> QED
      BY Zenon, <3>2, <3>4, <3>5, <1>1, <1>4 DEF AtomicInv
  <2>5. step = "udata" => \A u \in mmudata : marked'[u] = "black" /\ Marked(refs[u])'
    BY Zenon, <2>1, <1>1, <1>4, <1>10 DEF AtomicInv, Fresh, MarkColour
  <2> QED
    BY Zenon, <1>3, <2>2, <2>3, <2>4, <2>5 DEF AtomicInv, memVars, endVars
<1> QED
  BY Zenon, <1>13, <1>14, <1>15, <1>16, <1>17, <1>18 DEF Inv

\* What gc_mark of S leads to while objects are being marked, when the userdata
\* of B are black and the gray list is g.
PlainEffect(S, B, g) ==
  /\ marked' \in [All -> Colours] /\ marked'[Main] = "gray"
  /\ \A x \in S : ~iswhite(x)'
  /\ \A x \in alloc : ~iswhite(x) => ~iswhite(x)'
  /\ \A x \in All : marked'[x] = marked[x] \/ ~iswhite(x)'
  /\ \A x \in alloc : marked'[x] = "black" => kind[x] \in {"tab", "func", "upval", "udata"}
  /\ \A x \in alloc \ (mmudata \cup B) :
       marked'[x] = "black" => \A r \in refs[x] : ~iswhite(r)'
  /\ \A x \in alloc :
       marked'[x] = "gray" =>
         \/ marked[x] = "gray"
         \/ kind[x] \in {"tab", "weak", "func", "thread"} /\ x \in gray'
         \/ kind[x] = "upval" /\ x \in open
         \/ kind[x] = "str"
  /\ \A x \in gray' :
       \/ x \in g
       \/ x \in alloc /\ ~iswhite(x)' /\ kind[x] \in {"tab", "weak", "func", "thread"}
  /\ g \subseteq gray'
  /\ \A u \in mmudata : marked'[u] # "gray" /\ (marked[u] = "black" => marked'[u] = "black")
  /\ \A u \in B : marked'[u] = "black"
  /\ \A uv \in open :
       /\ marked'[uv] # "black"
       /\ marked'[uv] = "gray" =>
            marked[uv] = "gray" \/ \A r \in refs[uv] : ~iswhite(r)'

LEMMA PlainMark ==
  ASSUME Inv, Marking, NEW S \in SUBSET alloc, NEW B \in SUBSET alloc, NEW g,
         \A u \in B : kind[u] = "udata",
         NEW m \in [All -> Colours],
         \A x \in All : m[x] = IF x \in B THEN "black" ELSE marked[x],
         gc_mark(S, m, g)
  PROVE  PlainEffect(S, B, g)
<1>1. TypeInv /\ KindInv /\ LiveInv /\ MarkInv
  BY Zenon DEF Inv
<1>2. MarkEffect(S, m, g)
  BY Zenon, MarkFacts DEF Marking
<1>3. /\ marked' \in [All -> Colours]
      /\ \A x \in All : ~iswhite(x) => marked'[x] = m[x] /\ ~iswhite(x)'
      /\ \A x \in S : ~iswhite(x)'
      /\ \A x \in All : marked'[x] = m[x] \/ Fresh(x)
      /\ g \subseteq gray'
      /\ \A x \in gray' : \/ x \in g
                          \/ /\ x \in alloc /\ ~iswhite(x)'
                             /\ kind[x] \in {"tab", "weak", "func", "thread"}
  BY Zenon, <1>2 DEF MarkEffect
<1>4. /\ alloc \subseteq All /\ open \subseteq alloc /\ mmudata \subseteq alloc
      /\ Main \in alloc /\ marked[Main] = "gray" /\ kind[Main] = "thread"
      /\ \A u \in mmudata : kind[u] = "udata" /\ marked[u] # "gray"
      /\ \A uv \in open : kind[uv] = "upval" /\ marked[uv] # "black"
      /\ \A x \in alloc : kind[x] \in {"tab", "weak", "func", "upval", "udata", "thread", "str"}
  BY <1>1 DEF TypeInv, KindInv, LiveInv, MarkInv
<1>5. \A x \in alloc : refs[x] \subseteq alloc
  BY Zenon, NoDead DEF Marking
<1>6. \A x \in alloc : \/ marked'[x] = marked[x] /\ x \notin B
                       \/ x \in B /\ marked'[x] = "black"
                       \/ Fresh(x)
  BY Zenon, <1>3, <1>4
<1>7. \A x \in All : marked'[x] = marked[x] \/ ~iswhite(x)'
  BY <1>3, <1>4, <1>6 DEF Fresh, MarkColour, iswhite
<1>8. marked'[Main] = "gray"
  BY Zenon, <1>4, <1>6 DEF Fresh, iswhite
<1>9. \A x \in alloc : marked'[x] = "black" => kind[x] \in {"tab", "func", "upval", "udata"}
  BY Zenon, <1>1, <1>6 DEF MarkInv, Fresh, MarkColour
<1>10. \A x \in alloc \ (mmudata \cup B) :
         marked'[x] = "black" => \A r \in refs[x] : ~iswhite(r)'
  <2>1. \A x \in alloc \ (mmudata \cup B) :
          marked[x] = "black" => \A r \in refs[x] : ~iswhite(r) /\ r \in alloc
    BY Zenon, <1>1, <1>5 DEF MarkInv, Marked
  <2> QED
    BY <2>1, <1>3, <1>4, <1>6 DEF Fresh, MarkColour
<1>11. \A x \in alloc :
         marked'[x] = "gray" =>
         \/ marked[x] = "gray"
         \/ kind[x] \in {"tab", "weak", "func", "thread"} /\ x \in gray'
         \/ kind[x] = "upval" /\ x \in open
         \/ kind[x] = "str"
  <2> SUFFICES ASSUME NEW x \in alloc, marked'[x] = "gray", marked[x] # "gray"
               PROVE  \/ kind[x] \in {"tab", "weak", "func", "thread"} /\ x \in gray'
                      \/ kind[x] = "upval" /\ x \in open
                      \/ kind[x] = "str"
    OBVIOUS
  <2>1. Fresh(x)
    BY Zenon, <1>6
  <2> QED
    BY Zenon, <2>1, <1>4 DEF Fresh, MarkColour
<1>12. /\ \A u \in mmudata : marked'[u] # "gray" /\ (marked[u] = "black" => marked'[u] = "black")
       /\ \A u \in B : marked'[u] = "black"
  BY Zenon, <1>4, <1>6 DEF Fresh, MarkColour
<1>13. \A uv \in open :
         /\ marked'[uv] # "black"
         /\ marked'[uv] = "gray" =>
              marked[uv] = "gray" \/ \A r \in refs[uv] : ~iswhite(r)'
  BY Zenon, <1>4, <1>6 DEF Fresh, MarkColour
<1> QED
  BY Zenon, <1>3, <1>4, <1>7, <1>8, <1>9, <1>10, <1>11, <1>12, <1>13 DEF PlainEffect

\* MarkInv and the rest after a step that marks, from what gc_mark leads to.
LEMMA AtomicMarks ==
  ASSUME Inv, Marking, UNCHANGED <<memVars, state, full, white, unswept>>,
         NEW S, NEW B \in SUBSET mmudata', NEW g \in SUBSET alloc, PlainEffect(S, B, g),
         \A x \in g : kind[x] \in {"tab", "weak", "func", "thread"} /\ ~iswhite(x),
         mmudata \subseteq mmudata', mmudata' \in SUBSET alloc,
         \A u \in mmudata' : kind[u] = "udata" /\ (u \in mmudata \/ u \in B),
         \A x \in alloc : marked[x] = "gray" => Listed(x)',
         grayagain' \subseteq grayagain, weak' \subseteq weak,
         step' \in {"upvalues", "weak", "again", "udata"}, state = "atomic"
  PROVE  TypeInv' /\ KindInv' /\ LiveInv' /\ SweepInv' /\ MarkInv'
<1>1. TypeInv /\ KindInv /\ MarkInv
  BY Zenon DEF Inv
<1>2. /\ alloc \subseteq All /\ open \subseteq alloc /\ grayagain \subseteq alloc /\ weak \subseteq alloc
      /\ \A x \in weak : kind[x] = "weak" /\ ~iswhite(x)
      /\ \A x \in grayagain : kind[x] \in {"tab", "weak", "thread"} /\ ~iswhite(x)
  BY Zenon, <1>1 DEF TypeInv, MarkInv
<1>3. TypeInv'
  BY Zenon, <1>1 DEF TypeInv, PlainEffect, memVars
<1>4. KindInv'
  BY SMTT(20), <1>1 DEF KindInv, Fits, memVars
<1>5. LiveInv' /\ \A x \in alloc' : ~isdead(x)'
  <2>1. \A u \in mmudata' : marked'[u] # "gray"
    BY Zenon DEF PlainEffect
  <2>2. /\ marked' \in [All -> Colours]
        /\ \A x \in All : marked'[x] = marked[x] \/ ~iswhite(x)'
        /\ \A uv \in open : marked'[uv] # "black"
    BY Zenon DEF PlainEffect
  <2> QED
    BY Zenon, <2>1, <2>2, NoneDies DEF Marking
<1>6. SweepInv'
  BY Zenon, <1>5 DEF SweepInv, Marking
<1>7. MarkInv'
  <2>1. /\ marked'[Main] = "gray"
        /\ \A x \in alloc : marked'[x] = "black" => kind[x] \in {"tab", "func", "upval", "udata"}
        /\ \A x \in alloc \ mmudata' : marked'[x] = "black" => \A r \in refs[x] : ~iswhite(r)'
        /\ \A x \in alloc : ~iswhite(x) => ~iswhite(x)'
    BY Zenon DEF PlainEffect
  <2>2. \A x \in gray' : /\ x \in alloc /\ ~iswhite(x)'
                         /\ kind[x] \in {"tab", "weak", "func", "thread"}
    BY Zenon DEF PlainEffect
  <2>3. /\ \A x \in weak' : x \in alloc /\ kind[x] = "weak" /\ ~iswhite(x)'
        /\ \A x \in grayagain' : x \in alloc /\ kind[x] \in {"tab", "weak", "thread"} /\ ~iswhite(x)'
    BY Zenon, <1>2, <2>1
  <2>4. \A x \in alloc : marked'[x] = "gray" => Listed(x)'
    BY Zenon DEF PlainEffect, Listed, memVars
  <2> QED
    BY Zenon, <2>1, <2>2, <2>3, <2>4 DEF MarkInv, Marked, memVars
<1> QED
  BY Zenon, <1>3, <1>4, <1>5, <1>6, <1>7

LEMMA AtomicStartsKeepsInv == Inv /\ AtomicStarts => Inv'
<1> SUFFICES ASSUME Inv, AtomicStarts PROVE Inv'
  OBVIOUS
<1> DEFINE S == RefsOf(gc_mark_uv)
<1>1. /\ state = "atomic" /\ step' = "upvalues" /\ gc_mark(S, marked, gray)
      /\ UNCHANGED <<memVars, state, full, white, grayagain, weak, unswept, endVars>>
  BY Zenon DEF AtomicStarts
<1>2. TypeInv /\ KindInv /\ MarkInv /\ Marking
  BY Zenon, <1>1 DEF Inv, Marking
<1>3. /\ open \subseteq alloc /\ gray \in SUBSET alloc /\ marked \in [All -> Colours]
      /\ \A x \in gray : kind[x] \in {"tab", "weak", "func", "thread"} /\ ~iswhite(x)
      /\ mmudata \in SUBSET alloc /\ \A u \in mmudata : kind[u] = "udata"
  BY Zenon, <1>2 DEF TypeInv, KindInv, MarkInv
<1>4. \A x \in alloc : refs[x] \subseteq alloc
  BY Zenon, <1>1, NoDead
<1>5. S \in SUBSET alloc
  BY Zenon, <1>3, <1>4 DEF RefsOf, gc_mark_uv
<1>6. \A x \in All : marked[x] = IF x \in {} THEN "black" ELSE marked[x]
  OBVIOUS
<1>7. \A uv \in open : marked[uv] = "gray" => refs[uv] \subseteq S
  BY Zenon DEF RefsOf, gc_mark_uv
<1> HIDE DEF S
<1>8. PlainEffect(S, {}, gray)
  BY Zenon, <1>1, <1>2, <1>3, <1>5, <1>6, PlainMark
<1>9. \A x \in alloc : marked[x] = "gray" => Listed(x)'
  BY Zenon, <1>1, <1>2, <1>8 DEF MarkInv, Listed, PlainEffect, memVars
<1>10. TypeInv' /\ KindInv' /\ LiveInv' /\ SweepInv' /\ MarkInv'
  BY Zenon, <1>1, <1>2, <1>3, <1>8, <1>9, AtomicMarks DEF endVars
<1>11. AtomicInv'
  <2>1. \A uv \in open : marked'[uv] = "gray" => \A r \in refs[uv] : ~iswhite(r)'
    BY Zenon, <1>7, <1>8 DEF PlainEffect
  <2> QED
    BY Zenon, <1>1, <2>1 DEF AtomicInv, Marked, memVars, None
<1> QED
  BY Zenon, <1>10, <1>11 DEF Inv

LEMMA RemarkWeakKeepsInv == Inv /\ RemarkWeak => Inv'
<1> SUFFICES ASSUME Inv, RemarkWeak PROVE Inv'
  OBVIOUS
<1>1. /\ step = "upvalues" /\ gray = {} /\ step' = "weak" /\ weak' = {}
      /\ gc_mark({running}, marked, weak)
      /\ UNCHANGED <<memVars, state, full, white, grayagain, unswept, endVars>>
  BY Zenon DEF RemarkWeak
<1>2. TypeInv /\ KindInv /\ MarkInv /\ AtomicInv /\ Marking /\ state = "atomic"
  BY Zenon, <1>1 DEF Inv, Marking, TypeInv, None
<1>3. /\ open \subseteq alloc /\ weak \in SUBSET alloc /\ marked \in [All -> Colours]
      /\ \A x \in weak : kind[x] \in {"tab", "weak", "func", "thread"} /\ ~iswhite(x)
      /\ mmudata \in SUBSET alloc /\ \A u \in mmudata : kind[u] = "udata"
      /\ {running} \in SUBSET alloc
  BY Zenon, <1>2 DEF TypeInv, KindInv, MarkInv
<1>4. \A x \in alloc : refs[x] \subseteq alloc
  BY Zenon, <1>2, NoDead
<1>6. \A x \in All : marked[x] = IF x \in {} THEN "black" ELSE marked[x]
  OBVIOUS
<1>8. PlainEffect({running}, {}, weak)
  BY Zenon, <1>1, <1>2, <1>3, <1>6, PlainMark
<1>9. \A x \in alloc : marked[x] = "gray" => Listed(x)'
  BY Zenon, <1>1, <1>2, <1>8 DEF MarkInv, Listed, PlainEffect, memVars
<1>10. TypeInv' /\ KindInv' /\ LiveInv' /\ SweepInv' /\ MarkInv'
  BY Zenon, <1>1, <1>2, <1>3, <1>8, <1>9, AtomicMarks DEF endVars
<1>11. AtomicInv'
  <2>1. \A uv \in open : marked'[uv] = "gray" => \A r \in refs[uv] : ~iswhite(r)'
    BY Zenon, <1>1, <1>2, <1>3, <1>4, <1>8 DEF PlainEffect, AtomicInv, Marked, None
  <2>2. ~iswhite(running)'
    BY Zenon, <1>1, <1>8 DEF PlainEffect, memVars
  <2> QED
    BY Zenon, <1>1, <2>1, <2>2 DEF AtomicInv, Marked, memVars
<1> QED
  BY Zenon, <1>10, <1>11 DEF Inv

LEMMA SeparateKeepsInv == Inv /\ Separate => Inv'
<1> SUFFICES ASSUME Inv, Separate PROVE Inv'
  OBVIOUS
<1> DEFINE all == mmudata \cup {u \in lj_gc_separateudata : HasGc(u)}
           m == [o \in All |-> IF o \in all THEN "black" ELSE marked[o]]
           S == RefsOf(all)
<1>1. /\ step = "again" /\ gray = {} /\ step' = "udata" /\ mmudata' = all
      /\ gc_mark(S, m, gray)
      /\ UNCHANGED <<memVars, state, full, white, grayagain, weak, unswept, calls>>
  BY Zenon DEF Separate
<1>2. TypeInv /\ KindInv /\ MarkInv /\ AtomicInv /\ Marking /\ state = "atomic"
  BY Zenon, <1>1 DEF Inv, Marking, TypeInv, None
<1>3. /\ open \subseteq alloc /\ gray \in SUBSET alloc /\ marked \in [All -> Colours]
      /\ mmudata \in SUBSET alloc /\ \A u \in mmudata : kind[u] = "udata"
      /\ grayagain \in SUBSET alloc /\ running \in alloc
  BY Zenon, <1>2 DEF TypeInv, KindInv, MarkInv
<1>4. \A x \in alloc : refs[x] \subseteq alloc
  BY Zenon, <1>2, NoDead
<1>5. all \in SUBSET alloc /\ mmudata \subseteq all /\ \A u \in all : kind[u] = "udata"
  BY Zenon, <1>3 DEF lj_gc_separateudata, Of
<1> HIDE DEF all
<1>6. S \in SUBSET alloc /\ \A u \in all : refs[u] \subseteq S
  BY Zenon, <1>4, <1>5 DEF RefsOf
<1>7. m \in [All -> Colours] /\ \A x \in All : m[x] = IF x \in all THEN "black" ELSE marked[x]
  BY Zenon, <1>3 DEF Colours
<1> HIDE DEF m, S
<1>8. PlainEffect(S, all, gray)
  BY Zenon, <1>1, <1>2, <1>5, <1>6, <1>7, PlainMark
<1>9. \A x \in alloc : marked[x] = "gray" => Listed(x)'
  BY Zenon, <1>1, <1>2, <1>8 DEF MarkInv, Listed, PlainEffect, memVars
<1>10. TypeInv' /\ KindInv' /\ LiveInv' /\ SweepInv' /\ MarkInv'
  BY Zenon, <1>1, <1>2, <1>3, <1>5, <1>8, <1>9, AtomicMarks
<1>11. AtomicInv'
  <2>1. /\ \A x \in alloc : ~iswhite(x) => ~iswhite(x)'
        /\ \A u \in all : marked'[u] = "black" /\ \A r \in refs[u] : ~iswhite(r)'
    BY Zenon, <1>6, <1>8 DEF PlainEffect
  <2>2. \A uv \in open : marked'[uv] = "gray" => \A r \in refs[uv] : ~iswhite(r)'
    BY Zenon, <1>1, <1>2, <1>3, <1>4, <1>8 DEF PlainEffect, AtomicInv, Marked, None
  <2>3. ~iswhite(running)'
    BY Zenon, <1>1, <1>2, <1>3, <2>1 DEF AtomicInv, memVars
  <2>4. \A x \in grayagain : kind[x] = "thread" /\ Marked(Stack(x))'
    <3>1. \A x \in alloc : Stack(x)' = Stack(x) /\ Stack(x) \subseteq alloc
      BY <1>1, <1>3, <1>4 DEF Stack, RefsOf, OpenOf, memVars
    <3> QED
      BY Zenon, <3>1, <2>1, <1>1, <1>2, <1>3 DEF AtomicInv, Marked
  <2> QED
    BY Zenon, <1>1, <2>1, <2>2, <2>3, <2>4 DEF AtomicInv, Marked, memVars
<1> QED
  BY Zenon, <1>10, <1>11 DEF Inv

\* Steps that change the state of the collector and its lists, and no mark.
LEMMA PhaseKeepsInv ==
  Inv /\ (MarkPhaseEnds \/ RemarkGrayagain \/ StringsSwept \/ CycleEnds) => Inv'
<1> USE DEF memVars, listVars, endVars
<1>1. ASSUME Inv, MarkPhaseEnds PROVE Inv'
  <2>1. step = None
    BY Zenon, <1>1 DEF MarkPhaseEnds, Inv, TypeInv
  <2>2. TypeInv' /\ KindInv' /\ LiveInv' /\ SweepInv'
    BY <1>1 DEF MarkPhaseEnds, Inv, TypeInv, KindInv, LiveInv, SweepInv, Fits, Alive, isdead,
                otherwhite
  <2>3. MarkInv' /\ AtomicInv'
    BY <1>1, <2>1 DEF MarkPhaseEnds, Inv, MarkInv, AtomicInv, Marking, Marked, Listed, iswhite, None
  <2> QED
    BY Zenon, <2>2, <2>3 DEF Inv
<1>2. ASSUME Inv, RemarkGrayagain PROVE Inv'
  <2>1. state = "atomic" /\ Marking
    BY Zenon, <1>2 DEF RemarkGrayagain, Inv, TypeInv, None, Marking
  <2>2. TypeInv' /\ KindInv' /\ LiveInv' /\ SweepInv'
    BY SMTT(20), <1>2, <2>1 DEF RemarkGrayagain, Inv, TypeInv, KindInv, LiveInv, SweepInv, Fits, Alive, isdead,
                      otherwhite
  <2>3. MarkInv'
    <3>1. \A o \in alloc : marked[o] = "gray" => Listed(o)'
      BY Zenon, <1>2, <2>1 DEF RemarkGrayagain, Inv, MarkInv, Listed
    <3>2. \A o \in gray' : kind[o] \in {"tab", "weak", "func", "thread"} /\ ~iswhite(o)
      BY Zenon, <1>2, <2>1 DEF RemarkGrayagain, Inv, MarkInv
    <3> QED
      BY SMTT(20), <1>2, <2>1, <3>1, <3>2 DEF RemarkGrayagain, Inv, MarkInv, Marking, Marked, iswhite
  <2>4. AtomicInv'
    BY Zenon, <1>2 DEF RemarkGrayagain, Inv, AtomicInv, Marked, iswhite, None
  <2> QED
    BY Zenon, <2>2, <2>3, <2>4 DEF Inv
<1>3. ASSUME Inv, StringsSwept PROVE Inv'
  <2>1. step = None
    BY Zenon, <1>3 DEF StringsSwept, Inv, TypeInv
  <2>2. TypeInv' /\ KindInv' /\ LiveInv' /\ SweepInv'
    BY SMTT(20), <1>3 DEF StringsSwept, Inv, TypeInv, KindInv, LiveInv, SweepInv, Fits, Alive, isdead, otherwhite
  <2>3. MarkInv' /\ AtomicInv'
    BY Zenon, <1>3, <2>1 DEF StringsSwept, MarkInv, AtomicInv, Marking, None
  <2> QED
    BY Zenon, <2>2, <2>3 DEF Inv
<1>4. ASSUME Inv, CycleEnds PROVE Inv'
  <2>1. step = None
    BY Zenon, <1>4 DEF CycleEnds, Inv, TypeInv
  <2>2. TypeInv' /\ KindInv' /\ LiveInv' /\ SweepInv'
    BY <1>4 DEF CycleEnds, Inv, TypeInv, KindInv, LiveInv, SweepInv, Fits, Alive, isdead, otherwhite
  <2>3. MarkInv' /\ AtomicInv'
    BY Zenon, <1>4, <2>1 DEF CycleEnds, MarkInv, AtomicInv, Marking, None
  <2> QED
    BY Zenon, <2>2, <2>3 DEF Inv
<1> QED
  BY Zenon, <1>1, <1>2, <1>3, <1>4

\* The end of atomic(): what is still white is not referred to by what is not.
LEMMA AtomicEndsKeepsInv == Inv /\ AtomicEnds => Inv'
<1> SUFFICES ASSUME Inv, AtomicEnds PROVE Inv'
  OBVIOUS
<1>1. /\ step = "udata" /\ gray = {} /\ step' = None /\ state' = "sweepstring"
      /\ refs' = [o \in All |-> IF o \in weak THEN {v \in refs[o] : ~gc_mayclear(v)} ELSE refs[o]]
      /\ marked' = [o \in All |-> IF kind[o] = "str" /\ o \in Whites(RefsOf(weak)) THEN "gray"
                                  ELSE marked[o]]
      /\ white' = otherwhite /\ unswept' = Sweepable
      /\ UNCHANGED <<kind, alloc, open, owner, running, full, listVars, endVars>>
  BY Zenon DEF AtomicEnds
<1>2. TypeInv /\ KindInv /\ LiveInv /\ SweepInv /\ MarkInv /\ AtomicInv /\ Marking
  BY Zenon, <1>1 DEF Inv, Marking, TypeInv, None
<1>3. /\ alloc \subseteq All /\ open \subseteq alloc /\ marked \in [All -> Colours] /\ white \in White
      /\ refs \in [All -> SUBSET Objs] /\ Main \in alloc /\ mmudata \subseteq alloc
      /\ weak \subseteq alloc
  BY Zenon, <1>2 DEF TypeInv, MarkInv
<1>4. \A o \in alloc : ~isdead(o) /\ refs[o] \subseteq alloc
  BY Zenon, <1>2, NoDead DEF Marking
<1>5. white' \in White /\ otherwhite' = white
  BY Zenon, <1>1, <1>3 DEF otherwhite, White
<1>6. \A o \in alloc : isdead(o)' => marked'[o] = marked[o] /\ iswhite(o)
  BY Zenon, <1>1, <1>3, <1>5 DEF isdead, iswhite, White
<1>7. \A o \in alloc : ~isdead(o)' => ~iswhite(o) \/ kind[o] = "str"
  BY Zenon, <1>1, <1>3, <1>4, <1>5 DEF isdead, iswhite, otherwhite, White
<1>8. \A o \in alloc : refs'[o] \subseteq refs[o] /\ (kind[o] # "weak" => refs'[o] = refs[o])
  BY Zenon, <1>1, <1>2, <1>3 DEF MarkInv
<1>9. \A o \in weak : \A v \in refs'[o] : ~isdead(v)'
  <2>1. SUFFICES ASSUME NEW o \in weak, NEW v \in refs'[o] PROVE ~isdead(v)'
    OBVIOUS
  <2>2. v \in refs[o] /\ v \in alloc /\ ~gc_mayclear(v)
    BY Zenon, <1>1, <1>3, <1>4
  <2>3. CASE kind[v] = "str" /\ iswhite(v)
    <3>1. v \in Whites(RefsOf(weak))
      BY Zenon, <2>2, <2>3 DEF Whites, RefsOf
    <3> QED
      BY Zenon, <2>2, <2>3, <3>1, <1>1, <1>3, <1>5 DEF isdead, White
  <2>4. CASE ~iswhite(v)
    BY Zenon, <2>2, <2>4, <1>6
  <2> QED
    BY Zenon, <2>2, <2>3, <2>4 DEF gc_mayclear
<1>10. TypeInv'
  <2>1. marked' \in [All -> Colours]
    BY Zenon, <1>1, <1>3 DEF Colours
  <2>2. refs' \in [All -> SUBSET Objs] /\ \A o \in All \ alloc : refs'[o] = {}
    BY Zenon, <1>1, <1>2, <1>3 DEF TypeInv
  <2> QED
    BY Zenon, <2>1, <2>2, <1>1, <1>2, <1>5 DEF TypeInv, endVars
<1>11. KindInv'
  <2>1. \A o \in alloc : Fits(kind[o], refs[o]) => Fits(kind[o], refs[o])'
    BY Zenon, <1>1, <1>8 DEF Fits
  <2> QED
    BY Zenon, <2>1, <1>1, <1>2, <1>3, <1>8 DEF KindInv, endVars
<1>12. \A o \in alloc : marked[o] = "black" => Marked(refs[o])
  BY Zenon, <1>1, <1>2 DEF MarkInv, AtomicInv
<1>13. \A o \in alloc : marked[o] = "gray" =>
         \/ o \in weak
         \/ kind[o] = "thread" /\ Marked(Stack(o))
         \/ kind[o] = "upval" /\ Marked(refs[o])
         \/ kind[o] = "str"
  <2>1. \A o \in alloc : marked[o] = "gray" => Listed(o)
    BY Zenon, <1>2 DEF MarkInv
  <2>2. \A o \in grayagain : kind[o] = "thread" /\ Marked(Stack(o))
    BY Zenon, <1>1, <1>2 DEF AtomicInv
  <2>3. \A o \in open : marked[o] = "gray" => Marked(refs[o])
    BY Zenon, <1>1, <1>2 DEF AtomicInv, None
  <2>4. \A o \in alloc : kind[o] \in {"tab", "weak", "func", "upval", "udata", "thread", "str"}
    BY Zenon, <1>2 DEF KindInv
  <2> QED
    BY Zenon, <2>1, <2>2, <2>3, <2>4, <1>1 DEF Listed
<1>14. \A o : refs[o] \subseteq Stack(o)
  BY Zenon DEF Stack
<1>15. \A uv \in open : refs[uv] \subseteq Stack(owner[uv])
  BY Zenon DEF Stack, RefsOf, OpenOf
<1>16. LiveInv'
  <2>1. ~isdead(Main)'
    BY Zenon, <1>2, <1>3, <1>6 DEF MarkInv, iswhite
  <2>2. ASSUME NEW o \in alloc, ~isdead(o)'
        PROVE  Alive(refs[o])'
    <3>1. CASE kind[o] = "str"
      BY Zenon, <3>1, <1>2, <1>8 DEF KindInv, Fits, Alive
    <3>2. CASE o \in weak
      BY Zenon, <3>2, <1>1, <1>4, <1>8, <1>9 DEF Alive
    <3>3. CASE o \notin weak /\ kind[o] # "str"
      <4>1. marked[o] \in {"gray", "black"}
        BY Zenon, <3>3, <2>2, <1>3, <1>7 DEF iswhite, Colours, White
      <4>2. Marked(refs[o])
        BY Zenon, <4>1, <3>3, <1>12, <1>13, <1>14 DEF Marked
      <4> QED
        BY Zenon, <4>2, <1>1, <1>4, <1>6, <1>8 DEF Alive, Marked
    <3> QED
      BY Zenon, <3>1, <3>2, <3>3
  <2>3. ASSUME NEW uv \in open, ~isdead(owner[uv])'
        PROVE  Alive(refs[uv])'
    <3>1. kind[uv] = "upval" /\ owner[uv] \in alloc /\ kind[owner[uv]] = "thread"
      BY Zenon, <1>2 DEF KindInv
    <3>4. owner' = owner
      BY Zenon, <1>1
    <3>5. ~iswhite(owner[uv])
      BY Zenon, <3>1, <3>4, <2>3, <1>7
    <3>2. marked[owner[uv]] = "gray"
      BY Zenon, <3>1, <3>5, <1>2, <1>3 DEF iswhite, Colours, White, MarkInv
    <3>3. Marked(Stack(owner[uv]))
      BY Zenon, <3>1, <3>2, <1>2, <1>13 DEF MarkInv
    <3> QED
      BY Zenon, <3>3, <1>1, <1>3, <1>4, <1>6, <1>8, <1>15 DEF Alive, Marked
  <2>4. \A u \in mmudata : ~isdead(u)' /\ marked'[u] # "gray"
    BY Zenon, <1>1, <1>2, <1>3, <1>6 DEF AtomicInv, iswhite, KindInv
  <2>5. \A uv \in open : marked'[uv] # "black"
    BY Zenon, <1>1, <1>2, <1>3 DEF LiveInv
  <2> QED
    BY Zenon, <2>1, <2>2, <2>3, <2>4, <2>5, <1>1 DEF LiveInv, endVars
<1>17. SweepInv'
  <2>1. \A o \in open : owner[o] \in Sweepable
    BY Zenon, <1>2 DEF KindInv, Sweepable
  <2> QED
    BY Zenon, <2>1, <1>1 DEF SweepInv, Sweepable, endVars
<1>18. MarkInv' /\ AtomicInv'
  BY Zenon, <1>1 DEF MarkInv, AtomicInv, Marking, None
<1> QED
  BY Zenon, <1>10, <1>11, <1>16, <1>17, <1>18 DEF Inv

\* gc_sweep frees only what is dead.
LEMMA SweepOneKeepsInv ==
  ASSUME Inv, state \in {"sweepstring", "sweep"}, NEW o \in unswept, SweepOne(o)
  PROVE  Inv'
<1> DEFINE own == OpenOf(o) \cup {o}
           gone == {x \in own : isdead(x) /\ x # Main}
<1>1. /\ alloc' = alloc \ gone
      /\ marked' = [x \in All |-> IF x \in gone THEN "white0"
                                 ELSE IF x \in own THEN white ELSE marked[x]]
      /\ refs' = [x \in All |-> IF x \in gone THEN {} ELSE refs[x]]
      /\ open' = open \ (gone \cup (IF o \in gone THEN OpenOf(o) ELSE {}))
      /\ unswept' = unswept \ {o}
      /\ UNCHANGED <<kind, owner, running, state, step, full, white, listVars, mmudata>>
  BY Zenon DEF SweepOne, Condemned
<1>2. TypeInv /\ KindInv /\ LiveInv /\ SweepInv
  BY Zenon DEF Inv
<1>3. /\ alloc \subseteq All /\ open \subseteq alloc /\ marked \in [All -> Colours] /\ white \in White
      /\ refs \in [All -> SUBSET Objs] /\ Main \in alloc /\ mmudata \subseteq alloc
      /\ ~isdead(Main)
  BY Zenon, <1>2 DEF TypeInv, LiveInv
<1>4. /\ \A x \in gone : isdead(x) /\ x # Main /\ x \in own
      /\ \A x \in own : x \in gone \/ ~isdead(x)
      /\ \A x \in own : x = o \/ (x \in open /\ owner[x] = o)
      /\ \A x \in open : owner[x] = o => x \in own
  BY Zenon, <1>3 DEF OpenOf
<1> HIDE DEF own, gone
<1>5. \A x \in alloc' : x \in alloc /\ (x \in own => marked'[x] = white)
                      /\ (x \notin own => marked'[x] = marked[x])
                      /\ refs'[x] = refs[x]
  BY Zenon, <1>1, <1>3
<1>6. \A x \in alloc : ~isdead(x) => x \in alloc' /\ ~isdead(x)'
  BY Zenon, <1>1, <1>3, <1>4, <1>5 DEF isdead, otherwhite, White
<1>7. \A x \in alloc' : ~isdead(x)' => ~isdead(x)
  BY Zenon, <1>1, <1>4, <1>5 DEF isdead, otherwhite
<1>8. running \in alloc /\ ~isdead(running)
  BY Zenon, <1>2 DEF TypeInv, KindInv, LiveInv, Alive
<1>9. TypeInv'
  <2>1. marked' \in [All -> Colours]
    BY Zenon, <1>1, <1>3 DEF Colours, White
  <2>2. refs' \in [All -> SUBSET Objs] /\ \A x \in All \ alloc' : refs'[x] = {}
    BY Zenon, <1>1, <1>2, <1>3 DEF TypeInv
  <2>3. mmudata' \in SUBSET alloc' /\ open' \in SUBSET alloc' /\ Main \in alloc' /\ running' \in alloc'
    BY Zenon, <1>1, <1>2, <1>3, <1>6, <1>8 DEF LiveInv
  <2> QED
    BY Zenon, <2>1, <2>2, <2>3, <1>1, <1>2 DEF TypeInv
<1>10. KindInv'
  <2>1. \A x \in alloc' : Fits(kind[x], refs[x])'
    BY SMTT(20), <1>1, <1>2, <1>5 DEF KindInv, Fits
  <2>2. \A uv \in open' : owner[uv] \in alloc'
    <3>1. \A uv \in open' : uv \in open /\ owner[uv] \in alloc /\ kind[owner[uv]] = "thread"
      BY Zenon, <1>1, <1>2 DEF KindInv
    <3>2. \A x \in gone : x = o \/ kind[x] = "upval"
      BY Zenon, <1>2, <1>4 DEF KindInv
    <3> QED
      BY Zenon, <3>1, <3>2, <1>1 DEF OpenOf
  <2> QED
    BY Zenon, <2>1, <2>2, <1>1, <1>2, <1>3, <1>4 DEF KindInv
<1>11. LiveInv'
  <2>1. \A x \in alloc' : ~isdead(x)' => Alive(refs[x])'
    BY Zenon, <1>2, <1>5, <1>6, <1>7 DEF LiveInv, Alive
  <2>2. ASSUME NEW uv \in open', ~isdead(owner[uv])' PROVE Alive(refs[uv])'
    <3>1. uv \in open /\ uv \in alloc' /\ owner'[uv] = owner[uv] /\ owner[uv] \in alloc'
      BY <1>1, <1>9, <1>10 DEF TypeInv, KindInv
    <3> QED
      BY Zenon, <3>1, <2>2, <1>2, <1>5, <1>6, <1>7 DEF LiveInv, Alive
  <2>3. \A u \in mmudata : ~isdead(u)' /\ marked'[u] # "gray"
    BY Zenon, <1>2, <1>3, <1>5, <1>6 DEF LiveInv, White
  <2>4. \A uv \in open' : marked'[uv] # "black"
    BY Zenon, <1>1, <1>2, <1>3, <1>5, <1>9 DEF LiveInv, White, TypeInv
  <2> QED
    BY Zenon, <2>1, <2>2, <2>3, <2>4, <1>1, <1>3, <1>6 DEF LiveInv
<1>12. SweepInv'
  <2> SUFFICES ASSUME NEW x \in alloc' \ mmudata, marked'[x] # white, x \notin unswept'
               PROVE  x \in open' /\ owner[x] \in unswept'
    BY Zenon, <1>1 DEF SweepInv
  <2>1. x \in alloc \ mmudata /\ x \notin own /\ marked[x] # white /\ x # o /\ x \notin unswept
    BY Zenon, <1>1, <1>5 DEF own
  <2>2. x \in open /\ owner[x] \in unswept
    BY Zenon, <2>1, <1>2 DEF SweepInv
  <2> QED
    BY Zenon, <2>1, <2>2, <1>1, <1>4 DEF OpenOf
<1>13. MarkInv' /\ AtomicInv'
  BY Zenon, <1>1, <1>2 DEF MarkInv, AtomicInv, Marking, None, TypeInv
<1> QED
  BY Zenon, <1>9, <1>10, <1>11, <1>12, <1>13 DEF Inv

LEMMA SweepKeepsInv == Inv /\ (SweepString \/ Sweep) => Inv'
  BY Zenon, SweepOneKeepsInv DEF SweepString, Sweep

LEMMA SweepEndsKeepsInv == Inv /\ SweepEnds => Inv'
<1> SUFFICES ASSUME Inv, SweepEnds PROVE Inv'
  OBVIOUS
<1>1. /\ state = "sweep" /\ unswept = {} /\ state' \in {"finalize", "pause"} /\ full' = FALSE
      /\ UNCHANGED <<memVars, marked, step, white, listVars, unswept, endVars>>
  BY Zenon DEF SweepEnds
<1>2. TypeInv /\ KindInv /\ LiveInv /\ SweepInv /\ step = None
  BY Zenon, <1>1 DEF Inv, TypeInv
<1>3. \A o \in alloc \ mmudata : marked[o] = white
  BY Zenon, <1>1, <1>2 DEF SweepInv
<1>4. \A o \in alloc : ~isdead(o)
  BY Zenon, <1>2, <1>3 DEF LiveInv, isdead, otherwhite, TypeInv, White
<1>5. TypeInv' /\ KindInv' /\ LiveInv'
  BY <1>1, <1>2 DEF TypeInv, KindInv, LiveInv, Fits, Alive, isdead, otherwhite, memVars, endVars
<1>6. SweepInv'
  BY Zenon, <1>1, <1>3, <1>4 DEF SweepInv, isdead, otherwhite, memVars, endVars
<1>7. MarkInv' /\ AtomicInv'
  BY Zenon, <1>1, <1>2 DEF MarkInv, AtomicInv, Marking, None
<1> QED
  BY Zenon, <1>5, <1>6, <1>7 DEF Inv

LEMMA FullKeepsInv == Inv /\ lj_gc_fullgc => Inv'
<1> SUFFICES ASSUME Inv, lj_gc_fullgc PROVE Inv'
  OBVIOUS
<1>1. UNCHANGED <<memVars, marked, step, white, endVars>> /\ step = None
  BY Zenon DEF lj_gc_fullgc, Mutator
<1>2. TypeInv /\ KindInv /\ LiveInv /\ SweepInv
  BY Zenon DEF Inv
<1>3. TypeInv'
  BY Zenon, <1>1, <1>2 DEF lj_gc_fullgc, Mutator, TypeInv, memVars, endVars
<1>4. KindInv' /\ LiveInv'
  BY <1>1, <1>2 DEF KindInv, LiveInv, Fits, Alive, isdead, otherwhite, memVars, endVars
<1>5. SweepInv'
  <2>1. \A o \in open : owner[o] \in Sweepable
    BY Zenon, <1>2 DEF KindInv, Sweepable
  <2> QED
    BY Zenon, <1>1, <1>2, <2>1 DEF lj_gc_fullgc, SweepInv, Sweepable, isdead, otherwhite, memVars, endVars
<1>6. MarkInv' /\ AtomicInv'
  BY Zenon, <1>1 DEF lj_gc_fullgc, MarkInv, AtomicInv, Marking, None
<1> QED
  BY Zenon, <1>3, <1>4, <1>5, <1>6 DEF Inv

-----------------------------------------------------------------------------
(* The program.                                                            *)

\* What the program holds is alive, and no upvalue.
LEMMA HeldFacts ==
  ASSUME Inv
  PROVE  /\ running \in alloc /\ ~isdead(running) /\ kind[running] = "thread"
         /\ \A v \in Held : v \in alloc /\ v \in Objs /\ ~isdead(v) /\ kind[v] # "upval"
<1>1. TypeInv /\ KindInv /\ LiveInv
  BY Zenon DEF Inv
<1>2. running \in alloc /\ ~isdead(running) /\ kind[running] = "thread"
  BY Zenon, <1>1 DEF TypeInv, KindInv, LiveInv, Alive
<1>3. \A v \in Held : \/ v \in refs[running]
                      \/ \E uv \in open : owner[uv] = running /\ v \in refs[uv]
  BY Zenon DEF Held, Stack, RefsOf, OpenOf
<1>4. \A v \in refs[running] : v \in alloc /\ v \in Objs /\ ~isdead(v) /\ kind[v] # "upval"
  BY Zenon, <1>1, <1>2 DEF TypeInv, KindInv, LiveInv, Alive, Fits
<1>5. \A uv \in open : owner[uv] = running =>
         \A v \in refs[uv] : v \in alloc /\ v \in Objs /\ ~isdead(v) /\ kind[v] # "upval"
  BY <1>1, <1>2 DEF TypeInv, KindInv, LiveInv, Alive, Fits
<1> QED
  BY Zenon, <1>2, <1>3, <1>4, <1>5

\* References that fit the kinds, are to what is alive, and, from what is black
\* when it is marked, to what is marked.
GoodRefs(R) ==
  /\ R \in [All -> SUBSET Objs]
  /\ \A x \in All \ alloc : R[x] = {}
  /\ \A x \in alloc : Fits(kind[x], R[x])
  /\ \A x \in alloc : ~isdead(x) => Alive(R[x])
  /\ \A uv \in open : ~isdead(owner[uv]) => Alive(R[uv])
  /\ Marking => \A x \in alloc \ mmudata : marked[x] = "black" => Marked(R[x])

\* A step that changes nothing but such references, and the running thread.
LEMMA GoodRefsKeepInv ==
  ASSUME Inv, step = None,
         UNCHANGED <<kind, alloc, marked, open, owner, state, step, white, listVars, unswept, mmudata>>,
         GoodRefs(refs'), running' \in alloc, kind[running'] = "thread",
         running' = Main \/ running' \in refs'[Main]
  PROVE  Inv'
<1>1. TypeInv /\ KindInv /\ LiveInv /\ SweepInv /\ MarkInv
  BY Zenon DEF Inv
<1>2. TypeInv'
  BY Zenon, <1>1 DEF TypeInv, GoodRefs
<1>3. KindInv'
  BY SMTT(20), <1>1 DEF KindInv, GoodRefs, Fits
<1>4. LiveInv'
  BY Zenon, <1>1 DEF LiveInv, GoodRefs, Alive, isdead, otherwhite
<1>5. SweepInv'
  BY Zenon, <1>1 DEF SweepInv, isdead, otherwhite
<1>6. MarkInv'
  BY SMTT(20), <1>1 DEF MarkInv, GoodRefs, Marking, Marked, Listed, iswhite, listVars
<1>7. AtomicInv'
  BY Zenon DEF AtomicInv, None
<1> QED
  BY Zenon, <1>2, <1>3, <1>4, <1>5, <1>6, <1>7 DEF Inv

\* References that are good, with one object's changed.
LEMMA OneChanged ==
  ASSUME Inv, NEW o \in alloc, NEW S \in SUBSET Objs, Fits(kind[o], S), Alive(S),
         Marking /\ marked[o] = "black" /\ o \notin mmudata => Marked(S)
  PROVE  GoodRefs([refs EXCEPT ![o] = S])
<1>1. TypeInv /\ KindInv /\ LiveInv /\ MarkInv
  BY Zenon DEF Inv
<1> DEFINE R == [refs EXCEPT ![o] = S]
<1>2. o \in All /\ alloc \subseteq All /\ open \subseteq alloc /\ refs \in [All -> SUBSET Objs]
  BY Zenon, <1>1 DEF TypeInv
<1>3. R \in [All -> SUBSET Objs] /\ R[o] = S /\ \A x \in All \ {o} : R[x] = refs[x]
  BY Zenon, <1>2
<1> HIDE DEF R
<1>4. \A x \in alloc : Fits(kind[x], R[x])
  BY Zenon, <1>1, <1>2, <1>3 DEF KindInv
<1>5. /\ \A x \in alloc : ~isdead(x) => Alive(R[x])
      /\ \A uv \in open : ~isdead(owner[uv]) => Alive(R[uv])
  BY Zenon, <1>1, <1>2, <1>3 DEF LiveInv
<1>6. Marking => \A x \in alloc \ mmudata : marked[x] = "black" => Marked(R[x])
  BY Zenon, <1>1, <1>2, <1>3 DEF MarkInv
<1>7. \A x \in All \ alloc : R[x] = {}
  BY Zenon, <1>1, <1>2, <1>3 DEF TypeInv
<1>8. GoodRefs(R)
  BY Zenon, <1>3, <1>4, <1>5, <1>6, <1>7 DEF GoodRefs
<1> QED
  BY Zenon, <1>8 DEF R

\* A value that is read, or dropped.
LEMMA LoadKeepsInv ==
  ASSUME Inv, NEW x \in Objs, NEW v \in Objs, Load(x, v) \/ Pop(v)
  PROVE  Inv'
<1>1. TypeInv /\ KindInv /\ LiveInv /\ MarkInv
  BY Zenon DEF Inv
<1>2. /\ running \in alloc /\ ~isdead(running) /\ kind[running] = "thread"
      /\ \A w \in Held : w \in alloc /\ w \in Objs /\ ~isdead(w) /\ kind[w] # "upval"
  BY Zenon, HeldFacts
<1>3. /\ alloc \subseteq All /\ refs \in [All -> SUBSET Objs]
      /\ \A o \in alloc : Fits(kind[o], refs[o])
      /\ \A o \in alloc : ~isdead(o) => Alive(refs[o])
      /\ running = Main \/ running \in refs[Main]
  BY Zenon, <1>1 DEF TypeInv, KindInv, LiveInv
<1>4. step = None /\ running' = running
      /\ UNCHANGED <<kind, alloc, marked, open, owner, state, step, white, listVars, unswept, mmudata>>
  BY Zenon DEF Load, Pop, Mutator, restVars, listVars, endVars
<1>5. CASE Load(x, v)
  <2>1. v \in alloc /\ ~isdead(v) /\ kind[v] # "upval"
    <3>1. x \in alloc /\ ~isdead(x) /\ \A w \in refs[x] : w \in alloc /\ ~isdead(w)
      BY Zenon, <1>2, <1>3, <1>5 DEF Load, Alive
    <3>2. CASE kind[x] \in {"tab", "weak", "udata"} /\ v \in refs[x]
      BY Zenon, <3>1, <3>2, <1>3 DEF Fits
    <3>3. CASE kind[x] = "func" /\ v \in RefsOf(refs[x])
      <4>1. PICK uv \in refs[x] : v \in refs[uv]
        BY Zenon, <3>3 DEF RefsOf
      <4>2. uv \in alloc /\ ~isdead(uv) /\ kind[uv] = "upval"
        BY Zenon, <3>1, <3>3, <4>1, <1>3 DEF Fits
      <4> QED
        BY Zenon, <4>1, <4>2, <1>3 DEF Alive, Fits
    <3> QED
      BY Zenon, <3>2, <3>3, <1>5 DEF Load
  <2> DEFINE S == refs[running] \cup {v}
  <2>2. refs' = [refs EXCEPT ![running] = S]
    BY Zenon, <1>5 DEF Load, Pushed, Becomes
  <2>3. S \in SUBSET Objs /\ Fits(kind[running], S) /\ Alive(S)
    BY <2>1, <1>2, <1>3 DEF Fits, Alive
  <2>4. ~(Marking /\ marked[running] = "black")
    BY Zenon, <1>1, <1>2 DEF MarkInv
  <2>5. running' = Main \/ running' \in refs'[Main]
    BY Zenon, <2>2, <1>1, <1>2, <1>3, <1>4 DEF TypeInv
  <2> HIDE DEF S
  <2>6. GoodRefs(refs')
    BY Zenon, <2>2, <2>3, <2>4, <1>2, OneChanged
  <2> QED
    BY Zenon, <2>5, <2>6, <1>2, <1>4, GoodRefsKeepInv
<1>6. CASE Pop(v)
  <2> DEFINE S == refs[running] \ {v}
  <2>1. refs' = [refs EXCEPT ![running] = S]
    BY Zenon, <1>6 DEF Pop, Becomes
  <2>3. S \in SUBSET Objs /\ Fits(kind[running], S) /\ Alive(S)
    BY Zenon, <1>2, <1>3 DEF Fits, Alive
  <2>4. ~(Marking /\ marked[running] = "black")
    BY Zenon, <1>1, <1>2 DEF MarkInv
  <2>5. running' = Main \/ running' \in refs'[Main]
    BY Zenon, <2>1, <1>1, <1>2, <1>3, <1>4 DEF TypeInv, KindInv
  <2> HIDE DEF S
  <2>6. GoodRefs(refs')
    BY Zenon, <2>1, <2>3, <2>4, <1>2, OneChanged
  <2> QED
    BY Zenon, <2>5, <2>6, <1>2, <1>4, GoodRefsKeepInv
<1> QED
  BY Zenon, <1>5, <1>6

LEMMA SwitchKeepsInv ==
  ASSUME Inv, NEW th \in All, NEW v \in Objs, Switch(th, v)
  PROVE  Inv'
<1>1. TypeInv /\ KindInv /\ LiveInv /\ MarkInv
  BY Zenon DEF Inv
<1>2. /\ running \in alloc /\ ~isdead(running) /\ kind[running] = "thread"
      /\ \A w \in Held : w \in alloc /\ w \in Objs /\ ~isdead(w) /\ kind[w] # "upval"
  BY Zenon, HeldFacts
<1>3. /\ alloc \subseteq All /\ refs \in [All -> SUBSET Objs] /\ open \subseteq alloc
      /\ \A o \in All \ alloc : refs[o] = {}
      /\ \A o \in alloc : Fits(kind[o], refs[o])
      /\ \A o \in alloc : ~isdead(o) => Alive(refs[o])
      /\ \A uv \in open : ~isdead(owner[uv]) => Alive(refs[uv])
      /\ \A uv \in open : kind[uv] = "upval"
      /\ Main \in alloc /\ ~isdead(Main) /\ kind[Main] = "thread"
  BY Zenon, <1>1 DEF TypeInv, KindInv, LiveInv
<1>4. /\ step = None /\ running' = th /\ v \in Held
      /\ UNCHANGED <<kind, alloc, marked, open, owner, state, step, white, listVars, unswept, mmudata>>
  BY Zenon DEF Switch, Mutator, endVars
<1>5. CASE running = Main /\ th \in Held /\ kind[th] = "thread"
  <2>1. th \in alloc /\ th \in Objs /\ v \in alloc /\ ~isdead(th) /\ ~isdead(v) /\ kind[v] # "upval"
    BY Zenon, <1>2, <1>4, <1>5
  <2>2. CASE refs' = [refs EXCEPT ![th] = @ \cup {v}, ![Main] = @ \cup {th}]
    <3>1. /\ refs' \in [All -> SUBSET Objs]
          /\ \A x \in alloc : \/ refs'[x] = refs[x]
                              \/ kind[x] = "thread" /\ \A r \in refs'[x] : r \in refs[x] \cup {v, th}
      BY Zenon, <2>1, <2>2, <1>3, <1>5
    <3>2. \A x \in All \ alloc : refs'[x] = {}
      BY Zenon, <2>1, <2>2, <1>3
    <3>3. \A x \in alloc : Fits(kind[x], refs'[x])
      BY <3>1, <2>1, <1>3, <1>5 DEF Fits
    <3>4. /\ \A x \in alloc : ~isdead(x) => Alive(refs'[x])
          /\ \A uv \in open : ~isdead(owner[uv]) => Alive(refs'[uv])
      BY Zenon, <3>1, <2>1, <1>3 DEF Alive
    <3>5. Marking => \A x \in alloc \ mmudata : marked[x] = "black" => Marked(refs'[x])
      BY Zenon, <3>1, <1>1 DEF MarkInv, Marked
    <3>6. th \in refs'[Main]
      BY Zenon, <2>2, <1>3
    <3>7. GoodRefs(refs')
      BY Zenon, <3>1, <3>2, <3>3, <3>4, <3>5 DEF GoodRefs
    <3> QED
      BY Zenon, <3>6, <3>7, <2>1, <1>4, <1>5, GoodRefsKeepInv
  <2>3. CASE th = Main /\ running # Main
    BY Zenon, <2>3, <1>5
  <2> QED
    BY Zenon, <2>2, <2>3 DEF Switch
<1>6. CASE running # Main /\ th = Main
  <2> DEFINE S == refs[Main] \cup {v}
  <2>1. v \in alloc /\ ~isdead(v) /\ kind[v] # "upval"
    BY Zenon, <1>2, <1>4
  <2>2. refs' = [refs EXCEPT ![Main] = S]
    BY Zenon, <1>6 DEF Switch, Becomes
  <2>3. S \in SUBSET Objs /\ Fits(kind[Main], S) /\ Alive(S)
    BY Zenon, <2>1, <1>3 DEF Fits, Alive
  <2>4. ~(Marking /\ marked[Main] = "black")
    BY Zenon, <1>1, <1>3 DEF MarkInv
  <2> HIDE DEF S
  <2>5. GoodRefs(refs')
    BY Zenon, <2>2, <2>3, <2>4, <1>3, OneChanged
  <2> QED
    BY Zenon, <2>5, <1>3, <1>4, <1>6, GoodRefsKeepInv
<1> QED
  BY Zenon, <1>5, <1>6 DEF Switch

\* lj_gc_barrierback: a black table becomes gray again when it is stored to.
LEMMA BackKeepsInv ==
  ASSUME Inv, step = None, NEW t \in alloc, NEW S \in SUBSET Objs,
         kind[t] \in {"tab", "weak"}, marked[t] = "black", Fits(kind[t], S), Alive(S),
         refs' = [refs EXCEPT ![t] = S], lj_gc_barrierback(t),
         UNCHANGED <<kind, alloc, open, owner, running, state, step, white, weak, unswept, mmudata>>
  PROVE  Inv'
<1>1. TypeInv /\ KindInv /\ LiveInv /\ SweepInv /\ MarkInv
  BY Zenon DEF Inv
<1>2. /\ alloc \subseteq All /\ open \subseteq alloc /\ refs \in [All -> SUBSET Objs]
      /\ marked \in [All -> Colours] /\ white \in White /\ Main \in alloc
      /\ t # Main /\ t \notin mmudata /\ t \notin open
  BY Zenon, <1>1 DEF TypeInv, KindInv
<1>3. /\ marked' = [marked EXCEPT ![t] = "gray"]
      /\ grayagain' = grayagain \cup {t} /\ gray' = gray
  BY Zenon DEF lj_gc_barrierback
<1>4. /\ marked' \in [All -> Colours] /\ marked'[t] = "gray"
      /\ \A x \in All \ {t} : marked'[x] = marked[x]
      /\ refs' \in [All -> SUBSET Objs] /\ refs'[t] = S
      /\ \A x \in All \ {t} : refs'[x] = refs[x]
  BY Zenon, <1>2, <1>3 DEF Colours
<1>5. /\ \A x \in All : isdead(x)' <=> isdead(x)
      /\ \A x \in All : iswhite(x)' <=> iswhite(x)
  BY Zenon, <1>2, <1>4 DEF isdead, iswhite, otherwhite
<1>6. TypeInv'
  BY Zenon, <1>1, <1>2, <1>4 DEF TypeInv
<1>7. KindInv'
  <2>1. \A x \in alloc : Fits(kind[x], refs[x])'
    BY SMTT(20), <1>1, <1>2, <1>4 DEF KindInv, Fits
  <2> QED
    BY Zenon, <2>1, <1>1, <1>2, <1>4 DEF KindInv
<1>8. LiveInv'
  <2>1. \A x \in alloc : ~isdead(x) => \A r \in refs'[x] : r \in alloc /\ ~isdead(r)
    BY Zenon, <1>1, <1>2, <1>4 DEF LiveInv, Alive
  <2>2. \A uv \in open : ~isdead(owner[uv]) => \A r \in refs'[uv] : r \in alloc /\ ~isdead(r)
    BY Zenon, <1>1, <1>2, <1>4 DEF LiveInv, Alive
  <2>3. \A uv \in open : owner[uv] \in All
    BY Zenon, <1>1 DEF TypeInv
  <2> QED
    BY SMTT(20), <2>1, <2>2, <2>3, <1>1, <1>2, <1>4, <1>5 DEF LiveInv, Alive, TypeInv
<1>9. SweepInv'
  BY Zenon, <1>1, <1>2, <1>4, <1>5 DEF SweepInv, White
<1>10. MarkInv'
  <2> SUFFICES ASSUME Marking PROVE MarkInv'
    BY Zenon DEF MarkInv, Marking
  <2>1. \A x \in alloc \ mmudata : marked'[x] = "black" => \A r \in refs'[x] : ~iswhite(r)'
    <3>1. \A x \in alloc : refs[x] \subseteq alloc
      BY Zenon, NoDead DEF Marking
    <3> QED
      BY <3>1, <1>1, <1>2, <1>4, <1>5 DEF MarkInv, Marked
  <2>3. kind[t] = "tab"
    BY Zenon, <1>1 DEF MarkInv
  <2>2. \A x \in alloc : marked'[x] = "gray" => Listed(x)'
    BY Zenon, <2>3, <1>1, <1>2, <1>3, <1>4 DEF MarkInv, Listed
  <2>4. /\ \A x \in gray \cup grayagain \cup weak : x \in All
        /\ \A x \in gray \cup grayagain \cup weak : ~iswhite(x)
        /\ ~iswhite(t)
    BY Zenon, <1>1, <1>2 DEF MarkInv, iswhite
  <2>5. /\ \A x \in grayagain' : kind[x] \in {"tab", "weak", "thread"} /\ ~iswhite(x)'
        /\ \A x \in gray' : kind[x] \in {"tab", "weak", "func", "thread"} /\ ~iswhite(x)'
        /\ \A x \in weak' : kind[x] = "weak" /\ ~iswhite(x)'
        /\ grayagain' \in SUBSET alloc
    BY Zenon, <2>3, <2>4, <1>1, <1>2, <1>3, <1>5 DEF MarkInv
  <2>6. marked'[Main] = "gray"
    BY Zenon, <1>1, <1>2, <1>4 DEF MarkInv
  <2>7. \A x \in alloc : marked'[x] = "black" => kind[x] \in {"tab", "func", "upval", "udata"}
    BY <1>1, <1>2, <1>4 DEF MarkInv
  <2> QED
    BY <2>1, <2>2, <2>5, <2>6, <2>7, <1>1, <1>3 DEF MarkInv, Marked
<1>11. AtomicInv'
  BY Zenon DEF AtomicInv, None
<1> QED
  BY Zenon, <1>6, <1>7, <1>8, <1>9, <1>10, <1>11 DEF Inv

LEMMA StoreKeepsInv ==
  ASSUME Inv, NEW t \in Objs, NEW v \in Objs, Store(t, v)
  PROVE  Inv'
<1>1. TypeInv /\ KindInv /\ LiveInv /\ MarkInv
  BY Zenon DEF Inv
<1>2. /\ running \in alloc /\ kind[running] = "thread"
      /\ \A w \in Held : w \in alloc /\ w \in Objs /\ ~isdead(w) /\ kind[w] # "upval"
  BY Zenon, HeldFacts
<1> DEFINE S == refs[t] \cup {v}
<1>3. /\ step = None /\ t \in alloc /\ v \in alloc /\ ~isdead(t) /\ ~isdead(v) /\ kind[v] # "upval"
      /\ kind[t] \in {"tab", "weak"} /\ refs' = [refs EXCEPT ![t] = S]
      /\ lj_gc_anybarriert(t) \/ lj_gc_barriert(t, v)
      /\ UNCHANGED <<kind, alloc, open, owner, running, state, step, white, weak, unswept, mmudata>>
  BY Zenon, <1>2 DEF Store, Mutator, Becomes, restVars, endVars
<1>4. /\ S \in SUBSET Objs /\ Fits(kind[t], S) /\ Alive(S)
      /\ running = Main \/ running \in refs'[Main]
  BY <1>1, <1>3 DEF TypeInv, KindInv, LiveInv, Alive, Fits
<1>5. CASE marked[t] = "black" /\ lj_gc_barrierback(t)
  <2> HIDE DEF S
  <2> QED
    BY Zenon, <1>3, <1>4, <1>5, BackKeepsInv
<1>6. CASE (marked[t] # "black" \/ ~iswhite(v)) /\ NoBarrier
  <2>1. Marking /\ marked[t] = "black" /\ t \notin mmudata => Marked(S)
    BY Zenon, <1>1, <1>3, <1>6 DEF MarkInv, Marked
  <2> HIDE DEF S
  <2>2. GoodRefs(refs')
    BY Zenon, <2>1, <1>3, <1>4, OneChanged
  <2> QED
    BY Zenon, <2>2, <1>2, <1>3, <1>4, <1>6, GoodRefsKeepInv DEF NoBarrier, listVars
<1> QED
  BY Zenon, <1>3, <1>5, <1>6 DEF lj_gc_anybarriert, lj_gc_barriert

LEMMA StoreNilKeepsInv ==
  ASSUME Inv, NEW t \in Objs, NEW v \in Objs, StoreNil(t, v)
  PROVE  Inv'
<1>1. TypeInv /\ KindInv /\ LiveInv /\ MarkInv
  BY Zenon DEF Inv
<1>2. /\ running \in alloc /\ kind[running] = "thread"
      /\ \A w \in Held : w \in alloc /\ w \in Objs /\ ~isdead(w) /\ kind[w] # "upval"
  BY Zenon, HeldFacts
<1> DEFINE S == refs[t] \ {v}
<1>3. /\ step = None /\ t \in alloc /\ ~isdead(t)
      /\ kind[t] \in {"tab", "weak"} /\ refs' = [refs EXCEPT ![t] = S]
      /\ lj_gc_anybarriert(t) \/ NoBarrier
      /\ UNCHANGED <<kind, alloc, open, owner, running, state, step, white, weak, unswept, mmudata>>
  BY Zenon, <1>2 DEF StoreNil, Mutator, Becomes, restVars, endVars
<1>4. /\ S \in SUBSET Objs /\ Fits(kind[t], S) /\ Alive(S)
      /\ running = Main \/ running \in refs'[Main]
  BY Zenon, <1>1, <1>3 DEF TypeInv, KindInv, LiveInv, Alive, Fits
<1>5. CASE marked[t] = "black" /\ lj_gc_barrierback(t)
  <2> HIDE DEF S
  <2> QED
    BY Zenon, <1>3, <1>4, <1>5, BackKeepsInv
<1>6. CASE NoBarrier
  <2>1. Marking /\ marked[t] = "black" /\ t \notin mmudata => Marked(S)
    BY Zenon, <1>1, <1>3, <1>6 DEF MarkInv, Marked
  <2> HIDE DEF S
  <2>2. GoodRefs(refs')
    BY Zenon, <2>1, <1>3, <1>4, OneChanged
  <2> QED
    BY Zenon, <2>2, <1>2, <1>3, <1>4, <1>6, GoodRefsKeepInv DEF NoBarrier, listVars
<1> QED
  BY Zenon, <1>3, <1>5, <1>6 DEF lj_gc_anybarriert

\* lj_gc_barrierf: a black userdata or upvalue is stored to.
LEMMA ForwardKeepsInv ==
  ASSUME Inv, step = None, NEW o \in alloc, NEW v \in alloc, v \in Objs,
         kind[o] \in {"udata", "upval"}, o \notin open, marked[o] = "black",
         ~isdead(v), Fits(kind[o], {v}), lj_gc_barrierf(o, v),
         refs' = [refs EXCEPT ![o] = {v}],
         UNCHANGED <<kind, alloc, open, owner, running, state, step, white, weak, unswept, mmudata>>
  PROVE  Inv'
<1>1. TypeInv /\ KindInv /\ LiveInv /\ SweepInv /\ MarkInv
  BY Zenon DEF Inv
<1>2. /\ alloc \subseteq All /\ open \subseteq alloc /\ mmudata \subseteq alloc
      /\ refs \in [All -> SUBSET Objs]
      /\ marked \in [All -> Colours] /\ white \in White /\ Main \in alloc
      /\ o # Main /\ owner \in [All -> All]
  BY Zenon, <1>1 DEF TypeInv, KindInv
<1>3. /\ refs' \in [All -> SUBSET Objs] /\ refs'[o] = {v}
      /\ \A x \in All \ {o} : refs'[x] = refs[x]
  BY Zenon, <1>2
<1>4. KindInv'
  <2>1. \A x \in alloc : Fits(kind[x], refs[x])'
    BY <1>1, <1>2, <1>3 DEF KindInv, Fits
  <2> QED
    BY Zenon, <2>1, <1>1, <1>2, <1>3 DEF KindInv
<1>5. /\ \A x \in alloc : ~isdead(x) => \A r \in refs'[x] : r \in alloc /\ ~isdead(r)
      /\ \A uv \in open : ~isdead(owner[uv]) => \A r \in refs'[uv] : r \in alloc /\ ~isdead(r)
  BY <1>1, <1>2, <1>3 DEF LiveInv, Alive
<1>6. CASE Marking
  <2>1. gc_mark({v}, marked, gray) /\ grayagain' = grayagain
    BY Zenon, <1>6 DEF lj_gc_barrierf, Marking
  <2>2. {v} \in SUBSET alloc /\ \A x \in All : marked[x] = IF x \in {} THEN "black" ELSE marked[x]
    OBVIOUS
  <2>3. PlainEffect({v}, {}, gray)
    BY Zenon, <2>1, <2>2, <1>2, <1>6, PlainMark
  <2>4. /\ marked' \in [All -> Colours] /\ marked'[Main] = "gray"
        /\ ~iswhite(v)' /\ \A x \in alloc : ~iswhite(x) => ~iswhite(x)'
        /\ \A x \in All : marked'[x] = marked[x] \/ ~iswhite(x)'
    BY Zenon, <2>3 DEF PlainEffect
  <2>5. /\ \A x \in alloc : marked'[x] = "black" => kind[x] \in {"tab", "func", "upval", "udata"}
        /\ \A x \in alloc \ mmudata : marked'[x] = "black" => \A r \in refs[x] : ~iswhite(r)'
    BY Zenon, <2>3 DEF PlainEffect
  <2>6. /\ \A u \in mmudata : marked'[u] # "gray"
        /\ \A uv \in open : marked'[uv] # "black"
    BY Zenon, <2>3 DEF PlainEffect
  <2>7. \A x \in gray' :
          \/ x \in gray
          \/ x \in alloc /\ ~iswhite(x)' /\ kind[x] \in {"tab", "weak", "func", "thread"}
    BY Zenon, <2>3 DEF PlainEffect
  <2>8. \A x \in alloc : ~isdead(x) /\ ~isdead(x)'
    BY Zenon, <2>4, <1>2, <1>6, NoDead DEF Marking, isdead, iswhite, otherwhite, White
  <2>9. TypeInv'
    BY Zenon, <2>4, <1>1, <1>3 DEF TypeInv
  <2>10. LiveInv'
    BY Zenon, <2>6, <2>8, <1>1, <1>2, <1>5 DEF LiveInv, Alive, KindInv
  <2>11. SweepInv'
    BY Zenon, <2>8, <1>6 DEF SweepInv, Marking
  <2>12. MarkInv'
    <3>1. \A x \in alloc : marked'[x] = "gray" => Listed(x)'
      BY Zenon, <2>1, <2>3, <1>1, <1>6 DEF MarkInv, Listed, PlainEffect
    <3>2. \A x \in alloc \ mmudata : marked'[x] = "black" => \A r \in refs'[x] : ~iswhite(r)'
      BY Zenon, <2>4, <2>5, <1>2, <1>3
    <3>3. \A x \in gray' : x \in alloc /\ ~iswhite(x)' /\ kind[x] \in {"tab", "weak", "func", "thread"}
      BY Zenon, <2>4, <2>7, <1>1, <1>6 DEF MarkInv
    <3> QED
      BY Zenon, <2>1, <2>4, <2>5, <3>1, <3>2, <3>3, <1>1, <1>6 DEF MarkInv, Marked
  <2>13. AtomicInv'
    BY Zenon DEF AtomicInv, None
  <2> QED
    BY Zenon, <2>9, <2>10, <2>11, <2>12, <2>13, <1>4 DEF Inv
<1>7. CASE ~Marking
  <2>1. marked' = [marked EXCEPT ![o] = white] /\ gray' = gray /\ grayagain' = grayagain
    BY Zenon, <1>7 DEF lj_gc_barrierf, Marking
  <2>2. /\ marked' \in [All -> Colours] /\ marked'[o] = white
        /\ \A x \in All \ {o} : marked'[x] = marked[x]
    BY Zenon, <2>1, <1>2 DEF Colours
  <2>3. \A x \in All : isdead(x)' <=> isdead(x)
    BY Zenon, <2>2, <1>2 DEF isdead, otherwhite, White
  <2>4. TypeInv'
    BY <2>2, <1>1, <1>3 DEF TypeInv
  <2>5. LiveInv'
    BY <2>2, <2>3, <1>1, <1>2, <1>5 DEF LiveInv, Alive, White
  <2>6. SweepInv'
    BY Zenon, <2>2, <2>3, <1>1, <1>2 DEF SweepInv
  <2>7. MarkInv' /\ AtomicInv'
    BY Zenon, <1>7 DEF MarkInv, Marking, AtomicInv, None
  <2> QED
    BY Zenon, <2>4, <2>5, <2>6, <2>7, <1>4 DEF Inv
<1> QED
  BY Zenon, <1>6, <1>7

-----------------------------------------------------------------------------
(* The steps of the program.                                               *)

LEMMA SetMetatableKeepsInv ==
  ASSUME Inv, NEW u \in Objs, lua_setmetatable(u)
  PROVE  Inv'
<1>1. TypeInv /\ KindInv /\ MarkInv
  BY Zenon DEF Inv
<1>2. /\ running \in alloc /\ kind[running] = "thread"
      /\ \A w \in Held : w \in alloc /\ w \in Objs /\ ~isdead(w) /\ kind[w] # "upval"
  BY Zenon, HeldFacts
<1>3. /\ step = None /\ u \in alloc /\ kind[u] = "udata" /\ u \notin open /\ u # Main
      /\ UNCHANGED <<kind, alloc, open, owner, running, state, step, white, weak, unswept, mmudata>>
  BY Zenon, <1>1, <1>2 DEF lua_setmetatable, Mutator, restVars, endVars, KindInv
<1>4. \A S : refs' = [refs EXCEPT ![u] = S] => running = Main \/ running \in refs'[Main]
  BY Zenon, <1>1, <1>3 DEF TypeInv, KindInv
<1>5. CASE \E mt \in Held : kind[mt] = "tab" /\ Becomes(u, {mt}) /\ lj_gc_objbarrier(u, mt)
  <2>1. PICK mt \in Held : kind[mt] = "tab" /\ Becomes(u, {mt}) /\ lj_gc_objbarrier(u, mt)
    BY Zenon, <1>5
  <2>2. /\ mt \in alloc /\ mt \in Objs /\ ~isdead(mt) /\ refs' = [refs EXCEPT ![u] = {mt}]
        /\ Fits(kind[u], {mt})
    BY Zenon, <2>1, <1>2, <1>3 DEF Becomes, Fits
  <2>3. CASE marked[u] = "black" /\ lj_gc_barrierf(u, mt)
    BY Zenon, <2>2, <2>3, <1>3, ForwardKeepsInv
  <2>4. CASE ~(iswhite(mt) /\ marked[u] = "black") /\ NoBarrier
    <3>1. {mt} \in SUBSET Objs /\ Alive({mt}) /\ (marked[u] = "black" => Marked({mt}))
      BY Zenon, <2>2, <2>4 DEF Alive, Marked
    <3>2. GoodRefs(refs')
      BY Zenon, <3>1, <2>2, <1>3, OneChanged
    <3> QED
      BY Zenon, <3>2, <2>2, <2>4, <1>2, <1>3, <1>4, GoodRefsKeepInv DEF NoBarrier, listVars
  <2> QED
    BY Zenon, <2>1, <2>3, <2>4 DEF lj_gc_objbarrier
<1>6. CASE Becomes(u, {}) /\ NoBarrier
  <2>1. {} \in SUBSET Objs /\ Alive({}) /\ Marked({}) /\ Fits(kind[u], {})
    BY Zenon DEF Alive, Marked, Fits
  <2>2. refs' = [refs EXCEPT ![u] = {}]
    BY Zenon, <1>6 DEF Becomes
  <2>3. GoodRefs(refs')
    BY Zenon, <2>1, <2>2, <1>3, OneChanged
  <2> QED
    BY Zenon, <2>2, <2>3, <1>2, <1>3, <1>4, <1>6, GoodRefsKeepInv DEF NoBarrier, listVars
<1> QED
  BY Zenon, <1>5, <1>6 DEF lua_setmetatable

LEMMA SetUpvalKeepsInv ==
  ASSUME Inv, NEW f \in Objs, NEW v \in Objs, SetUpval(f, v)
  PROVE  Inv'
<1>1. TypeInv /\ KindInv /\ LiveInv /\ MarkInv
  BY Zenon DEF Inv
<1>2. /\ running \in alloc /\ kind[running] = "thread"
      /\ \A w \in Held : w \in alloc /\ w \in Objs /\ ~isdead(w) /\ kind[w] # "upval"
  BY Zenon, HeldFacts
<1>3. /\ step = None /\ f \in alloc /\ ~isdead(f) /\ kind[f] = "func"
      /\ v \in alloc /\ ~isdead(v) /\ kind[v] # "upval"
      /\ UNCHANGED <<kind, alloc, open, owner, running, state, step, white, weak, unswept, mmudata>>
  BY Zenon, <1>2 DEF SetUpval, Mutator, restVars, endVars
<1>4. PICK uv \in refs[f] : Becomes(uv, {v}) /\ lj_gc_barrieruv(uv, v)
  BY Zenon DEF SetUpval
<1>5. /\ uv \in alloc /\ ~isdead(uv) /\ kind[uv] = "upval" /\ uv # Main
      /\ refs' = [refs EXCEPT ![uv] = {v}] /\ Fits(kind[uv], {v})
  BY Zenon, <1>1, <1>3, <1>4 DEF KindInv, LiveInv, Alive, Fits, Becomes
<1>6. running = Main \/ running \in refs'[Main]
  BY Zenon, <1>1, <1>5 DEF TypeInv, KindInv
<1>7. CASE uv \notin open /\ marked[uv] = "black" /\ lj_gc_barrierf(uv, v)
  BY Zenon, <1>3, <1>5, <1>7, ForwardKeepsInv
<1>8. CASE (marked[uv] = "black" => ~iswhite(v)) /\ NoBarrier
  <2>1. {v} \in SUBSET Objs /\ Alive({v}) /\ (marked[uv] = "black" => Marked({v}))
    BY Zenon, <1>3, <1>8 DEF Alive, Marked
  <2>2. GoodRefs(refs')
    BY Zenon, <2>1, <1>5, OneChanged
  <2> QED
    BY Zenon, <2>2, <1>2, <1>3, <1>6, <1>8, GoodRefsKeepInv DEF NoBarrier, listVars
<1>9. uv \in open => marked[uv] # "black"
  BY Zenon, <1>1 DEF LiveInv
<1> QED
  BY Zenon, <1>4, <1>7, <1>8, <1>9 DEF lj_gc_barrieruv, lj_gc_objbarrier

\* A finalizer gets its userdata.
LEMMA FinalizeKeepsInv ==
  ASSUME Inv, NEW u \in Objs, gc_finalize(u)
  PROVE  Inv'
<1>1. TypeInv /\ KindInv /\ LiveInv /\ SweepInv
  BY Zenon DEF Inv
<1>2. running \in alloc /\ kind[running] = "thread"
  BY Zenon, <1>1 DEF TypeInv, KindInv
<1>3. /\ state = "finalize" /\ u \in mmudata /\ mmudata' = mmudata \ {u}
      /\ marked' = [marked EXCEPT ![u] = white]
      /\ refs' = refs \/ refs' = [refs EXCEPT ![running] = @ \cup {u}]
      /\ UNCHANGED <<kind, alloc, open, owner, running, state, step, white>>
  BY Zenon DEF gc_finalize
<1>4. /\ step = None /\ alloc \subseteq All /\ open \subseteq alloc /\ mmudata \subseteq alloc
      /\ marked \in [All -> Colours] /\ white \in White /\ refs \in [All -> SUBSET Objs]
      /\ kind[u] = "udata" /\ u \in alloc /\ u \notin open /\ owner \in [All -> All]
      /\ \A uv \in open : kind[uv] = "upval"
  BY Zenon, <1>1, <1>3 DEF TypeInv, KindInv
<1>5. \A x \in alloc : ~isdead(x) /\ refs[x] \subseteq alloc
  BY Zenon, <1>3, NoDead
<1>6. /\ marked' \in [All -> Colours] /\ marked'[u] = white
      /\ \A x \in All \ {u} : marked'[x] = marked[x]
  BY <1>3, <1>4 DEF Colours
<1>7. /\ refs' \in [All -> SUBSET Objs] /\ \A x \in All \ {running} : refs'[x] = refs[x]
      /\ refs'[running] \subseteq refs[running] \cup {u} /\ refs[running] \subseteq refs'[running]
  BY <1>2, <1>3, <1>4
<1>8. \A x \in alloc : ~isdead(x)' /\ refs'[x] \subseteq alloc
  BY <1>2, <1>3, <1>4, <1>5, <1>6, <1>7 DEF isdead, otherwhite, White
<1>9. TypeInv'
  BY <1>1, <1>2, <1>3, <1>6, <1>7 DEF TypeInv
<1>10. KindInv'
  <2>1. \A x \in alloc : Fits(kind[x], refs[x])'
    BY <1>1, <1>2, <1>3, <1>4, <1>7 DEF KindInv, Fits
  <2>2. running' = Main \/ running' \in refs'[Main]
    BY Zenon, <1>1, <1>3, <1>7 DEF KindInv, TypeInv
  <2> QED
    BY Zenon, <2>1, <2>2, <1>1, <1>3 DEF KindInv
<1>11. LiveInv'
  <2>1. /\ \A x \in mmudata' : marked'[x] # "gray"
        /\ \A uv \in open : marked'[uv] # "black"
    BY Zenon, <1>1, <1>3, <1>4, <1>6 DEF LiveInv
  <2> QED
    BY Zenon, <2>1, <1>1, <1>3, <1>4, <1>8 DEF LiveInv, Alive, TypeInv
<1>12. SweepInv'
  BY Zenon, <1>1, <1>3, <1>4, <1>6, <1>8 DEF SweepInv
<1>13. MarkInv' /\ AtomicInv'
  BY Zenon, <1>3, <1>4 DEF MarkInv, AtomicInv, Marking, None
<1> QED
  BY Zenon, <1>9, <1>10, <1>11, <1>12, <1>13 DEF Inv

\* What is alive once the objects of W are white.
AliveWith(W, S) == \A r \in S : r \in W \/ (r \in alloc /\ ~isdead(r))

\* A step that makes the objects of W, or resurrects them, and has the running
\* thread refer to some.
LEMMA NewKeepsInv ==
  ASSUME Inv, step = None, NEW W \in SUBSET All,
         alloc' = alloc \cup W,
         marked' = [x \in All |-> IF x \in W THEN white ELSE marked[x]],
         \A x \in W : kind[x] \in {"tab", "weak", "func", "upval", "udata", "thread", "str"},
         \A x \in W : x \in alloc => isdead(x) /\ kind[x] \in {"str", "upval"},
         refs' \in [All -> SUBSET Objs], \A x \in All \ alloc' : refs'[x] = {},
         \A x \in alloc' : Fits(kind[x], refs'[x]),
         \A x \in W \cup {running} : AliveWith(W, refs'[x]),
         \A x \in alloc \ {running} : refs'[x] = refs[x],
         running = Main \/ running \in refs'[Main],
         open \subseteq open', owner' \in [All -> All],
         \A uv \in open : owner'[uv] = owner[uv],
         \A uv \in open' \ open : uv \in W /\ kind[uv] = "upval" /\ owner'[uv] = running,
         UNCHANGED <<kind, running, state, step, white, listVars, unswept, mmudata>>
  PROVE  Inv'
<1>1. TypeInv /\ KindInv /\ LiveInv /\ SweepInv /\ MarkInv
  BY Zenon DEF Inv
<1>2. /\ alloc \subseteq All /\ open \subseteq alloc /\ mmudata \subseteq alloc
      /\ refs \in [All -> SUBSET Objs] /\ marked \in [All -> Colours] /\ white \in White
      /\ running \in alloc /\ ~isdead(running) /\ kind[running] = "thread" /\ Main \in alloc
  BY Zenon, <1>1, HeldFacts DEF TypeInv
<1>3. /\ marked' \in [All -> Colours] /\ \A x \in W : marked'[x] = white
      /\ \A x \in All \ W : marked'[x] = marked[x]
  BY Zenon, <1>2 DEF Colours
<1>4. /\ \A x \in W : ~isdead(x)'
      /\ \A x \in All \ W : isdead(x)' <=> isdead(x)
      /\ \A x \in All \ W : iswhite(x)' <=> iswhite(x)
  BY Zenon, <1>2, <1>3 DEF isdead, iswhite, otherwhite, White
<1>5. TypeInv'
  BY Zenon, <1>1, <1>2, <1>3 DEF TypeInv
<1>6. KindInv'
  <2>1. \A x \in alloc' : Fits(kind[x], refs[x])'
    BY DEF Fits
  <2> QED
    BY <2>1, <1>1, <1>2 DEF KindInv
<1>7. LiveInv'
  <2>1. \A S : AliveWith(W, S) => \A r \in S : r \in alloc' /\ ~isdead(r)'
    BY Zenon, <1>2, <1>4 DEF AliveWith
  <2>2. \A x \in alloc' : ~isdead(x)' => \A r \in refs'[x] : r \in alloc' /\ ~isdead(r)'
    <3>1. ASSUME NEW x \in alloc \ (W \cup {running}), ~isdead(x)' PROVE AliveWith(W, refs'[x])
      BY Zenon, <3>1, <1>1, <1>2, <1>4 DEF LiveInv, Alive, AliveWith
    <3> QED
      BY Zenon, <3>1, <2>1
  <2>3. \A uv \in open' : ~isdead(owner[uv])' => \A r \in refs'[uv] : r \in alloc' /\ ~isdead(r)'
    <3>1. ASSUME NEW uv \in open, uv \notin W, ~isdead(owner[uv])' PROVE AliveWith(W, refs'[uv])
      <4>1. owner'[uv] = owner[uv] /\ owner[uv] \in alloc /\ owner[uv] \notin W
        BY Zenon, <1>1 DEF KindInv
      <4>2. ~isdead(owner[uv])
        BY Zenon, <4>1, <3>1, <1>2, <1>4
      <4>3. uv \in alloc \ {running}
        BY Zenon, <1>1, <1>2 DEF KindInv
      <4> QED
        BY Zenon, <4>2, <4>3, <1>1 DEF LiveInv, Alive, AliveWith
    <3> QED
      BY Zenon, <3>1, <2>1
  <2> QED
    BY Zenon, <2>2, <2>3, <1>1, <1>2, <1>3, <1>4 DEF LiveInv, Alive, White
<1>8. SweepInv'
  BY Zenon, <1>1, <1>2, <1>3, <1>4 DEF SweepInv
<1>9. MarkInv'
  <2> SUFFICES ASSUME Marking PROVE MarkInv'
    BY Zenon DEF MarkInv, Marking
  <2>1. \A x \in alloc : x \notin W /\ refs[x] \subseteq alloc
    BY Zenon, NoDead DEF Marking
  <2>2. \A x \in alloc' : marked'[x] \in {"gray", "black"} => x \in alloc /\ marked[x] = marked'[x]
    BY Zenon, <1>2, <1>3 DEF White
  <2>3. \A x \in alloc' \ mmudata : marked'[x] = "black" => \A r \in refs'[x] : ~iswhite(r)'
    BY Zenon, <2>1, <2>2, <1>1, <1>2, <1>4 DEF MarkInv, Marked
  <2>4. ASSUME NEW x \in alloc', marked'[x] = "gray"
        PROVE  Listed(x)'
    <3>1. Listed(x)
      BY Zenon, <2>2, <2>4, <1>1 DEF MarkInv
    <3>2. kind' = kind /\ gray' = gray /\ grayagain' = grayagain /\ weak' = weak
      BY Zenon DEF listVars
    <3> QED
      BY Zenon, <3>1, <3>2 DEF Listed
  <2>5. \A x \in gray \cup grayagain \cup weak : x \in alloc /\ ~iswhite(x)'
    BY Zenon, <2>1, <1>1, <1>2, <1>4 DEF MarkInv
  <2>6. marked'[Main] = "gray"
    BY Zenon, <2>1, <1>1, <1>2, <1>3 DEF MarkInv
  <2>7. \A x \in alloc' : marked'[x] = "black" => kind[x] \in {"tab", "func", "upval", "udata"}
    BY Zenon, <2>2, <1>1 DEF MarkInv
  <2>8. /\ \A o \in weak : kind[o] = "weak"
        /\ \A o \in grayagain : kind[o] \in {"tab", "weak", "thread"}
        /\ \A o \in gray : kind[o] \in {"tab", "weak", "func", "thread"}
    BY Zenon, <1>1 DEF MarkInv
  <2> QED
    BY <2>3, <2>4, <2>5, <2>6, <2>7, <2>8 DEF MarkInv, Marked, listVars
<1>10. AtomicInv'
  BY Zenon DEF AtomicInv, None
<1> QED
  BY Zenon, <1>5, <1>6, <1>7, <1>8, <1>9, <1>10 DEF Inv

\* A new or a resurrected object on the stack of the running thread.
LEMMA PushedKeepsInv ==
  ASSUME Inv, step = None, NEW o \in Objs, NEW W \in SUBSET {o},
         o \in W \/ (o \in alloc /\ ~isdead(o)),
         kind[o] \in {"tab", "weak", "udata", "thread", "str"},
         o \in alloc /\ o \in W => isdead(o) /\ kind[o] = "str",
         alloc' = alloc \cup W,
         marked' = [x \in All |-> IF x \in W THEN white ELSE marked[x]],
         Pushed(o),
         UNCHANGED <<kind, open, owner, running, state, step, white, listVars, unswept, mmudata>>
  PROVE  Inv'
<1>1. TypeInv /\ KindInv /\ LiveInv
  BY Zenon DEF Inv
<1>2. /\ alloc \subseteq All /\ refs \in [All -> SUBSET Objs] /\ Main \in alloc
      /\ \A x \in All \ alloc : refs[x] = {}
      /\ running \in alloc /\ ~isdead(running) /\ kind[running] = "thread"
      /\ owner \in [All -> All] /\ W \in SUBSET All /\ o \in All
  BY Zenon, <1>1, HeldFacts DEF TypeInv, All
<1>3. /\ refs' \in [All -> SUBSET Objs] /\ refs'[running] = refs[running] \cup {o}
      /\ \A x \in All \ {running} : refs'[x] = refs[x]
  BY Zenon, <1>2 DEF Pushed, Becomes
<1>4. \A x \in All \ alloc' : refs'[x] = {}
  BY Zenon, <1>2, <1>3
<1>5. \A x \in alloc' : Fits(kind[x], refs'[x])
  <2>1. \A x \in alloc : Fits(kind[x], refs[x])
    BY Zenon, <1>1 DEF KindInv
  <2>2. \A x \in alloc' \ alloc : refs'[x] = {}
    BY Zenon, <1>2, <1>3
  <2> QED
    BY <2>1, <2>2, <1>2, <1>3 DEF Fits
<1>6. \A x \in W \cup {running} : AliveWith(W, refs'[x])
  <2>1. \A r \in refs[running] : r \in alloc /\ ~isdead(r)
    BY Zenon, <1>1, <1>2 DEF LiveInv, Alive
  <2>2. AliveWith(W, refs'[running])
    BY Zenon, <2>1, <1>3 DEF AliveWith
  <2>3. \A x \in W : x # running => refs'[x] = {}
    <3>1. o \in alloc /\ o \in W => refs[o] = {}
      BY Zenon, <1>1 DEF KindInv, Fits
    <3> QED
      BY Zenon, <3>1, <1>2, <1>3
  <2> QED
    BY Zenon, <2>2, <2>3 DEF AliveWith
<1>7. running = Main \/ running \in refs'[Main]
  BY Zenon, <1>1, <1>2, <1>3 DEF KindInv
<1>8. /\ \A x \in W : kind[x] \in {"tab", "weak", "func", "upval", "udata", "thread", "str"}
      /\ \A x \in W : x \in alloc => isdead(x) /\ kind[x] \in {"str", "upval"}
      /\ \A x \in alloc \ {running} : refs'[x] = refs[x]
      /\ open \subseteq open' /\ owner' \in [All -> All]
      /\ \A uv \in open : owner'[uv] = owner[uv]
      /\ \A uv \in open' \ open : uv \in W /\ kind[uv] = "upval" /\ owner'[uv] = running
  BY Zenon, <1>2, <1>3
<1> QED
  BY Zenon, <1>2, <1>3, <1>4, <1>5, <1>6, <1>7, <1>8, NewKeepsInv

LEMMA NewObjectKeepsInv ==
  ASSUME Inv, NEW o \in Objs, lj_mem_newgco(o) \/ lj_str_new(o)
  PROVE  Inv'
<1>1. /\ step = None /\ Pushed(o)
      /\ UNCHANGED <<kind, open, owner, running, state, step, white, listVars, unswept, mmudata>>
  BY Zenon DEF lj_mem_newgco, lj_str_new, Mutator, restVars, listVars, endVars
<1>2. marked \in [All -> Colours] /\ o \in All
  BY Zenon DEF Inv, TypeInv, All
<1>3. CASE o \notin alloc
  <2>1. /\ kind[o] \in {"tab", "weak", "udata", "thread", "str"}
        /\ alloc' = alloc \cup {o} /\ marked' = [marked EXCEPT ![o] = white]
    BY Zenon, <1>3 DEF lj_mem_newgco, lj_str_new
  <2>2. marked' = [x \in All |-> IF x \in {o} THEN white ELSE marked[x]]
    BY Zenon, <2>1, <1>2
  <2> QED
    BY Zenon, <2>1, <2>2, <1>1, <1>3, PushedKeepsInv
<1>4. CASE o \in alloc /\ isdead(o)
  <2>1. /\ kind[o] = "str" /\ alloc' = alloc \cup {o} /\ marked' = [marked EXCEPT ![o] = white]
    BY Zenon, <1>4 DEF lj_mem_newgco, lj_str_new, Resurrected
  <2>2. marked' = [x \in All |-> IF x \in {o} THEN white ELSE marked[x]]
    BY Zenon, <2>1, <1>2
  <2> QED
    BY Zenon, <2>1, <2>2, <1>1, <1>4, PushedKeepsInv
<1>5. CASE o \in alloc /\ ~isdead(o)
  <2> DEFINE W == {}
  <2>1. /\ kind[o] = "str" /\ alloc' = alloc \cup W /\ marked' = [marked EXCEPT ![o] = marked[o]]
    BY Zenon, <1>5 DEF lj_mem_newgco, lj_str_new, Resurrected
  <2>2. W \in SUBSET {o} /\ o \notin W
        /\ marked' = [x \in All |-> IF x \in W THEN white ELSE marked[x]]
    BY Zenon, <2>1, <1>2
  <2> HIDE DEF W
  <2> QED
    BY Zenon, <2>1, <2>2, <1>1, <1>5, PushedKeepsInv
<1> QED
  BY Zenon, <1>3, <1>4, <1>5

\* A closure with a new upvalue.
LEMMA NewClosureKeepsInv ==
  ASSUME Inv, NEW f \in Objs, NEW uv \in Objs, NEW v \in Objs, lj_func_newL_gc(f, uv, v)
  PROVE  Inv'
<1>1. TypeInv /\ KindInv /\ LiveInv
  BY Zenon DEF Inv
<1> DEFINE W == {f, uv}
<1>2. /\ alloc \subseteq All /\ refs \in [All -> SUBSET Objs] /\ Main \in alloc
      /\ \A x \in All \ alloc : refs[x] = {}
      /\ marked \in [All -> Colours]
      /\ running \in alloc /\ ~isdead(running) /\ kind[running] = "thread"
      /\ owner \in [All -> All] /\ open \subseteq alloc /\ W \in SUBSET All
  BY Zenon, <1>1, HeldFacts DEF TypeInv, All
<1>3. /\ step = None /\ f \notin alloc /\ uv \notin alloc /\ kind[f] = "func" /\ kind[uv] = "upval"
      /\ v \in refs[running] /\ alloc' = alloc \cup W
      /\ marked' = [marked EXCEPT ![f] = white, ![uv] = white]
      /\ open' = open \cup {uv} /\ owner' = [owner EXCEPT ![uv] = running]
      /\ refs' = [refs EXCEPT ![f] = {uv}, ![uv] = {v}, ![running] = (@ \ {v}) \cup {f}]
      /\ UNCHANGED <<kind, running, state, step, white, listVars, unswept, mmudata>>
  BY Zenon DEF lj_func_newL_gc, Mutator, restVars, listVars, endVars
<1>4. marked' = [x \in All |-> IF x \in W THEN white ELSE marked[x]]
  BY Zenon, <1>2, <1>3
<1>5. /\ refs' \in [All -> SUBSET Objs] /\ refs'[running] = (refs[running] \ {v}) \cup {f}
      /\ refs'[f] = {uv} /\ refs'[uv] = {v}
      /\ \A x \in All \ {running, f, uv} : refs'[x] = refs[x]
  BY Zenon, <1>2, <1>3
<1>6. \A x \in All \ alloc' : refs'[x] = {}
  BY Zenon, <1>2, <1>3, <1>5
<1>7. \A r \in refs[running] : r \in alloc /\ ~isdead(r) /\ kind[r] # "upval"
  BY Zenon, <1>1, <1>2 DEF LiveInv, Alive, KindInv, Fits
<1>8. \A x \in alloc' : Fits(kind[x], refs'[x])
  <2>1. \A x \in alloc : Fits(kind[x], refs[x])
    BY Zenon, <1>1 DEF KindInv
  <2> QED
    BY <2>1, <1>2, <1>3, <1>5, <1>7 DEF Fits
<1>9. \A x \in W \cup {running} : AliveWith(W, refs'[x])
  BY Zenon, <1>3, <1>5, <1>7 DEF AliveWith
<1>10. running = Main \/ running \in refs'[Main]
  BY Zenon, <1>1, <1>2, <1>3, <1>5 DEF KindInv
<1>11. /\ \A x \in W : kind[x] \in {"tab", "weak", "func", "upval", "udata", "thread", "str"}
       /\ \A x \in W : x \in alloc => isdead(x) /\ kind[x] \in {"str", "upval"}
       /\ \A x \in alloc \ {running} : refs'[x] = refs[x]
       /\ open \subseteq open' /\ owner' \in [All -> All]
       /\ \A w \in open : owner'[w] = owner[w]
       /\ \A w \in open' \ open : w \in W /\ kind[w] = "upval" /\ owner'[w] = running
  BY <1>2, <1>3, <1>5
<1> HIDE DEF W
<1> QED
  BY Zenon, <1>2, <1>3, <1>4, <1>5, <1>6, <1>8, <1>9, <1>10, <1>11, NewKeepsInv

\* A closure that shares an upvalue, which may be found dead.
LEMMA SharedKeepsInv ==
  ASSUME Inv, NEW f \in Objs, NEW uv \in Objs, Shared(f, uv)
  PROVE  Inv'
<1>1. TypeInv /\ KindInv /\ LiveInv
  BY Zenon DEF Inv
<1> DEFINE W == {x \in {f, uv} : x = f \/ isdead(x)}
<1>2. /\ alloc \subseteq All /\ refs \in [All -> SUBSET Objs] /\ Main \in alloc
      /\ \A x \in All \ alloc : refs[x] = {}
      /\ marked \in [All -> Colours]
      /\ running \in alloc /\ ~isdead(running) /\ kind[running] = "thread"
      /\ owner \in [All -> All] /\ open \subseteq alloc /\ W \in SUBSET All
  BY Zenon, <1>1, HeldFacts DEF TypeInv, All
<1>3. /\ step = None /\ f \notin alloc /\ kind[f] = "func" /\ alloc' = alloc \cup {f}
      /\ refs' = [refs EXCEPT ![f] = {uv}, ![running] = @ \cup {f}]
      /\ UNCHANGED <<kind, open, owner, running, state, step, white, listVars, unswept, mmudata>>
  BY Zenon DEF Shared, Mutator, restVars, listVars, endVars
<1>4. /\ uv \in alloc /\ kind[uv] = "upval"
      /\ marked' = [x \in All |-> IF x \in W THEN white ELSE marked[x]]
      /\ isdead(uv) => uv \in OpenOf(running)
  <2>1. CASE uv \in OpenOf(running) /\ marked' = [Resurrected(uv) EXCEPT ![f] = white]
    <3>1. uv \in alloc /\ kind[uv] = "upval" /\ uv # f
      BY Zenon, <2>1, <1>1, <1>2, <1>3 DEF OpenOf, KindInv
    <3>2. marked' = [[marked EXCEPT ![uv] = IF isdead(uv) THEN white ELSE marked[uv]]
                       EXCEPT ![f] = white]
      BY Zenon, <2>1 DEF Resurrected
    <3>3. marked' = [x \in All |-> IF x \in W THEN white ELSE marked[x]]
      <4>1. f \in All /\ uv \in All /\ marked' = [x \in All |-> marked'[x]]
        BY Zenon, <3>1, <3>2, <1>2 DEF All
      <4>2. \A x \in All : marked'[x] = IF x \in W THEN white ELSE marked[x]
        BY <4>1, <3>1, <3>2, <1>2
      <4> QED
        BY Zenon, <4>1, <4>2
    <3> QED
      BY Zenon, <2>1, <3>1, <3>3
  <2>2. CASE (\E g \in Held : kind[g] = "func" /\ uv \in refs[g])
             /\ marked' = [marked EXCEPT ![f] = white]
    <3>1. uv \in alloc /\ kind[uv] = "upval" /\ uv # f /\ ~isdead(uv)
      BY Zenon, <2>2, <1>1, <1>3, HeldFacts DEF LiveInv, KindInv, Alive, Fits
    <3>2. marked' = [x \in All |-> IF x \in W THEN white ELSE marked[x]]
      <4>1. f \in All /\ marked' = [x \in All |-> marked'[x]]
        BY Zenon, <2>2, <1>2 DEF All
      <4>2. \A x \in All : marked'[x] = IF x \in W THEN white ELSE marked[x]
        BY <4>1, <3>1, <2>2, <1>2
      <4> QED
        BY Zenon, <4>1, <4>2
    <3> QED
      BY Zenon, <3>1, <3>2
  <2> QED
    BY Zenon, <2>1, <2>2 DEF Shared
<1>5. /\ refs' \in [All -> SUBSET Objs] /\ refs'[running] = refs[running] \cup {f}
      /\ refs'[f] = {uv} /\ \A x \in All \ {running, f} : refs'[x] = refs[x]
  BY Zenon, <1>2, <1>3
<1>6. alloc' = alloc \cup W /\ \A x \in All \ alloc' : refs'[x] = {}
  BY <1>2, <1>3, <1>4, <1>5
<1>7. \A r \in refs[running] : r \in alloc /\ ~isdead(r) /\ kind[r] # "upval"
  BY Zenon, <1>1, <1>2 DEF LiveInv, Alive, KindInv, Fits
<1>8. \A x \in alloc' : Fits(kind[x], refs'[x])
  <2>1. \A x \in alloc : Fits(kind[x], refs[x])
    BY Zenon, <1>1 DEF KindInv
  <2> QED
    BY <2>1, <1>2, <1>3, <1>4, <1>5, <1>7 DEF Fits
<1>9. \A x \in W \cup {running} : AliveWith(W, refs'[x])
  <2>1. AliveWith(W, refs'[running]) /\ AliveWith(W, refs'[f])
    BY Zenon, <1>4, <1>5, <1>7 DEF AliveWith
  <2>2. isdead(uv) => AliveWith(W, refs'[uv])
    BY <1>1, <1>2, <1>3, <1>4, <1>5 DEF AliveWith, LiveInv, Alive, OpenOf
  <2> QED
    BY Zenon, <2>1, <2>2
<1>10. running = Main \/ running \in refs'[Main]
  BY Zenon, <1>1, <1>2, <1>3, <1>5 DEF KindInv
<1>11. /\ \A x \in W : kind[x] \in {"tab", "weak", "func", "upval", "udata", "thread", "str"}
       /\ \A x \in W : x \in alloc => isdead(x) /\ kind[x] \in {"str", "upval"}
       /\ \A x \in alloc \ {running} : refs'[x] = refs[x]
       /\ open \subseteq open' /\ owner' \in [All -> All]
       /\ \A w \in open : owner'[w] = owner[w]
       /\ \A w \in open' \ open : w \in W /\ kind[w] = "upval" /\ owner'[w] = running
  BY Zenon, <1>2, <1>3, <1>4, <1>5
<1> HIDE DEF W
<1> QED
  BY Zenon, <1>2, <1>3, <1>4, <1>5, <1>6, <1>8, <1>9, <1>10, <1>11, NewKeepsInv

\* A local variable goes out of scope.
LEMMA CloseUvKeepsInv ==
  ASSUME Inv, NEW uv \in Objs, lj_func_closeuv(uv)
  PROVE  Inv'
<1>1. TypeInv /\ KindInv /\ LiveInv /\ SweepInv /\ MarkInv
  BY Zenon DEF Inv
<1>2. /\ alloc \subseteq All /\ open \subseteq alloc /\ mmudata \subseteq alloc
      /\ refs \in [All -> SUBSET Objs] /\ marked \in [All -> Colours] /\ white \in White
      /\ Main \in alloc /\ owner \in [All -> All]
      /\ running \in alloc /\ ~isdead(running) /\ kind[running] = "thread"
  BY Zenon, <1>1, HeldFacts DEF TypeInv
<1>3. /\ step = None /\ uv \in open /\ owner[uv] = running /\ open' = open \ {uv}
      /\ UNCHANGED <<kind, owner, running, state, step, white, weak, unswept, mmudata>>
  BY Zenon DEF lj_func_closeuv, OpenOf, Mutator, restVars, endVars
<1>4. /\ uv \in alloc /\ uv \in All /\ kind[uv] = "upval"
      /\ uv # Main /\ uv # running /\ uv \notin mmudata
  BY Zenon, <1>1, <1>2, <1>3 DEF KindInv
<1>5. AtomicInv'
  BY Zenon, <1>3 DEF AtomicInv, None
<1>6. CASE isdead(uv)
  <2>1. /\ alloc' = alloc \ {uv} /\ refs' = [refs EXCEPT ![uv] = {}]
        /\ UNCHANGED <<marked, gray, grayagain>>
    BY Zenon, <1>6 DEF lj_func_closeuv, Becomes, NoBarrier
  <2>2. refs' \in [All -> SUBSET Objs] /\ refs'[uv] = {} /\ \A x \in All \ {uv} : refs'[x] = refs[x]
    BY Zenon, <2>1, <1>2, <1>4
  <2>3. /\ state \in {"sweepstring", "sweep"}
        /\ \A x \in All : isdead(x)' <=> isdead(x)
    BY Zenon, <2>1, <1>1, <1>3, <1>4, <1>6 DEF SweepInv, isdead, otherwhite
  <2>4. \A uw \in open : owner[uw] # uv
    BY Zenon, <1>1, <1>4 DEF KindInv
  <2>5. TypeInv'
    BY <2>1, <2>2, <1>1, <1>3, <1>4 DEF TypeInv
  <2>6. KindInv'
    <3>1. \A x \in alloc' : Fits(kind[x], refs[x])'
      BY <2>1, <2>2, <1>1, <1>2, <1>3 DEF KindInv, Fits
    <3> QED
      BY Zenon, <3>1, <2>1, <2>2, <2>4, <1>1, <1>2, <1>3, <1>4 DEF KindInv
  <2>7. LiveInv'
    <3>1. \A x \in alloc' : ~isdead(x)' => \A r \in refs'[x] : r \in alloc' /\ ~isdead(r)'
      BY <2>1, <2>2, <2>3, <1>1, <1>2, <1>6 DEF LiveInv, Alive, All
    <3>2. \A uw \in open' : ~isdead(owner[uw])' => \A r \in refs'[uw] : r \in alloc' /\ ~isdead(r)'
      BY <2>1, <2>2, <2>3, <1>1, <1>2, <1>3, <1>6 DEF LiveInv, Alive, All
    <3> QED
      BY Zenon, <3>1, <3>2, <2>1, <2>3, <1>1, <1>2, <1>3, <1>4 DEF LiveInv, Alive
  <2>8. SweepInv'
    BY Zenon, <2>1, <2>3, <1>1, <1>3 DEF SweepInv
  <2>9. MarkInv'
    BY Zenon, <2>3, <1>3 DEF MarkInv, Marking
  <2> QED
    BY Zenon, <2>5, <2>6, <2>7, <2>8, <2>9, <1>5 DEF Inv
<1>7. CASE ~isdead(uv)
  <2>1. lj_gc_closeuv(uv) /\ alloc' = alloc /\ refs' = refs
    BY Zenon, <1>7 DEF lj_func_closeuv
  <2>2. KindInv'
    BY <2>1, <1>1, <1>3 DEF KindInv, Fits
  <2>3. \A r \in refs[uv] : r \in alloc /\ ~isdead(r)
    BY Zenon, <1>1, <1>2, <1>3, <1>4, <1>7 DEF LiveInv, Alive
  <2>4. CASE marked[uv] = "gray" /\ Marking
    <3> DEFINE m == [marked EXCEPT ![uv] = "black"]
               S == refs[uv]
    <3>1. gc_mark(S, m, gray) /\ grayagain' = grayagain
      BY Zenon, <2>1, <2>4 DEF lj_gc_closeuv, Marking
    <3>2. /\ m \in [All -> Colours] /\ S \in SUBSET alloc
          /\ \A x \in All : m[x] = marked[x] \/ m[x] \in {"gray", "black"}
          /\ m[uv] = "black" /\ \A x \in All \ {uv} : m[x] = marked[x]
      BY Zenon, <2>3, <1>2, <1>4 DEF Colours
    <3> HIDE DEF m
    <3>3. state \notin {"sweepstring", "sweep"}
      BY Zenon, <2>4 DEF Marking
    <3>4. MarkEffect(S, m, gray)
      BY Zenon, <3>1, <3>2, <3>3, MarkFacts
    <3>5. /\ marked' \in [All -> Colours]
          /\ \A x \in All : ~iswhite(x) => marked'[x] = m[x] /\ ~iswhite(x)'
          /\ \A x \in S : ~iswhite(x)'
          /\ \A x \in All : marked'[x] = m[x] \/ Fresh(x)
          /\ gray \subseteq gray'
          /\ \A x \in gray' : \/ x \in gray
                              \/ /\ x \in alloc /\ ~iswhite(x)'
                                 /\ kind[x] \in {"tab", "weak", "func", "thread"}
      BY Zenon, <3>4 DEF MarkEffect
    <3>6. marked'[uv] = "black"
      BY Zenon, <3>2, <3>5, <2>4, <1>2, <1>4 DEF iswhite
    <3>7. \A x \in alloc : ~isdead(x) /\ ~isdead(x)' /\ refs[x] \subseteq alloc
      <4>1. \A x \in alloc : ~isdead(x) /\ refs[x] \subseteq alloc
        BY Zenon, <3>3, NoDead
      <4>2. \A x \in All : marked'[x] = marked[x] \/ marked'[x] \in {"gray", "black"}
        BY Zenon, <3>2, <3>5, <3>6 DEF Fresh, MarkColour
      <4> QED
        BY Zenon, <4>1, <4>2, <1>2, <1>3 DEF isdead, otherwhite
    <3>8. TypeInv'
      BY Zenon, <3>5, <2>1, <1>1, <1>3 DEF TypeInv
    <3>9. \A x \in alloc : x = uv \/ marked'[x] = marked[x] \/ Fresh(x)
      BY Zenon, <3>2, <3>5, <1>2
    <3>10. LiveInv'
      <4>1. /\ \A u \in mmudata : marked'[u] # "gray"
            /\ \A uw \in open' : marked'[uw] # "black"
        <5>1. \A u \in mmudata : marked'[u] # "gray"
          <6>1. \A u \in mmudata : u \in alloc /\ kind[u] = "udata" /\ u # uv /\ marked[u] # "gray"
            BY Zenon, <1>1, <1>2, <1>3, <1>4 DEF LiveInv, KindInv
          <6> QED
            BY Zenon, <6>1, <3>9 DEF Fresh, MarkColour
        <5>2. \A uw \in open' : marked'[uw] # "black"
          BY Zenon, <3>9, <1>1, <1>2, <1>3, <1>4 DEF LiveInv, KindInv, Fresh, MarkColour
        <5> QED
          BY Zenon, <5>1, <5>2
      <4> QED
        BY Zenon, <4>1, <3>7, <2>1, <1>1, <1>2, <1>3 DEF LiveInv, Alive, KindInv
    <3>11. SweepInv'
      BY Zenon, <3>7, <2>1, <2>4, <1>3 DEF SweepInv, Marking
    <3>12. MarkInv'
      <4>1. \A x \in alloc : ~iswhite(x) => ~iswhite(x)'
        BY Zenon, <3>5, <1>2
      <4>2. \A x \in alloc \ mmudata : marked'[x] = "black" => \A r \in refs[x] : ~iswhite(r)'
        BY <4>1, <3>5, <3>7, <3>9, <2>4, <1>1, <1>2 DEF MarkInv, Marked, Fresh, MarkColour
      <4>3. \A x \in alloc : marked'[x] = "black" => kind[x] \in {"tab", "func", "upval", "udata"}
        BY Zenon, <3>9, <2>4, <1>1, <1>4 DEF MarkInv, Fresh, MarkColour
      <4>4. \A x \in alloc : marked'[x] = "gray" => Listed(x)'
        <5>1. ASSUME NEW x \in alloc, marked'[x] = "gray", marked[x] = "gray" PROVE Listed(x)'
          BY Zenon, <5>1, <3>1, <3>5, <3>6, <2>4, <1>1, <1>3, <1>4 DEF MarkInv, Listed
        <5>2. ASSUME NEW x \in alloc, marked'[x] = "gray", Fresh(x) PROVE Listed(x)'
          BY Zenon, <5>2, <3>1, <3>6, <1>1, <1>3, <1>4 DEF Fresh, Listed, KindInv, MarkColour
        <5> QED
          BY Zenon, <5>1, <5>2, <3>6, <3>9
      <4>5. marked'[Main] = "gray"
        BY <3>2, <3>5, <2>4, <1>1, <1>2, <1>4 DEF MarkInv, iswhite
      <4>6. \A x \in gray' : x \in alloc /\ ~iswhite(x)' /\ kind[x] \in {"tab", "weak", "func", "thread"}
        BY Zenon, <4>1, <3>5, <2>4, <1>1 DEF MarkInv
      <4>7. /\ grayagain' \in SUBSET alloc /\ weak' \in SUBSET alloc
            /\ \A x \in weak : kind[x] = "weak" /\ ~iswhite(x)'
            /\ \A x \in grayagain : kind[x] \in {"tab", "weak", "thread"} /\ ~iswhite(x)'
        BY Zenon, <4>1, <3>1, <2>4, <1>1, <1>3 DEF MarkInv
      <4> QED
        BY Zenon, <4>2, <4>3, <4>4, <4>5, <4>6, <4>7, <3>1, <2>1, <1>3 DEF MarkInv, Marked
    <3> QED
      BY Zenon, <3>8, <3>10, <3>11, <3>12, <2>2, <1>5 DEF Inv
  <2>5. CASE ~(marked[uv] = "gray" /\ Marking)
    <3>1. /\ marked' = marked \/ (~Marking /\ marked' = [marked EXCEPT ![uv] = white])
          /\ gray' = gray /\ grayagain' = grayagain
          /\ marked[uv] # "gray" => marked' = marked
          /\ ~Marking \/ marked' = marked
      BY Zenon, <2>1, <2>5 DEF lj_gc_closeuv, NoBarrier, Marking
    <3>2. /\ marked' \in [All -> Colours] /\ \A x \in All \ {uv} : marked'[x] = marked[x]
          /\ marked'[uv] = marked[uv] \/ marked'[uv] = white
      BY <3>1, <1>2 DEF Colours
    <3>3. \A x \in All : isdead(x)' <=> isdead(x)
      BY Zenon, <3>2, <1>2, <1>3, <1>7 DEF isdead, otherwhite, White, All
    <3>4. TypeInv'
      BY Zenon, <3>2, <2>1, <1>1, <1>3 DEF TypeInv
    <3>5. LiveInv'
      BY <3>2, <3>3, <2>1, <1>1, <1>2, <1>3, <1>4 DEF LiveInv, Alive, White, KindInv
    <3>6. SweepInv'
      <4>1. ~Marking => marked'[uv] = white
        <5>1. marked[uv] \in {white, "gray"}
          BY Zenon, <1>1, <1>2, <1>3, <1>4, <1>7 DEF LiveInv, isdead, otherwhite, White, Colours
        <5>2. ~Marking /\ marked[uv] = "gray" => marked' = [marked EXCEPT ![uv] = white]
          BY Zenon, <2>1 DEF lj_gc_closeuv, Marking
        <5> QED
          BY Zenon, <5>1, <5>2, <3>1, <1>2, <1>4
      <4>2. state \in {"pause", "finalize", "sweepstring", "sweep"} => ~Marking
        BY Zenon DEF Marking
      <4> QED
        BY Zenon, <4>1, <4>2, <3>2, <3>3, <2>1, <1>1, <1>2, <1>3, <1>4 DEF SweepInv
    <3>7. MarkInv'
      BY <3>1, <2>1, <2>5, <1>1, <1>3, <1>4 DEF MarkInv, Marking, Marked, Listed, iswhite
    <3> QED
      BY Zenon, <3>4, <3>5, <3>6, <3>7, <2>2, <1>5 DEF Inv
  <2> QED
    BY Zenon, <2>4, <2>5
<1> QED
  BY Zenon, <1>6, <1>7

LEMMA CollectorKeepsInv == Inv /\ (Collector \/ lj_gc_fullgc) => Inv'
<1>1. Inv /\ (MarkPhaseEnds \/ RemarkGrayagain \/ StringsSwept \/ CycleEnds) => Inv'
  BY Zenon, PhaseKeepsInv
<1>2. Inv /\ (\E u \in Objs : gc_finalize(u)) => Inv'
  BY Zenon, FinalizeKeepsInv
<1> QED
  BY Zenon, <1>1, <1>2, StartKeepsInv, PropagateKeepsInv, AtomicStartsKeepsInv, RemarkWeakKeepsInv,
     SeparateKeepsInv, AtomicEndsKeepsInv, SweepKeepsInv, SweepEndsKeepsInv, FullKeepsInv
     DEF Collector

LEMMA ProgramKeepsInv == ASSUME ~SetUpvalue, Inv, Program PROVE Inv'
<1>1. ASSUME NEW o \in Objs, \/ lj_mem_newgco(o) \/ lj_str_new(o) \/ lj_func_closeuv(o)
                             \/ Pop(o) \/ lua_setmetatable(o)
      PROVE  Inv'
  BY Zenon, <1>1, NewObjectKeepsInv, CloseUvKeepsInv, LoadKeepsInv, SetMetatableKeepsInv
<1>2. ASSUME NEW f \in Objs, NEW uv \in Objs,
             Shared(f, uv) \/ \E v \in Objs : lj_func_newL_gc(f, uv, v)
      PROVE  Inv'
  BY Zenon, <1>2, SharedKeepsInv, NewClosureKeepsInv
<1>3. ASSUME NEW x \in Objs, NEW v \in Objs,
             Load(x, v) \/ Store(x, v) \/ StoreNil(x, v) \/ SetUpval(x, v)
      PROVE  Inv'
  BY Zenon, <1>3, LoadKeepsInv, StoreKeepsInv, StoreNilKeepsInv, SetUpvalKeepsInv
<1>4. ASSUME NEW th \in All, NEW v \in Objs, Switch(th, v) PROVE Inv'
  BY Zenon, <1>4, SwitchKeepsInv
<1>5. \A x, v \in Objs : ~lua_setupvalue(x, v)
  BY Zenon DEF lua_setupvalue
<1> QED
  BY Zenon, <1>1, <1>2, <1>3, <1>4, <1>5 DEF Program

LEMMA StutterKeepsInv == Inv /\ UNCHANGED vars => Inv'
<1> SUFFICES ASSUME Inv, UNCHANGED vars PROVE Inv'
  OBVIOUS
<1>1. /\ UNCHANGED <<kind, alloc, refs, open, owner, running, marked, state, step, white>>
      /\ UNCHANGED <<gray, grayagain, weak, unswept, mmudata>>
  BY Zenon DEF vars, memVars, listVars, endVars
<1>2. /\ \A o : isdead(o)' <=> isdead(o)
      /\ \A o : iswhite(o)' <=> iswhite(o)
      /\ \A o : Listed(o)' <=> Listed(o)
      /\ \A o : Stack(o)' = Stack(o)
  BY <1>1 DEF isdead, iswhite, otherwhite, Listed, Stack, RefsOf, OpenOf
<1>3. TypeInv' /\ KindInv' /\ LiveInv' /\ SweepInv'
  BY <1>1, <1>2 DEF Inv, TypeInv, KindInv, LiveInv, SweepInv, Fits, Alive
<1>4. MarkInv'
  BY Zenon, <1>1, <1>2 DEF Inv, MarkInv, Marking, Marked
<1>5. AtomicInv'
  BY Zenon, <1>1, <1>2 DEF Inv, AtomicInv, Marked
<1> QED
  BY Zenon, <1>3, <1>4, <1>5 DEF Inv

LEMMA StepKeepsInv == ASSUME ~SetUpvalue PROVE Inv /\ [Next]_vars => Inv'
  BY Zenon, CollectorKeepsInv, ProgramKeepsInv, StutterKeepsInv DEF Next

\* The invariant of the collector and its write barriers, in every state.
THEOREM CollectorCorrect == ASSUME ~SetUpvalue PROVE Spec => []Inv
  BY InitInv, StepKeepsInv, PTL DEF Spec

\* Incremental marking, the barriers and the sweep free nothing that an object
\* in use refers to, for any number of objects and any references among them
\* (lj_gc.c).
THEOREM NothingInUseIsFreed == ASSUME ~SetUpvalue PROVE Spec => []NoDangling
<1>1. Inv => NoDangling
  BY Zenon, HeldFacts DEF Inv, LiveInv, NoDangling, Alive
<1> QED
  BY <1>1, CollectorCorrect, PTL

\* The invariant lj_obj.h asks the barriers to keep: during the mark phase no
\* black object refers to a white one.
THEOREM BarriersSuffice == ASSUME ~SetUpvalue PROVE Spec => []BlackNotToWhite
<1>1. Inv => BlackNotToWhite
  BY Zenon DEF Inv, MarkInv, Marking, Marked, BlackNotToWhite, Whites
<1> QED
  BY <1>1, CollectorCorrect, PTL

-----------------------------------------------------------------------------
(* Finalizers.                                                             *)

Sweeping == state \in {"sweepstring", "sweep"}

\* A userdata is flagged before it waits for its finalizer or is freed, and is
\* called or missed when it waits no more.
FinInv ==
  /\ calls \in [Objs -> Nat]
  /\ \A u \in finalized : u \in alloc /\ u \in Objs /\ kind[u] = "udata"
  /\ mmudata \subseteq finalized
  /\ \A u \in Objs : calls[u] = 0 \/ (calls[u] = 1 /\ u \in finalized \ mmudata)
  /\ \A u \in finalized \ (mmudata \cup missed) : calls[u] = 1
  /\ step = "udata" => \A u \in alloc : kind[u] = "udata" /\ iswhite(u) => u \in finalized
  /\ Sweeping => \A u \in alloc : kind[u] = "udata" /\ isdead(u) => u \in finalized

\* A step that flags and calls nothing.
LEMMA FinKept ==
  ASSUME Inv, FinInv, UNCHANGED <<kind, endVars>>,
         \A u \in alloc : kind[u] = "udata" => u \in alloc',
         step' = "udata" =>
           \A u \in alloc' : kind[u] = "udata" /\ iswhite(u)' => u \in finalized,
         Sweeping' =>
           \A u \in alloc' : kind[u] = "udata" /\ isdead(u)' => u \in finalized
  PROVE  FinInv'
  BY Zenon DEF FinInv, endVars

\* No object is made white of the old kind.
ColoursKept ==
  \A x \in All : marked'[x] = marked[x] \/ marked'[x] \in {white, "gray", "black"}

LEMMA MarkKeepsColours ==
  ASSUME NEW S, NEW m, NEW g, gc_mark(S, m, g), NEW x \in All
  PROVE  marked'[x] = m[x] \/ marked'[x] \in {"gray", "black"}
  BY Zenon DEF gc_mark, MarkColour

LEMMA BarriersKeepColours ==
  ASSUME Inv,
         \/ NoBarrier
         \/ \E t \in All : lj_gc_anybarriert(t) \/ \E v \in All : lj_gc_barriert(t, v)
         \/ \E o, v \in All : lj_gc_objbarrier(o, v) \/ lj_gc_barrieruv(o, v)
         \/ \E uv \in All : lj_gc_closeuv(uv)
  PROVE  ColoursKept
<1>1. marked \in [All -> Colours]
  BY Zenon DEF Inv, TypeInv
<1>2. CASE NoBarrier
  BY Zenon, <1>2 DEF NoBarrier, ColoursKept
<1>3. ASSUME NEW t \in All, lj_gc_barrierback(t) PROVE ColoursKept
  BY Zenon, <1>1, <1>3 DEF lj_gc_barrierback, ColoursKept
<1>4. ASSUME NEW o \in All, NEW v \in All, lj_gc_barrierf(o, v) PROVE ColoursKept
  <2>1. CASE gc_mark({v}, marked, gray)
    BY Zenon, <2>1, MarkKeepsColours DEF ColoursKept
  <2>2. CASE marked' = [marked EXCEPT ![o] = white]
    BY Zenon, <2>2, <1>1 DEF ColoursKept
  <2> QED
    BY Zenon, <1>4, <2>1, <2>2 DEF lj_gc_barrierf
<1>5. ASSUME NEW uv \in All, lj_gc_closeuv(uv) PROVE ColoursKept
  <2> DEFINE m == [marked EXCEPT ![uv] = "black"]
  <2>1. CASE gc_mark(refs[uv], m, gray)
    <3>1. \A x \in All : m[x] = marked[x] \/ m[x] = "black"
      BY Zenon, <1>1
    <3> HIDE DEF m
    <3>2. \A x \in All : marked'[x] = m[x] \/ marked'[x] \in {"gray", "black"}
      BY Zenon, <2>1, MarkKeepsColours
    <3> QED
      BY Zenon, <3>1, <3>2 DEF ColoursKept
  <2>2. CASE marked' = [marked EXCEPT ![uv] = white]
    BY Zenon, <2>2, <1>1 DEF ColoursKept
  <2> QED
    BY Zenon, <1>2, <1>5, <2>1, <2>2 DEF lj_gc_closeuv
<1> QED
  BY Zenon, <1>2, <1>3, <1>4, <1>5 DEF lj_gc_anybarriert, lj_gc_barriert, lj_gc_objbarrier,
     lj_gc_barrieruv

\* What the program does to the objects: those it makes are white.
ProgramEffect ==
  /\ UNCHANGED <<kind, state, white, endVars>> /\ step' = None
  /\ \A u \in alloc : kind[u] = "udata" => u \in alloc'
  /\ \A x \in alloc' \ alloc : x \in All /\ marked'[x] = white
  /\ ColoursKept

LEMMA ProgramEffects == ASSUME Inv, Program PROVE ProgramEffect
<1>1. TypeInv /\ KindInv
  BY Zenon DEF Inv
<1>2. marked \in [All -> Colours] /\ alloc \subseteq All /\ Objs \subseteq All /\ open \subseteq alloc
  BY Zenon, <1>1 DEF TypeInv, All
<1>3. \A w \in Held : w \in alloc /\ w \in Objs
  BY Zenon, HeldFacts
<1> USE DEF Mutator, restVars, endVars
<1>4. ASSUME NEW o \in Objs, lj_mem_newgco(o) \/ lj_str_new(o) PROVE ProgramEffect
  <2>1. UNCHANGED <<kind, state, white, endVars>> /\ step' = None /\ alloc' = alloc \cup {o}
    BY Zenon, <1>4 DEF lj_mem_newgco, lj_str_new
  <2>2. /\ marked' = [marked EXCEPT ![o] = white] \/ marked' = [marked EXCEPT ![o] = marked[o]]
        /\ o \notin alloc => marked' = [marked EXCEPT ![o] = white]
    BY Zenon, <1>4 DEF lj_mem_newgco, lj_str_new, Resurrected
  <2> QED
    BY Zenon, <2>1, <2>2, <1>2 DEF ProgramEffect, ColoursKept
<1>5. ASSUME NEW uv \in Objs, lj_func_closeuv(uv) PROVE ProgramEffect
  <2>1. UNCHANGED <<kind, state, white, endVars>> /\ step' = None /\ uv \in open
    BY Zenon, <1>5 DEF lj_func_closeuv, OpenOf
  <2>2. kind[uv] = "upval" /\ uv \in All /\ (alloc' = alloc \ {uv} \/ alloc' = alloc)
    BY Zenon, <2>1, <1>1, <1>2, <1>5 DEF lj_func_closeuv, KindInv
  <2>3. ColoursKept
    BY Zenon, <2>2, <1>5, BarriersKeepColours DEF lj_func_closeuv
  <2> QED
    BY Zenon, <2>1, <2>2, <2>3 DEF ProgramEffect
<1>6. ASSUME NEW f \in Objs, NEW uv \in Objs, NEW v \in Objs, lj_func_newL_gc(f, uv, v)
      PROVE  ProgramEffect
  <2>1. /\ UNCHANGED <<kind, state, white, endVars>> /\ step' = None
        /\ alloc' = alloc \cup {f, uv} /\ marked' = [marked EXCEPT ![f] = white, ![uv] = white]
    BY Zenon, <1>6 DEF lj_func_newL_gc
  <2> QED
    BY Zenon, <2>1, <1>2 DEF ProgramEffect, ColoursKept
<1>7. ASSUME NEW f \in Objs, NEW uv \in Objs, Shared(f, uv) PROVE ProgramEffect
  <2>1. /\ UNCHANGED <<kind, state, white, endVars>> /\ step' = None /\ alloc' = alloc \cup {f}
        /\ \/ marked' = [Resurrected(uv) EXCEPT ![f] = white]
           \/ marked' = [marked EXCEPT ![f] = white]
    BY Zenon, <1>7 DEF Shared
  <2>2. /\ Resurrected(uv) \in [All -> Colours \cup {white}]
        /\ \A x \in All : Resurrected(uv)[x] \in {marked[x], white}
    BY Zenon, <1>2 DEF Resurrected
  <2>3. /\ marked'[f] = white
        /\ \A x \in All : marked'[x] \in {marked[x], white}
    BY Zenon, <2>1, <2>2, <1>2
  <2> QED
    BY Zenon, <2>1, <2>3, <1>2 DEF ProgramEffect, ColoursKept
<1>8. ASSUME NEW x \in Objs, NEW v \in Objs, Load(x, v) \/ Pop(v)
      PROVE  ProgramEffect
  BY Zenon, <1>8 DEF Load, Pop, ProgramEffect, ColoursKept
<1>9. ASSUME NEW t \in Objs, NEW v \in Objs, Store(t, v) \/ StoreNil(t, v)
      PROVE  ProgramEffect
  <2>1. UNCHANGED <<alloc, kind, state, white, endVars>> /\ step' = None
    BY Zenon, <1>9 DEF Store, StoreNil
  <2>2. ColoursKept
    BY Zenon, <1>2, <1>9, BarriersKeepColours DEF Store, StoreNil
  <2> QED
    BY Zenon, <2>1, <2>2 DEF ProgramEffect
<1>10. ASSUME NEW u \in Objs, lua_setmetatable(u) PROVE ProgramEffect
  <2>1. UNCHANGED <<alloc, kind, state, white, endVars>> /\ step' = None
    BY Zenon, <1>10 DEF lua_setmetatable
  <2>2. NoBarrier \/ \E o, v \in All : lj_gc_objbarrier(o, v)
    BY Zenon, <1>2, <1>3, <1>10 DEF lua_setmetatable
  <2>3. ColoursKept
    BY Zenon, <2>2, BarriersKeepColours
  <2> QED
    BY Zenon, <2>1, <2>3 DEF ProgramEffect
<1>11. ASSUME NEW f \in Objs, NEW v \in Objs, SetUpval(f, v) \/ lua_setupvalue(f, v)
       PROVE  ProgramEffect
  <2>1. UNCHANGED <<alloc, kind, state, white, endVars>> /\ step' = None
    BY Zenon, <1>11 DEF SetUpval, lua_setupvalue
  <2>2. \E o, w \in All : lj_gc_objbarrier(o, w) \/ lj_gc_barrieruv(o, w)
    BY Zenon, <1>1, <1>2, <1>11 DEF SetUpval, lua_setupvalue, TypeInv
  <2>3. ColoursKept
    BY Zenon, <2>2, BarriersKeepColours
  <2> QED
    BY Zenon, <2>1, <2>3 DEF ProgramEffect
<1>12. ASSUME NEW th \in All, NEW v \in Objs, Switch(th, v) PROVE ProgramEffect
  BY Zenon, <1>12 DEF Switch, ProgramEffect, ColoursKept
<1> QED
  BY Zenon, <1>4, <1>5, <1>6, <1>7, <1>8, <1>9, <1>10, <1>11, <1>12 DEF Program

LEMMA ProgramKeepsFin == ASSUME Inv, FinInv, Program PROVE FinInv'
<1>1. ProgramEffect
  BY Zenon, ProgramEffects
<1>2. white \in White /\ alloc \subseteq All
  BY Zenon DEF Inv, TypeInv
<1>3. \A x \in alloc' : isdead(x)' => x \in alloc /\ isdead(x)
  BY Zenon, <1>1, <1>2 DEF ProgramEffect, ColoursKept, isdead, otherwhite, White
<1>4. Sweeping' => \A u \in alloc' : kind[u] = "udata" /\ isdead(u)' => u \in finalized
  BY Zenon, <1>1, <1>3 DEF ProgramEffect, FinInv, Sweeping
<1>5. step' # "udata"
  BY Zenon, <1>1 DEF ProgramEffect, None
<1> QED
  BY Zenon, <1>1, <1>4, <1>5, FinKept DEF ProgramEffect

\* The phases of the collector that flag and call nothing.
LEMMA PhasesKeepFin ==
  ASSUME Inv, FinInv, Inv',
         \/ gc_mark_start \/ Propagate \/ MarkPhaseEnds \/ AtomicStarts \/ RemarkWeak
         \/ RemarkGrayagain \/ StringsSwept \/ SweepEnds \/ CycleEnds \/ lj_gc_fullgc
  PROVE  FinInv'
<1>1. TypeInv /\ SweepInv
  BY Zenon DEF Inv
<1>2. marked \in [All -> Colours] /\ white \in White /\ alloc \subseteq All
  BY Zenon, <1>1 DEF TypeInv
<1> USE DEF memVars, listVars, endVars
<1>3. UNCHANGED <<kind, alloc, white, endVars>>
  BY Zenon DEF gc_mark_start, Propagate, propagatemark, MarkPhaseEnds, AtomicStarts, RemarkWeak,
         RemarkGrayagain, StringsSwept, SweepEnds, CycleEnds, lj_gc_fullgc
<1>4. Sweeping' => marked' = marked
  BY Zenon, <1>1 DEF gc_mark_start, Propagate, propagatemark, MarkPhaseEnds, AtomicStarts, RemarkWeak,
         RemarkGrayagain, StringsSwept, SweepEnds, CycleEnds, lj_gc_fullgc, Sweeping, TypeInv,
         None
<1>5. Sweeping' => \A u \in alloc' : kind[u] = "udata" /\ isdead(u)' => u \in finalized
  BY Zenon, <1>1, <1>3, <1>4 DEF FinInv, SweepInv, Sweeping, isdead, otherwhite
<1>6. ASSUME step' = "udata", NEW u \in alloc', kind[u] = "udata", iswhite(u)'
      PROVE  u \in finalized
  <2>1. CASE Propagate
    <3>1. PICK o \in gray : \E c \in {"gray", "black"} :
            gc_mark(Strong(o), [marked EXCEPT ![o] = c], gray \ {o})
      BY Zenon, <2>1 DEF Propagate, propagatemark
    <3>2. PICK c \in {"gray", "black"} :
            gc_mark(Strong(o), [marked EXCEPT ![o] = c], gray \ {o})
      BY Zenon, <3>1
    <3> DEFINE m == [marked EXCEPT ![o] = c]
    <3>3. u \in All /\ (m[u] = marked[u] \/ m[u] \in {"gray", "black"})
      BY Zenon, <1>2, <1>3, <1>6
    <3> HIDE DEF m
    <3>4. gc_mark(Strong(o), m, gray \ {o})
      BY Zenon, <3>2 DEF m
    <3>5. marked'[u] = m[u] \/ marked'[u] \in {"gray", "black"}
      BY Zenon, <3>3, <3>4, MarkKeepsColours
    <3>6. iswhite(u)
      BY Zenon, <3>3, <3>5, <1>6 DEF iswhite
    <3>7. step = "udata"
      BY Zenon, <2>1, <1>6 DEF Propagate, propagatemark
    <3> QED
      BY Zenon, <3>6, <3>7, <1>3, <1>6 DEF FinInv
  <2>2. CASE ~Propagate
    <3>1. step = "udata" /\ state # "atomic"
      BY Zenon, <2>2, <1>1, <1>6 DEF gc_mark_start, MarkPhaseEnds, AtomicStarts, RemarkWeak,
         RemarkGrayagain, StringsSwept, SweepEnds, CycleEnds, lj_gc_fullgc, Mutator, None, TypeInv
    <3> QED
      BY Zenon, <3>1, <1>1 DEF TypeInv, None
  <2> QED
    BY Zenon, <2>1, <2>2
<1> QED
  BY Zenon, <1>3, <1>5, <1>6, FinKept

\* lj_gc_separateudata flags what was not marked, and only that can be dead
\* after the flip of the white colours.
LEMMA AtomicKeepsFin ==
  ASSUME Inv, FinInv, Separate \/ AtomicEnds
  PROVE  FinInv'
<1>1. TypeInv /\ KindInv /\ SweepInv
  BY Zenon DEF Inv
<1>2. /\ marked \in [All -> Colours] /\ white \in White /\ alloc \subseteq All
      /\ mmudata \subseteq alloc /\ kind[Main] = "thread" /\ state = "atomic"
  BY Zenon, <1>1 DEF TypeInv, KindInv, Separate, AtomicEnds, None
<1>3. CASE Separate
  <2> DEFINE new == lj_gc_separateudata
             all == mmudata \cup {u \in new : HasGc(u)}
             m == [o \in All |-> IF o \in all THEN "black" ELSE marked[o]]
  <2>1. /\ finalized' = finalized \cup new
        /\ missed' = missed \cup {u \in new : ~HasGc(u)}
        /\ mmudata' = all /\ gc_mark(RefsOf(all), m, gray)
        /\ step' = "udata" /\ UNCHANGED <<kind, alloc, state, white, calls>>
    BY Zenon, <1>3 DEF Separate, memVars
  <2>2. \A u : u \in new <=>
          u \in alloc /\ kind[u] = "udata" /\ u \notin mmudata /\ u \notin finalized /\ iswhite(u)
    BY Zenon DEF lj_gc_separateudata, Of
  <2>3. \A u \in new : u \in Objs /\ calls[u] = 0
    BY Zenon, <2>2, <1>2 DEF All, FinInv
  <2>4. \A x \in All : m[x] = marked[x] \/ m[x] = "black"
    OBVIOUS
  <2> HIDE DEF new, m
  <2>5. \A x \in All : marked'[x] = m[x] \/ marked'[x] \in {"gray", "black"}
    BY Zenon, <2>1, MarkKeepsColours
  <2>6. \A u \in alloc : kind[u] = "udata" /\ iswhite(u)' => u \in finalized'
    BY Zenon, <2>1, <2>2, <2>4, <2>5, <1>2 DEF iswhite, FinInv
  <2>7. ~Sweeping'
    BY Zenon, <2>1, <1>2 DEF Sweeping
  <2>8. \A u \in new : HasGc(u) => u \in all
    OBVIOUS
  <2> QED
    BY Zenon, <2>1, <2>2, <2>3, <2>6, <2>7, <2>8 DEF FinInv
<1>4. CASE AtomicEnds
  <2>1. /\ UNCHANGED <<kind, alloc, endVars>> /\ step = "udata" /\ step' = None
        /\ white' = otherwhite
        /\ marked' = [o \in All |-> IF kind[o] = "str" /\ o \in Whites(RefsOf(weak)) THEN "gray"
                                    ELSE marked[o]]
    BY Zenon, <1>4 DEF AtomicEnds
  <2>2. \A u \in alloc : kind[u] = "udata" /\ isdead(u)' => iswhite(u)
    BY Zenon, <2>1, <1>2 DEF isdead, iswhite, otherwhite, White
  <2>3. \A u \in alloc' : kind[u] = "udata" /\ isdead(u)' => u \in finalized
    BY Zenon, <2>1, <2>2 DEF FinInv
  <2> QED
    BY Zenon, <2>1, <2>3, FinKept DEF None
<1> QED
  BY Zenon, <1>3, <1>4

\* gc_sweep frees a userdata only when it was flagged and waits no more.
LEMMA SweptWasFinal ==
  ASSUME Inv, FinInv, Sweeping, NEW o \in unswept, SweepOne(o)
  PROVE  /\ FinInv'
         /\ \A u \in alloc \ alloc' : kind[u] = "udata" => u \in finalized \ mmudata
<1>1. TypeInv /\ KindInv /\ LiveInv
  BY Zenon DEF Inv
<1>2. /\ marked \in [All -> Colours] /\ white \in White /\ alloc \subseteq All /\ mmudata \subseteq alloc
      /\ \A u \in mmudata : ~isdead(u)
  BY Zenon, <1>1 DEF TypeInv, LiveInv
<1> DEFINE gone == {x \in OpenOf(o) \cup {o} : Condemned(x) /\ x # Main}
<1>3. /\ alloc' = alloc \ gone
      /\ marked' = [x \in All |-> IF x \in gone THEN "white0"
                                 ELSE IF x \in OpenOf(o) \cup {o} THEN white ELSE marked[x]]
      /\ finalized' = finalized \ gone /\ missed' = missed \ gone
      /\ calls' = [x \in Objs |-> IF x \in gone THEN 0 ELSE calls[x]]
      /\ UNCHANGED <<kind, state, step, white, mmudata>>
  BY Zenon DEF SweepOne
<1>4. \A x \in gone : isdead(x)
  BY Zenon DEF Condemned
<1> HIDE DEF gone
<1>5. \A u \in alloc' : isdead(u)' => isdead(u)
  BY Zenon, <1>2, <1>3 DEF isdead, otherwhite, White
<1>6. step # "udata"
  BY Zenon, <1>1 DEF Sweeping, TypeInv, None
<1>7. \A u \in mmudata : u \notin gone
  BY Zenon, <1>2, <1>4
<1>8. \A u \in alloc' : kind[u] = "udata" /\ isdead(u)' => u \in finalized'
  BY Zenon, <1>3, <1>5 DEF FinInv
<1>9. /\ calls' \in [Objs -> Nat]
      /\ \A u \in Objs : calls'[u] = IF u \in gone THEN 0 ELSE calls[u]
  BY Zenon, <1>3 DEF FinInv
<1>10. FinInv'
  <2>1. \A u \in finalized' : u \in alloc' /\ u \in Objs /\ kind'[u] = "udata"
    BY Zenon, <1>3 DEF FinInv
  <2>2. mmudata' \subseteq finalized'
    BY Zenon, <1>3, <1>7 DEF FinInv
  <2>3. \A u \in Objs : calls'[u] = 0 \/ (calls'[u] = 1 /\ u \in finalized' \ mmudata')
    BY Zenon, <1>3, <1>9 DEF FinInv
  <2>4. \A u \in finalized' \ (mmudata' \cup missed') : calls'[u] = 1
    BY Zenon, <1>3, <1>9 DEF FinInv
  <2> QED
    BY Zenon, <2>1, <2>2, <2>3, <2>4, <1>3, <1>6, <1>8, <1>9 DEF FinInv
<1>11. \A u \in alloc \ alloc' : kind[u] = "udata" => u \in finalized \ mmudata
  BY Zenon, <1>3, <1>4, <1>7 DEF FinInv
<1> QED
  BY Zenon, <1>10, <1>11

LEMMA FinalizeKeepsFin ==
  ASSUME Inv, FinInv, NEW u \in Objs, gc_finalize(u)
  PROVE  FinInv'
<1>1. /\ state = "finalize" /\ u \in mmudata /\ mmudata' = mmudata \ {u}
      /\ UNCHANGED <<kind, alloc, state, step, finalized>>
      /\ \/ calls' = [calls EXCEPT ![u] = calls[u] + 1] /\ missed' = missed
         \/ calls' = calls /\ missed' = missed \cup {u}
  BY Zenon DEF gc_finalize
<1>2. calls \in [Objs -> Nat] /\ calls[u] = 0 /\ u \in finalized
  BY Zenon, <1>1 DEF FinInv
<1>3. ~Sweeping' /\ step' # "udata"
  BY Zenon, <1>1 DEF Sweeping, Inv, TypeInv, None
<1>4. CASE calls' = [calls EXCEPT ![u] = calls[u] + 1] /\ missed' = missed
  <2>1. calls' \in [Objs -> Nat] /\ calls'[u] = 1 /\ \A x \in Objs \ {u} : calls'[x] = calls[x]
    BY <1>2, <1>4
  <2> QED
    BY Zenon, <2>1, <1>1, <1>2, <1>3 DEF FinInv
<1>5. CASE calls' = calls /\ missed' = missed \cup {u}
  BY Zenon, <1>1, <1>2, <1>3, <1>5 DEF FinInv
<1> QED
  BY Zenon, <1>1, <1>4, <1>5

LEMMA StepKeepsFin == ASSUME Inv, Inv', FinInv, [Next]_vars PROVE FinInv'
<1>1. CASE UNCHANGED vars
  BY Zenon, <1>1 DEF vars, memVars, listVars, endVars, FinInv, Sweeping, isdead, iswhite, otherwhite
<1>2. CASE SweepString \/ Sweep
  BY Zenon, <1>2, SweptWasFinal DEF SweepString, Sweep, Sweeping
<1>3. CASE \E u \in Objs : gc_finalize(u)
  BY Zenon, <1>3, FinalizeKeepsFin
<1> QED
  BY Zenon, <1>1, <1>2, <1>3, ProgramKeepsFin, PhasesKeepFin, AtomicKeepsFin DEF Next, Collector

\* The __gc of a userdata is called once, and before the userdata is freed
\* unless lj_gc_separateudata or gc_finalize found none, for any number of
\* userdata and however the program brings them back to life.
THEOREM FinalizersRunOnce == ASSUME ~SetUpvalue PROVE Spec => FinalizedOnce
<1>1. Init => FinInv
  BY DEF Init, FinInv, Sweeping, None
<1>2. ASSUME Inv, FinInv, FinInv', [Next]_vars, NEW u \in Of("udata")
      PROVE  /\ calls'[u] <= 1
             /\ u \notin alloc' /\ HasGc(u) /\ u \notin missed => calls[u] = 1
  <2>1. u \in alloc /\ kind[u] = "udata" /\ u \in Objs
    BY Zenon, <1>2 DEF Of, Inv, TypeInv, KindInv, All
  <2>2. calls'[u] <= 1
    BY <2>1, <1>2 DEF FinInv
  <2>3. u \notin alloc' => u \in finalized \ mmudata
    <3>1. CASE UNCHANGED vars
      BY Zenon, <3>1, <2>1 DEF vars, memVars
    <3>2. CASE SweepString \/ Sweep
      BY Zenon, <3>2, <2>1, <1>2, SweptWasFinal DEF SweepString, Sweep, Sweeping
    <3>3. CASE Program
      BY Zenon, <3>3, <2>1, <1>2, ProgramEffects DEF ProgramEffect
    <3>4. CASE (Collector \/ lj_gc_fullgc) /\ ~(SweepString \/ Sweep)
      <4>1. alloc' = alloc
        BY Zenon, <3>4 DEF Collector, gc_mark_start, Propagate, propagatemark, MarkPhaseEnds,
           AtomicStarts, RemarkWeak, RemarkGrayagain, StringsSwept, SweepEnds, CycleEnds,
           lj_gc_fullgc, Separate, AtomicEnds, gc_finalize, memVars
      <4> QED
        BY Zenon, <4>1, <2>1
    <3> QED
      BY Zenon, <3>1, <3>2, <3>3, <3>4, <1>2 DEF Next
  <2> QED
    BY Zenon, <2>1, <2>2, <2>3, <1>2 DEF FinInv
<1>3. Inv /\ FinInv /\ FinInv' /\ [Next]_vars =>
        [\A u \in Of("udata") :
           /\ calls'[u] <= 1
           /\ u \notin alloc' /\ HasGc(u) /\ u \notin missed => calls[u] = 1]_vars
  BY Zenon, <1>2
<1> QED
  BY <1>1, <1>3, CollectorCorrect, StepKeepsFin, PTL DEF Spec, FinalizedOnce
=============================================================================
