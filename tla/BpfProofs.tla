------------------------------ MODULE BpfProofs ------------------------------
(***************************************************************************)
(* Proofs about BpfLoad, for any well-formed object files and any number   *)
(* of loads: the passes of the loader and the globals they share.  Then    *)
(* about BpfMap, for any keys and any order of the buckets: the copy of a  *)
(* map that programs change.                                               *)
(***************************************************************************)
EXTENDS BpfLoad, TLAPS

\* What a compiler writes: sections, each relocation section for a program of its
\* own and referring to a map the file defines.
WellFormed ==
  \A f \in Files :
    /\ \E n \in Nat \ {0} : DOMAIN f = 1 .. n /\ Len(f) = n
    /\ \A r \in DOMAIN f : f[r].kind = "rel" =>
         /\ f[r].prog \in DOMAIN f /\ f[r].map \in 1 .. MaxMaps
         /\ \E s \in DOMAIN f : f[s].kind = "maps" /\ f[r].map <= f[s].maps
    /\ \A r, s \in DOMAIN f :
         f[r].kind = "rel" /\ f[s].kind = "rel" /\ f[r].prog = f[s].prog => r = s

-----------------------------------------------------------------------------
(* The inductive invariant: what each pass has done to the sections it has *)
(* passed.                                                                 *)

Passed == {s \in DOMAIN file : s < i}

Rel(r) == file[r].kind = "rel"

Given(t, x) == \E n \in DOMAIN t : t[n] = x

Once(t) == \A m, n \in DOMAIN t : t[m] = t[n] => m = n

MapsMade(P) ==
  \A s \in P : file[s].kind = "maps" =>
    \A m \in 1 .. MaxMaps : m <= file[s].maps => map_fd[m] = loads

Relocated(P) == \A r \in P : Rel(r) => file[r].prog \in processed

InTurn(P) == \A x : Given(tried, x) => \E r \in P : Rel(r) /\ file[r].prog = x

Rested(P) == \A s \in P : file[s].kind = "prog" /\ s \notin processed => Given(tried, s)

\* Why a program of this load is marked.
Explained ==
  \A s \in processed \ stale : s \in DOMAIN file /\ file[s].kind = "prog" =>
    \E r \in DOMAIN file : Rel(r) /\ file[r].prog = s

LoadTypes ==
  /\ loads \in Nat /\ map_fd \in [1 .. MaxMaps -> Nat] /\ tried \in Seq(Nat)
  /\ pc \in {"idle", "scan", "relocate", "rest", "exited"}
  /\ pc \in {"scan", "relocate", "rest"} => loads > 0 /\ i \in DOMAIN file
  /\ pc # "exited" /\ loads > 0 => file \in Files

LoadInv ==
  /\ LoadTypes
  /\ patched \subseteq {loads} /\ Once(tried)
  /\ pc # "exited" /\ loads > 0 => Explained
  /\ pc = "scan" => tried = << >> /\ MapsMade(Passed)
  /\ pc = "relocate" =>
       MapsMade(DOMAIN file) /\ Relocated(Passed) /\ InTurn(Passed)
  /\ pc = "rest" =>
       /\ Relocated(DOMAIN file) /\ Rested(Passed)
       /\ \A x : Given(tried, x) => x \in processed \/ x \in Passed
  /\ pc = "idle" /\ loads > 0 => Rested(DOMAIN file)

-----------------------------------------------------------------------------
(* Every step keeps it.                                                    *)

\* What a program appended to tried changes.
LEMMA AppendGiven ==
  ASSUME NEW t \in Seq(Nat), NEW s \in Nat
  PROVE  /\ Append(t, s) \in Seq(Nat)
         /\ \A x : Given(Append(t, s), x) <=> Given(t, x) \/ x = s
         /\ Once(t) /\ ~Given(t, s) => Once(Append(t, s))
<1>1. PICK n \in Nat : n = Len(t) /\ DOMAIN t = 1 .. n
  OBVIOUS
<1>2. Append(t, s) \in Seq(Nat)
  OBVIOUS
<1>3. PICK u : u = Append(t, s)
  BY Zenon
<1>4. /\ n + 1 \in DOMAIN u /\ u[n + 1] = s
      /\ \A m \in DOMAIN t : m \in DOMAIN u /\ u[m] = t[m]
      /\ \A m \in DOMAIN u : m = n + 1 \/ m \in DOMAIN t
      /\ n + 1 \notin DOMAIN t
  BY <1>1, <1>3
<1>5. \A x : Given(u, x) <=> Given(t, x) \/ x = s
  BY Zenon, <1>4 DEF Given
<1>6. ASSUME Once(t), ~Given(t, s)
      PROVE  Once(u)
  BY Zenon, <1>4, <1>6 DEF Once, Given
<1> QED
  BY Zenon, <1>2, <1>3, <1>5, <1>6

\* A pass goes on to the next section, or ends having been at all of them.
LEMMA AdvanceIs ==
  ASSUME WellFormed, file \in Files, i \in DOMAIN file, file' = file,
         NEW then, Advance(then)
  PROVE  /\ i' \in DOMAIN file /\ i \in Nat
         /\ \/ pc' = pc /\ Passed' = Passed \cup {i}
            \/ pc' = then /\ Passed' = {} /\ Passed \cup {i} = DOMAIN file
         /\ i \notin Passed
<1>1. PICK n \in Nat \ {0} : DOMAIN file = 1 .. n /\ Len(file) = n
  BY Zenon DEF WellFormed
<1>2. CASE i < n
  BY <1>1, <1>2 DEF Advance, Passed
<1>3. CASE ~(i < n)
  BY <1>1, <1>3 DEF Advance, Passed
<1> QED
  BY Zenon, <1>2, <1>3

\* bpf.cdef begins a load with nothing passed.
LEMMA CdefKeeps ==
  ASSUME WellFormed, LoadInv, NEW f \in Files, cdef(f)
  PROVE  LoadInv'
<1>1. /\ pc = "idle" /\ file' = f /\ i' = 1 /\ pc' = "scan" /\ loads' = loads + 1
      /\ tried' = << >> /\ patched' = {} /\ stale' = processed /\ processed' = processed
      /\ map_fd' = map_fd
  BY Zenon DEF cdef
<1>2. loads + 1 \in Nat /\ loads + 1 > 0
  BY DEF LoadInv, LoadTypes
<1>3. 1 \in DOMAIN f /\ Passed' = {}
  <2>1. PICK n \in Nat \ {0} : DOMAIN f = 1 .. n /\ Len(f) = n
    BY Zenon DEF WellFormed
  <2> QED
    BY <1>1, <2>1 DEF Passed
<1>4. << >> \in Seq(Nat) /\ Once(<< >>)
  BY DEF Once
<1>5. LoadTypes'
  BY Zenon, <1>1, <1>2, <1>3, <1>4 DEF LoadInv, LoadTypes
<1>6. MapsMade(Passed)' /\ Explained'
  BY Zenon, <1>1, <1>3 DEF MapsMade, Explained
<1> QED
  BY Zenon, <1>1, <1>4, <1>5, <1>6 DEF LoadInv

\* The first pass marks no program, and fills map_fd for this load.
LEMMA ScanKeeps ==
  ASSUME WellFormed, LoadInv, Scan
  PROVE  LoadInv'
<1>1. /\ pc = "scan" /\ Advance("relocate")
      /\ file' = file /\ loads' = loads /\ tried' = tried /\ patched' = patched /\ stale' = stale
      /\ processed' = IF Consumed(file[i].kind) THEN processed \cup {i} ELSE processed
      /\ map_fd' = IF file[i].kind = "maps"
                   THEN [m \in 1 .. MaxMaps |-> IF m <= file[i].maps THEN loads ELSE map_fd[m]]
                   ELSE map_fd
  BY Zenon DEF Scan, Sec, shark_create_bpf_map
<1>2. /\ LoadTypes /\ loads > 0 /\ i \in DOMAIN file /\ file \in Files
      /\ tried = << >> /\ MapsMade(Passed) /\ Explained /\ loads \in Nat
  BY Zenon, <1>1 DEF LoadInv, LoadTypes
<1>3. /\ i' \in DOMAIN file
      /\ \/ pc' = "scan" /\ Passed' = Passed \cup {i}
         \/ pc' = "relocate" /\ Passed' = {} /\ Passed \cup {i} = DOMAIN file
  BY Zenon, <1>1, <1>2, AdvanceIs
<1>4. map_fd' \in [1 .. MaxMaps -> Nat]
  BY Zenon, <1>1, <1>2 DEF LoadTypes
<1>5. LoadTypes'
  BY Zenon, <1>1, <1>2, <1>3, <1>4 DEF LoadTypes
<1>6. \A s \in Passed \cup {i} : file[s].kind = "maps" =>
        \A m \in 1 .. MaxMaps : m <= file[s].maps => map_fd'[m] = loads
  BY Zenon, <1>1, <1>2 DEF MapsMade
<1>7. Explained'
  <2>1. i \in processed' /\ i \notin processed => file[i].kind # "prog"
    BY Zenon, <1>1 DEF Consumed
  <2>2. \A s \in processed' : s \in processed \/ s = i
    BY Zenon, <1>1
  <2>3. \A s \in processed' \ stale : file[s].kind = "prog" => s \in processed
    BY Zenon, <2>1, <2>2
  <2>4. \A s \in processed' \ stale : s \in DOMAIN file /\ file[s].kind = "prog" =>
          \E r \in DOMAIN file : Rel(r) /\ file[r].prog = s
    BY Zenon, <1>2, <2>3 DEF Explained
  <2> QED
    BY Zenon, <1>1, <2>4 DEF Explained, Rel
<1>8. \A x : ~Given(tried, x)
  BY <1>2 DEF Given
<1>9. CASE pc' = "scan" /\ Passed' = Passed \cup {i}
  <2>1. MapsMade(Passed)'
    BY Zenon, <1>1, <1>6, <1>9 DEF MapsMade
  <2> QED
    BY Zenon, <1>1, <1>2, <1>5, <1>7, <1>9, <2>1 DEF LoadInv
<1>10. CASE pc' = "relocate" /\ Passed' = {} /\ Passed \cup {i} = DOMAIN file
  <2>1. MapsMade(DOMAIN file)'
    BY Zenon, <1>1, <1>6, <1>10 DEF MapsMade
  <2>2. Relocated(Passed)' /\ InTurn(Passed)'
    BY Zenon, <1>1, <1>8, <1>10 DEF Relocated, InTurn
  <2> QED
    BY Zenon, <1>1, <1>2, <1>5, <1>7, <1>10, <2>1, <2>2 DEF LoadInv
<1> QED
  BY Zenon, <1>3, <1>9, <1>10

\* The second pass marks the programs it was at, given to the kernel or not.
LEMMA RelocateKeeps ==
  ASSUME WellFormed, LoadInv, Relocate
  PROVE  LoadInv'
<1>1. /\ pc = "relocate" /\ Advance("rest")
      /\ file' = file /\ loads' = loads /\ stale' = stale /\ map_fd' = map_fd
      /\ \/ /\ Rel(i) /\ processed' = processed \cup {file[i].prog, i}
            /\ \/ /\ patched' = patched \cup {map_fd[file[i].map]}
                  /\ tried' = Append(tried, file[i].prog)
               \/ patched' = patched /\ tried' = tried
         \/ ~Rel(i) /\ processed' = processed /\ patched' = patched /\ tried' = tried
  BY Zenon DEF Relocate, Sec, Marked, load_and_attach, Rel
<1>2. /\ LoadTypes /\ loads > 0 /\ i \in DOMAIN file /\ file \in Files /\ tried \in Seq(Nat)
      /\ MapsMade(DOMAIN file) /\ Relocated(Passed) /\ InTurn(Passed) /\ Explained
      /\ patched \subseteq {loads} /\ Once(tried)
  BY Zenon, <1>1 DEF LoadInv, LoadTypes
<1>3. /\ i' \in DOMAIN file /\ i \in Nat /\ i \notin Passed
      /\ \/ pc' = "relocate" /\ Passed' = Passed \cup {i}
         \/ pc' = "rest" /\ Passed' = {} /\ Passed \cup {i} = DOMAIN file
  BY Zenon, <1>1, <1>2, AdvanceIs
<1>4. Rel(i) => /\ file[i].prog \in DOMAIN file /\ file[i].prog \in Nat
                  /\ map_fd[file[i].map] = loads /\ ~Given(tried, file[i].prog)
  <2> SUFFICES ASSUME Rel(i)
               PROVE  /\ file[i].prog \in DOMAIN file /\ file[i].prog \in Nat
                      /\ map_fd[file[i].map] = loads /\ ~Given(tried, file[i].prog)
    BY Zenon
  <2>1. PICK n \in Nat \ {0} : DOMAIN file = 1 .. n /\ Len(file) = n
    BY Zenon, <1>2 DEF WellFormed
  <2>2. file[i].prog \in DOMAIN file
    BY Zenon, <1>2 DEF WellFormed, Rel
  <2>3. file[i].prog \in Nat
    BY <2>1, <2>2
  <2>4. map_fd[file[i].map] = loads
    BY Zenon, <1>2 DEF WellFormed, Rel, MapsMade
  <2>5. ~Given(tried, file[i].prog)
    <3>1. \A r \in Passed : r \in DOMAIN file
      BY Zenon DEF Passed
    <3>2. \A r \in DOMAIN file : Rel(r) /\ file[r].prog = file[i].prog => r = i
      BY Zenon, <1>2 DEF WellFormed, Rel
    <3>3. Given(tried, file[i].prog) => \E r \in Passed : Rel(r) /\ file[r].prog = file[i].prog
      BY Zenon, <1>2 DEF InTurn
    <3> QED
      BY Zenon, <1>3, <3>1, <3>2, <3>3
  <2> QED
    BY Zenon, <2>2, <2>3, <2>4, <2>5
<1>5. /\ tried' \in Seq(Nat) /\ Once(tried)' /\ (patched \subseteq {loads})'
      /\ \A x : Given(tried', x) => Given(tried, x) \/ (Rel(i) /\ x = file[i].prog)
  <2>1. (patched \subseteq {loads})'
    BY Zenon, <1>1, <1>2, <1>4
  <2>2. CASE tried' = tried
    BY Zenon, <1>2, <2>1, <2>2 DEF Once
  <2>3. CASE Rel(i) /\ tried' = Append(tried, file[i].prog)
    <3>1. PICK u : u = Append(tried, file[i].prog)
      BY Zenon
    <3>2. /\ u \in Seq(Nat) /\ Once(u)
          /\ \A x : Given(u, x) <=> Given(tried, x) \/ x = file[i].prog
      BY Zenon, <1>2, <1>4, <2>3, <3>1, AppendGiven
    <3> QED
      BY Zenon, <2>1, <2>3, <3>1, <3>2 DEF Once
  <2> QED
    BY Zenon, <1>1, <2>2, <2>3
<1>6. \A r \in Passed \cup {i} : Rel(r) => file[r].prog \in processed'
  BY Zenon, <1>1, <1>2 DEF Relocated
<1>7. \A x : Given(tried', x) => \E r \in Passed \cup {i} : Rel(r) /\ file[r].prog = x
  BY Zenon, <1>2, <1>5 DEF InTurn
<1>8. Explained'
  <2>1. \A s \in processed' : s \in processed \/ (Rel(i) /\ s \in {file[i].prog, i})
    BY Zenon, <1>1
  <2>2. Rel(i) => file[i].kind # "prog"
    BY Zenon DEF Rel
  <2> QED
    BY Zenon, <1>1, <1>2, <2>1, <2>2 DEF Explained, Rel
<1>9. LoadTypes'
  BY Zenon, <1>1, <1>2, <1>3, <1>5 DEF LoadTypes
<1>10. CASE pc' = "relocate" /\ Passed' = Passed \cup {i}
  <2>1. MapsMade(DOMAIN file)'
    BY Zenon, <1>1, <1>2 DEF MapsMade
  <2>2. Relocated(Passed)' /\ InTurn(Passed)'
    BY Zenon, <1>1, <1>6, <1>7, <1>10 DEF Relocated, InTurn, Rel
  <2> QED
    BY Zenon, <1>5, <1>8, <1>9, <1>10, <2>1, <2>2 DEF LoadInv
<1>11. CASE pc' = "rest" /\ Passed' = {} /\ Passed \cup {i} = DOMAIN file
  <2>1. Relocated(DOMAIN file)'
    BY Zenon, <1>1, <1>6, <1>11 DEF Relocated, Rel
  <2>2. Rested(Passed)'
    BY Zenon, <1>11 DEF Rested
  <2>3. \A x : Given(tried', x) => x \in processed'
    BY Zenon, <1>6, <1>7
  <2> QED
    BY Zenon, <1>5, <1>8, <1>9, <1>11, <2>1, <2>2, <2>3 DEF LoadInv
<1> QED
  BY Zenon, <1>3, <1>10, <1>11

\* The third pass gives the kernel what is not marked.
LEMMA RestKeeps ==
  ASSUME WellFormed, LoadInv, Rest
  PROVE  LoadInv'
<1>1. /\ pc = "rest" /\ Advance("idle")
      /\ file' = file /\ loads' = loads /\ stale' = stale /\ map_fd' = map_fd
      /\ processed' = processed /\ patched' = patched
      /\ \/ i \notin processed /\ file[i].kind = "prog" /\ tried' = Append(tried, i)
         \/ ~(i \notin processed /\ file[i].kind = "prog") /\ tried' = tried
  BY Zenon DEF Rest, Sec, load_and_attach
<1>2. /\ LoadTypes /\ loads > 0 /\ i \in DOMAIN file /\ file \in Files /\ tried \in Seq(Nat)
      /\ Relocated(DOMAIN file) /\ Rested(Passed) /\ Explained
      /\ \A x : Given(tried, x) => x \in processed \/ x \in Passed
      /\ patched \subseteq {loads} /\ Once(tried)
  BY Zenon, <1>1 DEF LoadInv, LoadTypes
<1>3. /\ i' \in DOMAIN file /\ i \in Nat /\ i \notin Passed
      /\ \/ pc' = "rest" /\ Passed' = Passed \cup {i}
         \/ pc' = "idle" /\ Passed' = {} /\ Passed \cup {i} = DOMAIN file
  BY Zenon, <1>1, <1>2, AdvanceIs
<1>4. /\ tried' \in Seq(Nat) /\ Once(tried)'
      /\ \A x : Given(tried', x) => Given(tried, x) \/ x = i
      /\ \A x : Given(tried, x) => Given(tried', x)
      /\ i \notin processed /\ file[i].kind = "prog" => Given(tried', i)
  <2>1. CASE tried' = tried /\ ~(i \notin processed /\ file[i].kind = "prog")
    BY Zenon, <1>2, <2>1 DEF Once
  <2>2. CASE i \notin processed /\ tried' = Append(tried, i)
    <3>1. PICK u : u = Append(tried, i)
      BY Zenon
    <3>2. ~Given(tried, i)
      BY Zenon, <1>2, <1>3, <2>2
    <3>3. /\ u \in Seq(Nat) /\ Once(u)
          /\ \A x : Given(u, x) <=> Given(tried, x) \/ x = i
      BY Zenon, <1>2, <1>3, <3>1, <3>2, AppendGiven
    <3> QED
      BY Zenon, <2>2, <3>1, <3>3 DEF Once
  <2> QED
    BY Zenon, <1>1, <2>1, <2>2
<1>5. \A s \in Passed \cup {i} :
        file[s].kind = "prog" /\ s \notin processed => Given(tried', s)
  BY Zenon, <1>2, <1>4 DEF Rested
<1>6. LoadTypes' /\ Explained' /\ (patched \subseteq {loads})'
  BY Zenon, <1>1, <1>2, <1>3, <1>4 DEF LoadTypes, Explained, Rel
<1>7. CASE pc' = "rest" /\ Passed' = Passed \cup {i}
  <2>1. Relocated(DOMAIN file)' /\ Rested(Passed)'
    BY Zenon, <1>1, <1>2, <1>5, <1>7 DEF Relocated, Rested, Rel
  <2>2. \A x : Given(tried', x) => x \in processed' \/ x \in Passed'
    BY Zenon, <1>1, <1>2, <1>4, <1>7
  <2> QED
    BY Zenon, <1>4, <1>6, <1>7, <2>1, <2>2 DEF LoadInv
<1>8. CASE pc' = "idle" /\ Passed' = {} /\ Passed \cup {i} = DOMAIN file
  <2>1. Rested(DOMAIN file)'
    BY Zenon, <1>1, <1>5, <1>8 DEF Rested
  <2> QED
    BY Zenon, <1>4, <1>6, <1>8, <2>1 DEF LoadInv
<1> QED
  BY Zenon, <1>3, <1>7, <1>8

\* Every step of the loader keeps the invariant of its passes.
LEMMA LoadInductive ==
  ASSUME WellFormed
  PROVE  LoadInv /\ [Next]_(vars) => LoadInv'
<1> SUFFICES ASSUME LoadInv, [Next]_(vars)
             PROVE  LoadInv'
  OBVIOUS
<1>1. CASE LoadFails
  <2>1. /\ pc' = "exited" /\ loads' = loads /\ map_fd' = map_fd /\ tried' = tried
        /\ patched' = patched
    BY Zenon, <1>1 DEF LoadFails
  <2> QED
    BY Zenon, <2>1 DEF LoadInv, LoadTypes, Once
<1>2. CASE UNCHANGED vars
  <2>1. /\ pc' = pc /\ loads' = loads /\ map_fd' = map_fd /\ tried' = tried
        /\ patched' = patched /\ file' = file /\ i' = i /\ processed' = processed
        /\ stale' = stale
    BY Zenon, <1>2 DEF vars
  <2>2. LoadTypes' /\ Passed' = Passed /\ (Once(tried)' <=> Once(tried))
    BY Zenon, <2>1 DEF LoadInv, LoadTypes, Passed, Once
  <2>3. /\ Explained' <=> Explained
        /\ MapsMade(Passed)' <=> MapsMade(Passed)
        /\ MapsMade(DOMAIN file)' <=> MapsMade(DOMAIN file)
    <3>1. Explained' <=> Explained
      BY <2>1 DEF Explained, Rel
    <3>2. MapsMade(Passed)' <=> MapsMade(Passed)
      BY Zenon, <2>1, <2>2 DEF MapsMade
    <3>3. MapsMade(DOMAIN file)' <=> MapsMade(DOMAIN file)
      BY Zenon, <2>1 DEF MapsMade
    <3> QED
      BY Zenon, <3>1, <3>2, <3>3
  <2>4. /\ Relocated(Passed)' <=> Relocated(Passed)
        /\ Relocated(DOMAIN file)' <=> Relocated(DOMAIN file)
        /\ InTurn(Passed)' <=> InTurn(Passed)
    BY Zenon, <2>1, <2>2 DEF Relocated, InTurn, Rel, Given
  <2>5. /\ Rested(Passed)' <=> Rested(Passed)
        /\ Rested(DOMAIN file)' <=> Rested(DOMAIN file)
        /\ \A x : Given(tried, x)' <=> Given(tried, x)
    BY Zenon, <2>1, <2>2 DEF Rested, Given
  <2> QED
    BY Zenon, <2>1, <2>2, <2>3, <2>4, <2>5 DEF LoadInv
<1> QED
  BY Zenon, <1>1, <1>2, CdefKeeps, ScanKeeps, RelocateKeeps, RestKeeps DEF Next, Done

\* The invariant of the passes of load_bpf_file holds in any series of loads.
LEMMA LoadInvHolds ==
  ASSUME WellFormed
  PROVE  Spec => []LoadInv
<1>1. Init => LoadInv
  <2> SUFFICES ASSUME Init PROVE LoadInv
    OBVIOUS
  <2>1. << >> \in Seq(Nat) /\ Once(<< >>) /\ 0 \in Nat /\ ~(0 > 0)
    BY DEF Once
  <2>2. LoadTypes
    BY Zenon, <2>1 DEF Init, LoadTypes
  <2> QED
    BY Zenon, <2>1, <2>2 DEF Init, LoadInv
<1> QED
  BY <1>1, LoadInductive, PTL DEF Spec

\* OwnMaps: in any series of loads of well-formed files, the maps a program is
\* relocated to are those its own load created, never what map_fd kept of an
\* earlier one.
THEOREM RelocatedToOwnMaps ==
  ASSUME WellFormed
  PROVE  Spec => []OwnMaps
<1>1. LoadInv => OwnMaps
  BY Zenon DEF LoadInv, OwnMaps
<1> QED
  BY <1>1, LoadInvHolds, PTL

\* EachOnce: in any series of loads of well-formed files, no program is given to
\* the kernel by both passes, and the last pass comes to every program without
\* relocations whose index no earlier load left in processed_sec.
THEOREM ProgramsGivenOnce ==
  ASSUME WellFormed
  PROVE  Spec => []EachOnce
<1>1. LoadInv => EachOnce
  <2> SUFFICES ASSUME LoadInv PROVE EachOnce
    OBVIOUS
  <2>1. Once(tried)
    BY Zenon DEF LoadInv
  <2>2. ASSUME Loaded, NEW s \in DOMAIN file \ stale, file[s].kind = "prog",
               \A r \in DOMAIN file : file[r].kind = "rel" => file[r].prog # s
        PROVE  \E n \in DOMAIN tried : tried[n] = s
    <3>1. pc = "idle" /\ loads > 0
      BY Zenon, <2>2 DEF Loaded
    <3>2. Explained /\ Rested(DOMAIN file)
      BY Zenon, <3>1 DEF LoadInv
    <3>3. s \notin processed
      BY Zenon, <2>2, <3>2 DEF Explained, Rel
    <3> QED
      BY Zenon, <2>2, <3>2, <3>3 DEF Rested, Given
  <2> QED
    BY Zenon, <2>1, <2>2 DEF EachOnce, Once
<1> QED
  BY <1>1, LoadInvHolds, PTL

-----------------------------------------------------------------------------
(* BpfMap: copy_map copies what stays in the map, for any keys, any order  *)
(* of the buckets and any changes by the programs.                         *)

CONSTANTS Keys, Before, MaxEntries, MaxDeletes
VARIABLES map, copy_pc, key, new, present, from0, deletes

Copy == INSTANCE BpfMap WITH pc <- copy_pc

\* The buckets put the keys in a line, and any of them have a first one.
Buckets ==
  /\ Before \in [Keys -> SUBSET Keys]
  /\ \A j, k \in Keys : j \in Before[k] => k \notin Before[j]
  /\ \A j, k \in Keys : j = k \/ j \in Before[k] \/ k \in Before[j]
  /\ \A S \in SUBSET Keys : S # {} => \E k \in S : \A j \in S \ {k} : k \in Before[j]

\* Inductive: the keys that stayed and that the walk has passed are copied.
CopyInv ==
  /\ map \subseteq Keys /\ present \subseteq map
  /\ new \in [Keys -> {"nil", "value", "garbage"}]
  /\ copy_pc \in {"done", "first", "index", "next"}
  /\ copy_pc = "first" => key = 0
  /\ copy_pc \in {"index", "next"} => key \in Keys
  /\ \A k \in present : Copy!Reached(k) =>
       /\ copy_pc = "done" => new[k] = "value"
       /\ copy_pc = "next" /\ k = key => new[k] = "value"
       /\ copy_pc \in {"index", "next"} /\ k \in Before[key] => new[k] = "value"

\* What bpf_get_next_key answers: nothing when no key is left, else the first.
LEMMA NextKey ==
  ASSUME Buckets, map \subseteq Keys, NEW k
  PROVE  LET rest == IF k \in map THEN {j \in map : k \in Before[j]} ELSE map
         IN  \/ rest = {} /\ Copy!bpf_get_next_key(k) = {}
             \/ \E f \in rest : /\ Copy!bpf_get_next_key(k) = {f}
                                /\ \A j \in rest \ {f} : f \in Before[j]
<1> DEFINE rest == IF k \in map THEN {j \in map : k \in Before[j]} ELSE map
<1>1. rest \in SUBSET Keys
  BY Zenon
<1>2. Copy!bpf_get_next_key(k) = IF rest = {} THEN {} ELSE {Copy!First(rest)}
  BY Zenon DEF Copy!bpf_get_next_key
<1> HIDE DEF rest
<1>3. rest # {} => /\ Copy!First(rest) \in rest
                   /\ \A j \in rest \ {Copy!First(rest)} : Copy!First(rest) \in Before[j]
  BY Zenon, <1>1 DEF Copy!First, Buckets
<1>4. \/ rest = {} /\ Copy!bpf_get_next_key(k) = {}
      \/ \E f \in rest : /\ Copy!bpf_get_next_key(k) = {f}
                         /\ \A j \in rest \ {f} : f \in Before[j]
  BY Zenon, <1>2, <1>3
<1> QED
  BY Zenon, <1>4 DEF rest

\* A step of pairs leaves behind only keys that are gone, new or copied.
LEMMA PairsNextKeeps ==
  ASSUME Buckets, CopyInv, Copy!PairsNext
  PROVE  CopyInv'
<1> DEFINE rest == IF key \in map THEN {j \in map : key \in Before[j]} ELSE map
<1>1. /\ copy_pc \in {"first", "next"} /\ from0' = (IF copy_pc = "first" THEN 0 \in map ELSE from0)
      /\ \/ Copy!bpf_get_next_key(key) = {} /\ copy_pc' = "done" /\ key' = key
         \/ \E k \in Copy!bpf_get_next_key(key) : copy_pc' = "index" /\ key' = k
      /\ map' = map /\ new' = new /\ present' = present
  BY Zenon DEF Copy!PairsNext, Copy!map_next_func
<1>2. map \subseteq Keys /\ present \subseteq map
  BY Zenon DEF CopyInv
<1>3. \/ rest = {} /\ copy_pc' = "done" /\ key' = key
      \/ /\ copy_pc' = "index" /\ key' \in rest
         /\ \A j \in rest \ {key'} : key' \in Before[j]
  <2>1. \/ rest = {} /\ Copy!bpf_get_next_key(key) = {}
        \/ \E f \in rest : /\ Copy!bpf_get_next_key(key) = {f}
                           /\ \A j \in rest \ {f} : f \in Before[j]
    BY Zenon, <1>2, NextKey
  <2> HIDE DEF rest
  <2> QED
    BY Zenon, <1>1, <2>1
<1>4. rest \subseteq map
  BY Zenon
\* What stayed and is left behind was copied.
<1>5. ASSUME NEW k \in present, Copy!Reached(k)', k \notin rest
      PROVE  new[k] = "value"
  <2>1. key \in map /\ key \notin Before[k] /\ k \in map
    BY Zenon, <1>2, <1>5
  <2>2. CASE copy_pc = "first"
    BY Zenon, <1>1, <2>1, <2>2, <1>5 DEF CopyInv, Copy!Reached
  <2>3. CASE copy_pc = "next"
    <3>1. Copy!Reached(k)
      BY Zenon, <1>1, <1>5, <2>3 DEF Copy!Reached
    <3>2. k = key \/ k \in Before[key]
      BY Zenon, <1>2, <2>1 DEF Buckets
    <3> QED
      BY Zenon, <2>3, <3>1, <3>2 DEF CopyInv
  <2> QED
    BY Zenon, <1>1, <2>2, <2>3
<1> HIDE DEF rest
<1>6. ASSUME NEW k \in present, copy_pc' = "index", k \in Before[key']
      PROVE  k \notin rest
  BY Zenon, <1>2, <1>3, <1>4, <1>6 DEF Buckets
<1>7. /\ map' \subseteq Keys /\ present' \subseteq map'
      /\ new' \in [Keys -> {"nil", "value", "garbage"}]
      /\ copy_pc' \in {"done", "first", "index", "next"}
      /\ copy_pc' = "first" => key' = 0
      /\ copy_pc' \in {"index", "next"} => key' \in Keys
  BY Zenon, <1>1, <1>2, <1>3, <1>4 DEF CopyInv
<1>8. ASSUME NEW k \in present, Copy!Reached(k)'
      PROVE  /\ copy_pc' = "done" => new[k] = "value"
             /\ copy_pc' = "next" /\ k = key' => new[k] = "value"
             /\ copy_pc' \in {"index", "next"} /\ k \in Before[key'] => new[k] = "value"
  BY Zenon, <1>3, <1>5, <1>6, <1>8
<1> QED
  BY Zenon, <1>1, <1>7, <1>8 DEF CopyInv

\* Every step of copy_map and of the programs keeps the invariant of the walk.
LEMMA CopyInductive ==
  ASSUME Buckets
  PROVE  CopyInv /\ [Copy!Next]_(Copy!vars) => CopyInv'
<1> SUFFICES ASSUME CopyInv, [Copy!Next]_(Copy!vars)
             PROVE  CopyInv'
  OBVIOUS
<1>1. ASSUME NEW k \in Keys, Copy!Update(k)
      PROVE  CopyInv'
  BY Zenon, <1>1 DEF Copy!Update, Copy!bpf_update_elem, CopyInv, Copy!Reached
<1>2. ASSUME NEW k \in Keys, Copy!Delete(k)
      PROVE  CopyInv'
  BY Zenon, <1>2 DEF Copy!Delete, Copy!bpf_delete_elem, CopyInv, Copy!Reached
<1>3. CASE Copy!mt_pairs
  BY Zenon, <1>3 DEF Copy!mt_pairs, Copy!FromNil, CopyInv, Copy!Reached
<1>4. CASE Copy!mt_index
  <2>1. /\ copy_pc = "index" /\ copy_pc' = "next"
        /\ new' = [new EXCEPT ![key] = IF key \in map THEN "value" ELSE "garbage"]
        /\ map' = map /\ key' = key /\ present' = present /\ from0' = from0
    BY Zenon, <1>4 DEF Copy!mt_index, Copy!map_index_func
  <2>2. key \in Keys /\ map \subseteq Keys /\ present \subseteq map
    BY Zenon, <2>1 DEF CopyInv
  <2>3. new' \in [Keys -> {"nil", "value", "garbage"}]
    BY Zenon, <2>1, <2>2 DEF CopyInv
  <2>4. ASSUME NEW k \in present, Copy!Reached(k), k = key \/ k \in Before[key]
        PROVE  new'[k] = "value"
    BY Zenon, <2>1, <2>2, <2>4 DEF CopyInv
  <2> QED
    BY Zenon, <2>1, <2>2, <2>3, <2>4 DEF CopyInv, Copy!Reached
<1>5. CASE UNCHANGED Copy!vars
  BY Zenon, <1>5 DEF Copy!vars, CopyInv, Copy!Reached
<1> QED
  BY Zenon, <1>1, <1>2, <1>3, <1>4, <1>5, PairsNextKeeps DEF Copy!Next, Copy!CopyStep

\* RestCopied: whatever the programs in the kernel add and delete while copy_map
\* walks the map with pairs, the key it stands on included, at the end every key
\* that stayed and lies behind the start has its value, for any order of the
\* buckets.
THEOREM WhatStaysIsCopied ==
  ASSUME Buckets
  PROVE  Copy!Spec => []Copy!RestCopied
<1>1. Copy!Init => CopyInv
  BY Zenon DEF Copy!Init, CopyInv
<1>2. CopyInv => Copy!RestCopied
  BY Zenon DEF CopyInv, Copy!RestCopied
<1> QED
  BY <1>1, <1>2, CopyInductive, PTL DEF Copy!Spec

==============================================================================
