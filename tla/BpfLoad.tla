------------------------------- MODULE BpfLoad -------------------------------
(***************************************************************************)
(* The loader behind bpf.cdef (bpf/libbpf/bpf_load.c, shark_create_bpf_map *)
(* of bpf/bpf.c): three passes over the sections of an object file, with   *)
(* the loader's global variables, which outlive a load.                    *)
(***************************************************************************)
EXTENDS Naturals, Sequences, FiniteSets

CONSTANTS
  Files,    \* object files: sequences of sections
  MaxMaps,  \* MAX_MAPS, the size of map_fd
  MaxLoads  \* bound on calls of bpf.cdef

\* A section has a kind: "license", "version", "maps", "prog", "rel" or "other"; a
\* "rel" section names the program it is for and the map it refers to, and a
\* "maps" section says how many maps it defines.

VARIABLES
  processed, \* processed_sec
  map_fd,    \* for every index the load that created the map, 0 for none
  prog_fd,   \* prog_fd[0 .. prog_cnt - 1]: load and section of a program
  event_fd,  \* for some indices the program whose kprobe it is
  global,    \* is _G["bpf"] set?
  pc,        \* the pass
  i,         \* the section
  file,      \* the object file
  loads,     \* calls of bpf.cdef
  tried,     \* history: programs of this load given to load_and_attach
  patched,   \* history: loads whose maps a program of this load refers to
  stale      \* history: processed_sec when this load began

vars == <<processed, map_fd, prog_fd, event_fd, global, pc, i, file, loads,
          tried, patched, stale>>

Init ==
  /\ processed = {} /\ map_fd = [m \in 1 .. MaxMaps |-> 0]
  /\ prog_fd = << >> /\ event_fd = << >>
  /\ global = FALSE /\ pc = "idle" /\ i = 1 /\ file = << >> /\ loads = 0
  /\ tried = << >> /\ patched = {} /\ stale = {}

Sec == file[i]

cdef(f) ==
  /\ pc = "idle" /\ loads < MaxLoads
  /\ file' = f /\ i' = 1 /\ pc' = "scan" /\ loads' = loads + 1
  /\ global' = TRUE
  /\ tried' = << >> /\ patched' = {} /\ stale' = processed
  /\ UNCHANGED <<processed, map_fd, prog_fd, event_fd>>

\* A file that cannot be read, a version of the wrong size, or maps that cannot be
\* created: load_bpf_file returns 1 and the script exits.
LoadFails ==
  /\ pc = "scan" /\ (i = 1 \/ Sec.kind \in {"version", "maps"})
  /\ pc' = "exited"
  /\ UNCHANGED <<processed, map_fd, prog_fd, event_fd, global, i, file, loads,
                 tried, patched, stale>>

\* The next section, or the next pass.
Advance(then) ==
  IF i < Len(file) THEN i' = i + 1 /\ UNCHANGED pc ELSE i' = 1 /\ pc' = then

\* Mutant: maps are created after those of earlier loads.
KeepMaps(n) == [m \in 1 .. MaxMaps |-> IF map_fd[m] = 0 /\ m <= n THEN loads ELSE map_fd[m]]

shark_create_bpf_map(n) == [m \in 1 .. MaxMaps |-> IF m <= n THEN loads ELSE map_fd[m]]

Consumed(k) == k \in {"license", "version", "maps"}

\* License, version, and maps.
Scan ==
  /\ pc = "scan"
  /\ Advance("relocate")
  /\ processed' = IF Consumed(Sec.kind) THEN processed \cup {i} ELSE processed
  /\ IF Sec.kind = "maps"
     THEN map_fd' = shark_create_bpf_map(Sec.maps) /\ global' = FALSE
     ELSE UNCHANGED <<map_fd, global>>
  /\ UNCHANGED <<prog_fd, event_fd, file, loads, tried, patched, stale>>

\* event_fd[prog_cnt - 1], after the program was counted.
EventIndex(n) == n + 1

\* The program is refused, or loaded without its kprobe, or attached.
load_and_attach(s) ==
  /\ tried' = Append(tried, s)
  /\ \/ UNCHANGED <<prog_fd, event_fd>>
     \/ /\ prog_fd' = Append(prog_fd, <<loads, s>>)
        /\ \/ UNCHANGED event_fd
           \/ event_fd' = [n \in DOMAIN event_fd \cup {EventIndex(Len(prog_fd))} |->
                             IF n = EventIndex(Len(prog_fd)) THEN <<loads, s>>
                             ELSE event_fd[n]]

\* Mutant: only the relocation section is marked.
MarkRel == {i}

Marked == {Sec.prog, i}

\* Programs that use maps: parse_relo_and_apply may find an invalid instruction.
Relocate ==
  /\ pc = "relocate"
  /\ Advance("rest")
  /\ IF Sec.kind = "rel"
     THEN /\ processed' = processed \cup Marked
          /\ \/ /\ patched' = patched \cup {map_fd[Sec.map]}
                /\ load_and_attach(Sec.prog)
             \/ UNCHANGED <<prog_fd, event_fd, tried, patched>>
     ELSE UNCHANGED <<processed, prog_fd, event_fd, tried, patched>>
  /\ UNCHANGED <<map_fd, global, file, loads, stale>>

\* Programs that do not.
Rest ==
  /\ pc = "rest"
  /\ Advance("idle")
  /\ IF i \notin processed /\ Sec.kind = "prog"
     THEN load_and_attach(i)
     ELSE UNCHANGED <<prog_fd, event_fd, tried>>
  /\ UNCHANGED <<processed, map_fd, global, file, loads, patched, stale>>

\* The script runs on, or os.exit ended it.
Done == (pc = "exited" \/ (pc = "idle" /\ loads = MaxLoads)) /\ UNCHANGED vars

Next ==
  \/ \E f \in Files : cdef(f)
  \/ LoadFails \/ Scan \/ Relocate \/ Rest \/ Done

Spec == Init /\ [][Next]_vars

-----------------------------------------------------------------------------
(* Properties.                                                             *)

Loaded == pc = "idle" /\ loads > 0

\* The second and third pass share the programs among them by processed_sec: none
\* is given to the kernel twice, with its relocations and again without them, and
\* "load programs that don't use maps" (bpf_load.c) comes to every program that
\* has none, but for those at an index an earlier load marked in processed_sec.
EachOnce ==
  /\ \A m, n \in DOMAIN tried : tried[m] = tried[n] => m = n
  /\ Loaded => \A s \in DOMAIN file \ stale :
       /\ file[s].kind = "prog"
       /\ \A r \in DOMAIN file : file[r].kind = "rel" => file[r].prog # s
       => \E n \in DOMAIN tried : tried[n] = s

\* A program refers to maps of its own file, created before its relocation and
\* not left in map_fd by an earlier load.
OwnMaps == patched \subseteq {loads}

=============================================================================
