------------------------------- MODULE BpfMap -------------------------------
(***************************************************************************)
(* A bpf map seen from Lua (bpf/bpf.c, the generated functions of          *)
(* bpf_map_index_func.h, bpf_map_newindex_func.h and bpf_map_next_func.h,  *)
(* and copy_map of bpf.lua): the script walks the map with pairs, one      *)
(* system call at a time, while bpf programs in the kernel change it.      *)
(***************************************************************************)
EXTENDS Naturals, FiniteSets

CONSTANTS
  Keys,       \* keys that occur: numbers
  Before,     \* Before[k]: the keys that lie before k in the buckets
  MaxEntries, \* room in the map
  MaxDeletes  \* bound on deletions

VARIABLES
  map,       \* the keys in the map
  pc,        \* where copy_map is
  key,       \* its k
  new,       \* its new table: "nil", the "value" of a key, or "garbage"
  present,   \* history: keys in the map ever since the walk began
  from0,     \* history: was key 0 in the map at the first step?
  deletes    \* deletions

vars == <<map, pc, key, new, present, from0, deletes>>

Init ==
  /\ map = {}
  /\ pc = "done" /\ key = 0
  /\ new = [k \in Keys |-> "nil"]
  /\ present = {} /\ from0 = FALSE
  /\ deletes = 0

-----------------------------------------------------------------------------
(* The system calls.                                                       *)

\* A full map takes no new key.
bpf_update_elem(k) == Cardinality(map \cup {k}) <= MaxEntries /\ map' = map \cup {k}

bpf_delete_elem(k) == k \in map /\ map' = map \ {k}

\* The first of these keys in the order of the buckets.  A bucket has one key: of
\* several, the kernel would move the one that is updated to the front.
First(S) == CHOOSE k \in S : \A j \in S \ {k} : k \in Before[j]

\* The key after k, as a set of none or one; a key that is not in the map is
\* followed by the first key.
bpf_get_next_key(k) ==
  LET rest == IF k \in map THEN {j \in map : k \in Before[j]} ELSE map
  IN  IF rest = {} THEN {} ELSE {First(rest)}

\* A program in the kernel, or the script through __newindex, writes ...
Update(k) ==
  /\ bpf_update_elem(k)
  /\ UNCHANGED <<pc, key, new, present, from0, deletes>>

\* ... and deletes.
Delete(k) ==
  /\ deletes < MaxDeletes /\ bpf_delete_elem(k)
  /\ present' = present \ {k}
  /\ deletes' = deletes + 1
  /\ UNCHANGED <<pc, key, new, from0>>

-----------------------------------------------------------------------------
(* copy_map: for k in pairs(map) do new[k] = map[k] end.                   *)

\* lua_tonumber(nil).
FromNil == 0

mt_pairs ==
  /\ pc = "done"
  /\ pc' = "first" /\ key' = FromNil
  /\ new' = [k \in Keys |-> "nil"]
  /\ present' = map
  /\ UNCHANGED <<map, from0, deletes>>

map_next_func(k) == bpf_get_next_key(k)

PairsNext ==
  /\ pc \in {"first", "next"}
  /\ from0' = IF pc = "first" THEN 0 \in map ELSE from0
  /\ \/ map_next_func(key) = {} /\ pc' = "done" /\ UNCHANGED key
     \/ \E k \in map_next_func(key) : pc' = "index" /\ key' = k
  /\ UNCHANGED <<map, new, present, deletes>>

\* Mutant: the value is looked up for the key the walk began with.
LookupFirst(k) == IF FromNil \in map THEN "value" ELSE "garbage"

\* val is not initialised, and stays so if the key is gone.
map_index_func(k) == IF k \in map THEN "value" ELSE "garbage"

mt_index ==
  /\ pc = "index" /\ pc' = "next"
  /\ new' = [new EXCEPT ![key] = map_index_func(key)]
  /\ UNCHANGED <<map, key, present, from0, deletes>>

CopyStep == PairsNext \/ mt_index

Next ==
  \/ \E k \in Keys : Update(k) \/ Delete(k)
  \/ mt_pairs \/ CopyStep

Spec == Init /\ [][Next]_vars

-----------------------------------------------------------------------------
(* Properties.                                                             *)

\* What the walk reaches: from a nil key it starts behind key 0.
Reached(k) == from0 => 0 \in Before[k]

\* At the end of copy_map every key that was in the map all the time and lies
\* behind the start has its value, though programs add and delete other keys
\* during the walk, the one it stands on included: "get real 'v' by indexing
\* again" (README.md).
RestCopied ==
  pc = "done" => \A k \in present : Reached(k) => new[k] = "value"

\* The walk "for k in pairs(bpf.var.map)" of README.md and print_map: it comes
\* to every key that is in the map from its beginning to its end.
PairsComplete == pc = "done" => \A k \in present : new[k] # "nil"

=============================================================================
