----------------------------- MODULE UvWatchers -----------------------------
(***************************************************************************)
(* The idle, prepare and check handles of libuv (src/unix/loop-watcher.c): *)
(* uv__run_idle walks an intrusive list (src/queue.h) whose links the      *)
(* callbacks change under it.                                              *)
(***************************************************************************)
CONSTANTS
  Handles,
  ListHead, \* &loop->idle_handles
  Derail    \* may a callback change the list after it stopped its own handle?

None == "none"
Nodes == Handles \cup {ListHead}

VARIABLES
  next, prev, \* the links of a QUEUE
  active,     \* handles with UV__HANDLE_ACTIVE
  q,          \* the node uv__run_idle is at, or None outside of it
  in_cb,      \* does the callback of q run?
  due,        \* history: active since the walk began and not called
  called      \* history: called during the walk

vars == <<next, prev, active, q, in_cb, due, called>>

Init ==
  /\ next = [n \in Nodes |-> IF n = ListHead THEN ListHead ELSE None]
  /\ prev = next
  /\ active = {} /\ q = None /\ in_cb = FALSE
  /\ due = {} /\ called = {}

\* The script changes the list, in the callback of a watcher or elsewhere.  When
\* it stopped the handle it is called for, the walk stands on a removed node.
Script == q = None \/ (in_cb /\ (q \in active \/ Derail))

QUEUE_INSERT_HEAD(h) ==
  /\ next' = [next EXCEPT ![h] = next[ListHead], ![ListHead] = h]
  /\ prev' = [prev EXCEPT ![h] = ListHead, ![next[ListHead]] = h]

\* Mutant: only one neighbour is told.
OneSided(h) ==
  /\ next' = [next EXCEPT ![prev[h]] = next[h]]
  /\ UNCHANGED prev

\* The removed node keeps its links.
QUEUE_REMOVE(h) ==
  /\ next' = [next EXCEPT ![prev[h]] = next[h]]
  /\ prev' = [prev EXCEPT ![next[h]] = prev[h]]

uv_idle_start(h) ==
  /\ Script /\ h \notin active
  /\ QUEUE_INSERT_HEAD(h)
  /\ active' = active \cup {h}
  /\ UNCHANGED <<q, in_cb, due, called>>

uv_idle_stop(h) ==
  /\ Script /\ h \in active
  /\ QUEUE_REMOVE(h)
  /\ active' = active \ {h}
  /\ due' = due \ {h}
  /\ UNCHANGED <<q, in_cb, called>>

-----------------------------------------------------------------------------
(* uv__run_idle.                                                           *)

RunIdle ==
  /\ q = None
  /\ q' = next[ListHead]
  /\ due' = active /\ called' = {}
  /\ UNCHANGED <<next, prev, active, in_cb>>

Callback ==
  /\ q \in Handles /\ ~in_cb
  /\ in_cb' = TRUE
  /\ due' = due \ {q} /\ called' = called \cup {q}
  /\ UNCHANGED <<next, prev, active, q>>

QUEUE_NEXT == next[q]

CallbackReturns ==
  /\ in_cb /\ in_cb' = FALSE
  /\ q' = QUEUE_NEXT
  /\ UNCHANGED <<next, prev, active, due, called>>

RunDone ==
  /\ q = ListHead
  /\ q' = None
  /\ UNCHANGED <<next, prev, active, in_cb, due, called>>

Walk == Callback \/ CallbackReturns \/ RunDone

Next ==
  \/ \E h \in Handles : uv_idle_start(h) \/ uv_idle_stop(h)
  \/ RunIdle \/ Walk

Spec == Init /\ [][Next]_vars

-----------------------------------------------------------------------------
(* Properties.                                                             *)

\* "Idle handles will run the given callback once per loop iteration"
\* (docs/src/idle.rst): a walk calls only handles that are active, none of them
\* twice, and has called whoever was active all the time when it ends, whatever
\* its callbacks start and stop before they stop their own handle.
WalkExact ==
  [][/\ in_cb' /\ ~in_cb => q \in active \ called
     /\ RunDone => due = {}]_vars

\* "Stop the handle, the callback will no longer be called" (docs/src/idle.rst, and
\* so for prepare and check): uv__run_idle calls no handle that is stopped.
StoppedNotCalled == [][in_cb' /\ ~in_cb => q \in active]_vars

=============================================================================
