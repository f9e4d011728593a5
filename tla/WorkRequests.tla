---------------------------- MODULE WorkRequests ----------------------------
(***************************************************************************)
(* What the thread pool promises of a work request, whatever its threads   *)
(* do: it is run at most once and never after it was cancelled, it is not  *)
(* cancelled once it runs, and it is reported once, with the outcome.      *)
(***************************************************************************)
CONSTANT Reqs

VARIABLE phase

Init == phase = [r \in Reqs |-> "new"]

Move(r, from, to) == phase[r] = from /\ phase' = [phase EXCEPT ![r] = to]

Queue(r)  == Move(r, "new", "queued")
Start(r)  == Move(r, "queued", "running")
Finish(r) == Move(r, "running", "ran")
Cancel(r) == Move(r, "queued", "cancelled")
Report(r) == Move(r, "ran", "ok") \/ Move(r, "cancelled", "ECANCELED")

Next == \E r \in Reqs : Queue(r) \/ Start(r) \/ Finish(r) \/ Cancel(r) \/ Report(r)

Spec == Init /\ [][Next]_phase

=============================================================================
