--------------------------- MODULE PerfImplements ---------------------------
(***************************************************************************)
(* PerfPipeline implements PerfSched: seen from the scheduler, a ring is   *)
(* the number of its unread records, mmap_read_top is one step, and the    *)
(* records of the model of the pipeline carry nothing that changes who     *)
(* runs next.                                                              *)
(***************************************************************************)
EXTENDS PerfPipeline

openedBar == {h \in Handles : evlist[h] # "closed"}
enabledBar == {h \in Handles : evlist[h] = "enabled"}
unreadBar == [r \in Rings |-> Len(data[r]) - prev[r]]
heldBar == IF pc \in {"callback", "consume"} THEN idx ELSE 0
nr_readBar == IF flushing THEN 0 ELSE nr_read

Sched == INSTANCE PerfSched WITH
  opened <- openedBar, enabled <- enabledBar, unread <- unreadBar,
  poll <- Readable, held <- heldBar, nr_read <- nr_readBar

\* Every step of the pipeline is a step of the scheduling specification or
\* leaves the schedule as it is: in particular a poll callback reads at most
\* read_events_rate records, a record being processed still occupies its
\* ring, and after the signal no ring is left out of the flush.
ImplementsSched == Sched!SafeSpec

=============================================================================
