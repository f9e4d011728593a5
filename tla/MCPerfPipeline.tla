--------------------------- MODULE MCPerfPipeline ---------------------------
(***************************************************************************)
(* PerfPipeline for TLC, with the properties that sum over the rings.      *)
(***************************************************************************)
EXTENDS PerfImplements, FiniteSetsExt, TLC

\* No step tells one handle from another.
Symmetry == Permutations(Handles)

LostRecorded(r) ==
  MapThenSumSet(LAMBDA n : data[r][n].n, prev[r] + 1 .. Len(data[r]))

\* The statistics printed at the end add up: stats.samples_num counts the
\* calls of the callbacks, stats.flush_num those made by the flush, and
\* every record the kernel dropped is in stats.lost_num once its LOST record
\* is read.
StatsAddUp ==
  /\ samples_num = MapThenSumSet(LAMBDA r : Len(log[r]), Rings)
  /\ pc = "notify" => flush_num + polled_num = samples_num
  /\ dropped = lost_num + MapThenSumSet(LAMBDA r : lost[r] + LostRecorded(r),
                                        Rings)

=============================================================================
