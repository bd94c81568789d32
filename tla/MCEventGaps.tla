------------------------------ MODULE MCEventGaps ------------------------------
(* EventGaps with scenarios that are small, as what was missed and heard     *)
(* multiplies the states, and windows of one instant, so that several follow *)
(* a gap.                                                                    *)
EXTENDS EventGaps, MCEventRun

\* A TID that is reused, after a slow record or a full ring.
ReusedGap == Scenario({1}, 2, 0, TRUE, 2, 1, 4, 3, Common)

\* Two threads, of which one can miss events that the other does not.
TwoThreadGap == Scenario({1, 2}, 10, 0, FALSE, 1, 1, 4, 3, Common)

GapScenarios == {ReusedGap, TwoThreadGap}
=============================================================================
