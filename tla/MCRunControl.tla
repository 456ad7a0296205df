---------------------------- MODULE MCRunControl ----------------------------
(***************************************************************************)
(* Values for model checking RunControl.                                   *)
(***************************************************************************)
EXTENDS RunControl, TLC

CONSTANTS s1, s2, c1  \* two stages of the plan and a cleanup stage

Symmetry == Permutations(Runs) \cup Permutations(Missions) \cup Permutations(Robots)

\* Frames that say nothing of the stages, for the runs whose subject they are not.
Silent == [s \in {} |-> "RUNNING"]
NoStageReports == {Silent}

\* A frame before the first stage, one of both stages, and one of a cancelled
\* first stage whose cleanup runs.
MCStages == {s1, s2, c1}
MCCleanup == {c1}
MCStageReports ==
    {Silent,
     [s \in {s1, s2} |-> IF s = s1 THEN "FINISHED" ELSE "RUNNING"],
     [s \in {s1, c1} |-> IF s = s1 THEN "CANCELLED" ELSE "RUNNING"]}
=============================================================================
