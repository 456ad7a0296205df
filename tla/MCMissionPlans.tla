---------------------------- MODULE MCMissionPlans ----------------------------
(***************************************************************************)
(* Values for model checking MissionPlans.                                 *)
(***************************************************************************)
EXTENDS MissionPlans, TLC

CONSTANTS requests, edits, s1, s2, f1, p1, w1, w2, a1

MCBounds == [n \in Counted |-> IF n = "requests" THEN requests ELSE edits]

Symmetry == Permutations(Requests) \cup Permutations(Runs)

\* A planned stage with a cleanup stage that is driven at a site.
MCStored ==
    {[s \in {s1, s2} |->
        IF s = s1
        THEN Coverage([field |-> f1, width |-> w1, path |-> p1, digest |-> p1], NoValue)
        ELSE Navigation(a1, s1)]}

\* No robot can drive at the second width.
MCFactsheets == [b \in Robots |-> [kinds |-> StageKinds, widths |-> {w1}]]

Given(kind, site, parent) ==
    [kind |-> kind, field |-> NoValue, width |-> NoValue, site |-> site, parent |-> parent]

MCInputs ==
    {Given("navigation", a1, NoValue), Given("carry", NoValue, NoValue),
     Given("carry_whole", NoValue, NoValue),
     PlanningInputs(f1, w1), PlanningInputs(f1, w2)}
=============================================================================
