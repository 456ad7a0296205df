---------------------------- MODULE MissionStages ----------------------------
(***************************************************************************)
(* The stages of a mission definition (domain/model/mission/mission.py) and*)
(* what an edit or a re-plan makes of them: a definition is a function from*)
(* the ids of its stages to the stages.  A stage names the stage whose     *)
(* on_cancel list it is in as its parent; a navigation stage has the site  *)
(* of its waypoints, a coverage stage the plan it carries.                 *)
(***************************************************************************)
EXTENDS FiniteSets

CONSTANT NoValue

Children(d, s) == {t \in DOMAIN d : d[t].parent = s}

\* The cleanup stages under a stage at every depth, and for NoValue every
\* stage of the tree: the least set closed under Children.
Below(d, s) ==
    {t \in DOMAIN d : \A X \in SUBSET DOMAIN d :
        (Children(d, s) \subseteq X /\ \A u \in X : Children(d, u) \subseteq X) => t \in X}

\* What _nest builds of stage rows: those the roots reach.
Tree(d) == [s \in Below(d, NoValue) |-> d[s]]

NoStages == [s \in {} |-> NoValue]

IsCoverage(d, s) == s \in DOMAIN d /\ d[s].plan # NoValue
CoverageStages(d) == {s \in DOMAIN d : IsCoverage(d, s)}
ReferencedSites(d) == {d[s].site : s \in DOMAIN d} \ {NoValue}

Navigation(site, parent) == [plan |-> NoValue, site |-> site, parent |-> parent]
Coverage(plan, parent) == [plan |-> plan, site |-> NoValue, parent |-> parent]

-----------------------------------------------------------------------------
(* A request gives each stage as an input of one of four kinds: waypoints, *)
(* the planning inputs of a coverage stage, or a coverage stage carried    *)
(* with the cleanup stages the request names, or carried whole.            *)

InputKinds == {"navigation", "cover", "carry", "carry_whole"}

CoverageInputs(inputs) == {s \in DOMAIN inputs : inputs[s].kind # "navigation"}
InputsToPlan(inputs) == {s \in DOMAIN inputs : inputs[s].kind = "cover"}

\* Planning the input again would reproduce the stored stage, whose field now
\* has this boundary.
Unchanged(input, d, s, boundary) ==
    /\ IsCoverage(d, s)
    /\ d[s].plan.field = input.field
    /\ d[s].plan.width = input.width
    /\ d[s].plan.digest = boundary

\* The cleanup stages that come along with the stages carried whole.
CarriedAlong(inputs, stored) ==
    UNION {Below(stored, s) : s \in {t \in DOMAIN inputs : inputs[t].kind = "carry_whole"}}

\* Every id the request names is one of the mission's, appears once, and is a
\* coverage stage where a plan is to be kept.
Resolvable(inputs, named, planned, stored) ==
    /\ named \subseteq DOMAIN stored
    /\ \A s \in CoverageInputs(inputs) \ DOMAIN planned : IsCoverage(stored, s)
    /\ CarriedAlong(inputs, stored) \cap DOMAIN inputs = {}

\* A coverage stage comes from planned when it was planned for this request,
\* otherwise from stored.
Resolve(inputs, planned, stored, s) ==
    CASE inputs[s].kind = "navigation" -> Navigation(inputs[s].site, inputs[s].parent)
      [] s \in CoverageInputs(inputs) /\ s \in DOMAIN planned ->
            Coverage(planned[s], inputs[s].parent)
      [] OTHER -> Coverage(stored[s].plan, inputs[s].parent)

WithIds(inputs, planned, stored) ==
    [s \in DOMAIN inputs \cup CarriedAlong(inputs, stored) |->
        IF s \in DOMAIN inputs THEN Resolve(inputs, planned, stored, s) ELSE stored[s]]

\* A generated stage takes the place of the one with its id; it has no cleanup
\* stages, so those of the stage it replaces are gone.
ReplaceStage(d, s, plan) ==
    [t \in {s} \cup (DOMAIN d \ Below(d, s)) |->
        IF t = s THEN Coverage(plan, d[s].parent) ELSE d[t]]
=============================================================================
