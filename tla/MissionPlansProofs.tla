-------------------------- MODULE MissionPlansProofs --------------------------
(***************************************************************************)
(* Proofs about MissionPlans, for any missions, stages, fields, sites,     *)
(* runs and requests: the state is well typed, and the definitions, their  *)
(* plans and the runs that copy them are as the requests asked.            *)
(***************************************************************************)
EXTENDS MissionPlans, TLAPS

-----------------------------------------------------------------------------
(* The inductive invariant                                                 *)

Inputted == UNION {[ids -> Input] : ids \in SUBSET Stages}
Plans == UNION {[ids -> PlanOf] : ids \in SUBSET Stages}

\* The kinds of requests that plan.
Planners == {"create", "update", "replan"}

\* Every path of the definition is of the boundary recorded with it.
Sound(d) == \A s \in CoverageStages(d) : d[s].plan.path = d[s].plan.digest

\* A plan is what its input asks for.
Answers(plan, input) ==
    plan.path = plan.digest /\ plan.field = input.field /\ plan.width = input.width

\* A stored stage is what the input asks for.
Kept(d, s, input) ==
    IsCoverage(d, s) /\ d[s].plan.field = input.field /\ d[s].plan.width = input.width

\* What a request holds, whatever the state around it.
Asking(r) ==
    /\ Sound(r.stored)
    /\ r.pending # NoValue => r.kind \in Planners /\ r.pending.stage \in r.todo
    /\ r.kind \in Planners =>
        /\ r.todo \cup DOMAIN r.planned \subseteq InputsToPlan(r.inputs)
        /\ \A s \in DOMAIN r.planned : Answers(r.planned[s], r.inputs[s])
    /\ r.kind \in {"create", "replan"} => InputsToPlan(r.inputs) \subseteq r.todo \cup DOMAIN r.planned
    /\ r.kind = "create" =>
        /\ r.phase = "planning"
        /\ \A s \in DOMAIN r.inputs : r.inputs[s].kind \in {"navigation", "cover"}
    /\ r.kind = "replan" => r.named = InputsToPlan(r.inputs) /\ \A s, t \in r.named : s = t
    /\ r.kind \in {"create", "update"} \cup LockedKinds => r.mission \in Missions
    /\ r.kind = "replan" /\ r.phase # "planning" => r.mission \in Missions
    /\ r.kind = "site" => r.phase = "planned" /\ r.site \in Sites
    /\ r.phase = "none" <=> r.kind = "none"
    /\ r.phase = "planned" => r.todo = {} /\ r.pending = NoValue
    /\ r.kind = "assign" => r.robot \in Robots
    /\ r.kind = "unassign" => r.robot = NoValue
    /\ r.kind = "dispatch" /\ r.phase = "locked" => r.robot \in Robots
    /\ r.kind = "update" /\ r.phase = "locked" =>
        \A s \in InputsToPlan(r.inputs) \ (r.todo \cup DOMAIN r.planned) :
            Kept(r.stored, s, r.inputs[s])

\* A coverage plan compared under the lock was of the field's boundary.
Compared(r) ==
    \A s \in CoverageStages(r.stored) \ r.todo :
        LET plan == r.stored[s].plan
        IN  fields[plan.field] = plan.digest \/ plan.field \in edited[r.mission]

\* What a request that has a mission's row locked may rely on.
Locking(c, r) ==
    r.phase = "locked" =>
        /\ holder[r.mission] = c
        /\ Exists(r.mission)
        /\ r.kind # "delete" => (missions[r.mission].archived <=> r.kind = "restore")
        /\ r.kind \in {"assign", "dispatch"} =>
              r.stored = missions[r.mission].stages /\ Compared(r)

\* The mission a request creates is known to no other.
Creating(c, r) ==
    r.kind = "create" =>
        /\ ~Exists(r.mission)
        /\ \A q \in Requests \ {c} : request[q].mission # r.mission

RequestInv ==
    \A c \in Requests : Asking(request[c]) /\ Locking(c, request[c]) /\ Creating(c, request[c])

StoredInv ==
    /\ \A m \in Missions : Exists(m) => Sound(missions[m].stages)
    /\ \A r \in Runs : runs[r] # NoValue => Sound(runs[r].stages)

IInv ==
    /\ TypeOK
    /\ RequestInv
    /\ StoredInv
    /\ PlansAreAsAsked
    /\ RunsHaveTheirMission
    /\ SitesAreKept

-----------------------------------------------------------------------------
(* Definitions and inputs as functions                                     *)

LEMMA DefinitionIs ==
  \A d : d \in Definition <=> DOMAIN d \subseteq Stages /\ d \in [DOMAIN d -> Stage]
<1>1. ASSUME NEW d \in Definition PROVE DOMAIN d \subseteq Stages /\ d \in [DOMAIN d -> Stage]
  BY DEF Definition
<1>2. ASSUME NEW d, DOMAIN d \subseteq Stages, d \in [DOMAIN d -> Stage] PROVE d \in Definition
  <2>1. DOMAIN d \in SUBSET Stages
    BY <1>2
  <2> QED BY <1>2, <2>1 DEF Definition
<1> QED BY <1>1, <1>2

LEMMA InputtedIs ==
  \A f : f \in Inputted <=> DOMAIN f \subseteq Stages /\ f \in [DOMAIN f -> Input]
<1>1. ASSUME NEW d \in Inputted PROVE DOMAIN d \subseteq Stages /\ d \in [DOMAIN d -> Input]
  BY DEF Inputted
<1>2. ASSUME NEW d, DOMAIN d \subseteq Stages, d \in [DOMAIN d -> Input] PROVE d \in Inputted
  <2>1. DOMAIN d \in SUBSET Stages
    BY <1>2
  <2> QED BY <1>2, <2>1 DEF Inputted
<1> QED BY <1>1, <1>2

LEMMA PlansIs ==
  \A f : f \in Plans <=> DOMAIN f \subseteq Stages /\ f \in [DOMAIN f -> PlanOf]
<1>1. ASSUME NEW d \in Plans PROVE DOMAIN d \subseteq Stages /\ d \in [DOMAIN d -> PlanOf]
  BY DEF Plans
<1>2. ASSUME NEW d, DOMAIN d \subseteq Stages, d \in [DOMAIN d -> PlanOf] PROVE d \in Plans
  <2>1. DOMAIN d \in SUBSET Stages
    BY <1>2
  <2> QED BY <1>2, <2>1 DEF Plans
<1> QED BY <1>1, <1>2

LEMMA NoStagesFacts ==
    /\ NoStages \in Definition /\ NoStages \in Inputted /\ NoStages \in Plans
    /\ DOMAIN NoStages = {} /\ Sound(NoStages)
<1>1. DOMAIN NoStages = {} /\ \A T : NoStages \in [{} -> T]
  BY DEF NoStages
<1> QED BY <1>1, DefinitionIs, InputtedIs, PlansIs DEF Sound, CoverageStages, IsCoverage

\* A stage of a definition, and its plan if it is a coverage stage.
LEMMA StageFacts ==
  ASSUME NEW d \in Definition, NEW s \in DOMAIN d
  PROVE  /\ s \in Stages /\ d[s] \in Stage
         /\ d[s].plan \in PlanOf \cup {NoValue}
         /\ d[s].site \in Sites \cup {NoValue}
         /\ d[s].parent \in Stages \cup {NoValue}
         /\ IsCoverage(d, s) => d[s].plan \in PlanOf
<1>1. s \in Stages /\ d[s] \in Stage
  BY DefinitionIs
<1> QED BY <1>1 DEF Stage, IsCoverage

LEMMA CoverageType ==
  ASSUME NEW plan \in PlanOf \cup {NoValue}, NEW parent \in Stages \cup {NoValue}
  PROVE  Coverage(plan, parent) \in Stage /\ Coverage(plan, parent).plan = plan
  BY DEF Coverage, Stage

LEMMA NavigationType ==
  ASSUME NEW site \in Sites \cup {NoValue}, NEW parent \in Stages \cup {NoValue}
  PROVE  Navigation(site, parent) \in Stage /\ Navigation(site, parent).plan = NoValue
  BY DEF Navigation, Stage

LEMMA BelowIs == \A d, s : Below(d, s) \subseteq DOMAIN d
  BY DEF Below

\* The tree of a definition is a definition, and its stages are stages of it.
LEMMA TreeIs ==
  ASSUME NEW d \in Definition
  PROVE  /\ Tree(d) \in Definition
         /\ Sound(d) => Sound(Tree(d))
<1>1. DOMAIN Tree(d) \subseteq DOMAIN d /\ \A s \in DOMAIN Tree(d) : Tree(d)[s] = d[s]
  BY BelowIs DEF Tree
<1>2. \A s \in DOMAIN Tree(d) : Tree(d)[s] \in Stage
  BY <1>1, DefinitionIs
<1>3. Tree(d) \in [DOMAIN Tree(d) -> Stage]
  BY <1>2 DEF Tree
<1>4. Tree(d) \in Definition
  BY <1>1, <1>3, DefinitionIs
<1>5. Sound(d) => Sound(Tree(d))
  BY <1>1 DEF Sound, CoverageStages, IsCoverage
<1> QED BY <1>4, <1>5

LEMMA InputIs ==
  ASSUME NEW inputs \in Inputted, NEW s \in DOMAIN inputs
  PROVE  /\ s \in Stages /\ inputs[s] \in Input
         /\ inputs[s].kind \in InputKinds
         /\ inputs[s].site \in Sites \cup {NoValue}
         /\ inputs[s].parent \in Stages \cup {NoValue}
         /\ inputs[s].kind = "cover" => inputs[s].field \in Fields /\ inputs[s].width \in Widths
<1>1. s \in Stages /\ inputs[s] \in Input
  BY InputtedIs
<1> QED BY <1>1 DEF Input, InputKinds

\* What the inputs of a request, its plans and the stored stages make is a
\* definition; its paths are sound and the planned stages are as asked.
LEMMA WithIdsIs ==
  ASSUME NEW inputs \in Inputted, NEW planned \in Plans, NEW stored \in Definition, Sound(stored),
         DOMAIN planned \subseteq InputsToPlan(inputs),
         \A s \in DOMAIN planned : Answers(planned[s], inputs[s]),
         \A s \in CoverageInputs(inputs) \ DOMAIN planned : IsCoverage(stored, s),
         \A s \in InputsToPlan(inputs) \ DOMAIN planned : Kept(stored, s, inputs[s])
  PROVE  LET d == WithIds(inputs, planned, stored)
         IN  /\ d \in Definition /\ Sound(d)
             /\ \A s \in InputsToPlan(inputs) : Kept(d, s, inputs[s])
<1> DEFINE d == WithIds(inputs, planned, stored)
           along == CarriedAlong(inputs, stored)
<1>1. along \subseteq DOMAIN stored
  BY BelowIs DEF CarriedAlong
<1>2. /\ DOMAIN d = DOMAIN inputs \cup along
      /\ \A s \in DOMAIN inputs : d[s] = Resolve(inputs, planned, stored, s)
      /\ \A s \in along \ DOMAIN inputs : d[s] = stored[s]
  BY DEF WithIds
<1>3. ASSUME NEW s \in DOMAIN inputs
      PROVE  /\ Resolve(inputs, planned, stored, s) \in Stage
             /\ Resolve(inputs, planned, stored, s).plan # NoValue =>
                  LET plan == Resolve(inputs, planned, stored, s).plan
                  IN  /\ plan.path = plan.digest
                      /\ s \in DOMAIN planned => plan = planned[s]
                      /\ s \notin DOMAIN planned => plan = stored[s].plan
             /\ s \in InputsToPlan(inputs) => Resolve(inputs, planned, stored, s).plan # NoValue
  <2>1. inputs[s].kind \in InputKinds /\ inputs[s].site \in Sites \cup {NoValue}
        /\ inputs[s].parent \in Stages \cup {NoValue}
    BY InputIs
  <2>2. CASE inputs[s].kind = "navigation"
    <3>1. Resolve(inputs, planned, stored, s) = Navigation(inputs[s].site, inputs[s].parent)
      BY <2>2 DEF Resolve, CoverageInputs
    <3>2. s \notin InputsToPlan(inputs)
      BY <2>2 DEF InputsToPlan
    <3> QED BY <3>1, <3>2, <2>1, NavigationType
  <2>3. CASE inputs[s].kind # "navigation" /\ s \in DOMAIN planned
    <3>1. Resolve(inputs, planned, stored, s) = Coverage(planned[s], inputs[s].parent)
      BY <2>3 DEF Resolve, CoverageInputs
    <3>2. planned[s] \in PlanOf /\ planned[s] # NoValue
      BY <2>3, PlansIs, MissionPlansAssumption
    <3> QED BY <3>1, <3>2, <2>1, <2>3, CoverageType DEF Answers
  <2>4. CASE inputs[s].kind # "navigation" /\ s \notin DOMAIN planned
    <3>1. Resolve(inputs, planned, stored, s) = Coverage(stored[s].plan, inputs[s].parent)
      BY <2>4 DEF Resolve, CoverageInputs
    <3>2. IsCoverage(stored, s) /\ s \in CoverageStages(stored)
      BY <2>4 DEF CoverageInputs, CoverageStages, IsCoverage
    <3>3. stored[s].plan \in PlanOf /\ stored[s].plan # NoValue
          /\ stored[s].plan.path = stored[s].plan.digest
      BY <3>2, StageFacts, MissionPlansAssumption DEF IsCoverage, Sound
    <3> QED BY <3>1, <3>3, <2>1, <2>4, CoverageType
  <2> QED BY <2>2, <2>3, <2>4
<1>4. \A s \in DOMAIN d : s \in Stages /\ d[s] \in Stage
  BY <1>1, <1>2, <1>3, StageFacts, InputIs
<1>5. d \in Definition
  <2>1. d \in [DOMAIN d -> Stage]
    BY <1>4 DEF WithIds
  <2> HIDE DEF d
  <2> QED BY <2>1, <1>4, DefinitionIs
<1>6. Sound(d)
  <2> SUFFICES ASSUME NEW s \in DOMAIN d, d[s].plan # NoValue PROVE d[s].plan.path = d[s].plan.digest
    BY DEF Sound, CoverageStages, IsCoverage
  <2>1. CASE s \in DOMAIN inputs
    BY <2>1, <1>2, <1>3
  <2>2. CASE s \notin DOMAIN inputs
    BY <2>2, <1>1, <1>2 DEF Sound, CoverageStages, IsCoverage
  <2> QED BY <2>1, <2>2
<1>7. ASSUME NEW s \in InputsToPlan(inputs) PROVE Kept(d, s, inputs[s])
  <2>1. s \in DOMAIN inputs /\ s \in DOMAIN d /\ d[s] = Resolve(inputs, planned, stored, s)
    BY <1>2 DEF InputsToPlan
  <2>2. IsCoverage(d, s)
    BY <2>1, <1>3 DEF IsCoverage
  <2>3. CASE s \in DOMAIN planned
    BY <2>1, <2>2, <2>3, <1>3 DEF Kept, Answers, IsCoverage
  <2>4. CASE s \notin DOMAIN planned
    BY <2>1, <2>2, <2>4, <1>3 DEF Kept, IsCoverage
  <2> QED BY <2>3, <2>4
<1> QED BY <1>5, <1>6, <1>7

\* Replacing one stage by a planned one keeps the others that remain.
LEMMA ReplaceStageIs ==
  ASSUME NEW d \in Definition, Sound(d), NEW s \in DOMAIN d,
         NEW plan \in PlanOf, NEW input, Answers(plan, input)
  PROVE  LET e == ReplaceStage(d, s, plan)
         IN  e \in Definition /\ Sound(e) /\ Kept(e, s, input)
<1> DEFINE e == ReplaceStage(d, s, plan)
<1>1. /\ DOMAIN e = {s} \cup (DOMAIN d \ Below(d, s))
      /\ e[s] = Coverage(plan, d[s].parent)
      /\ \A t \in DOMAIN e \ {s} : e[t] = d[t]
  BY DEF ReplaceStage
<1>2. e[s] \in Stage /\ e[s].plan = plan /\ plan # NoValue
  BY <1>1, StageFacts, CoverageType, MissionPlansAssumption
<1>3. \A t \in DOMAIN e : t \in Stages /\ e[t] \in Stage
  BY <1>1, <1>2, StageFacts
<1>4. e \in [DOMAIN e -> Stage]
  BY <1>3 DEF ReplaceStage
<1>5. e \in Definition
  BY <1>3, <1>4, DefinitionIs
<1>6. Sound(e) /\ Kept(e, s, input)
  BY <1>1, <1>2 DEF Sound, CoverageStages, IsCoverage, Kept, Answers
<1> QED BY <1>5, <1>6

-----------------------------------------------------------------------------
(* Steps of a request that write nothing                                   *)

LEMMA TypeFacts ==
  ASSUME IInv
  PROVE  /\ missions \in [Missions -> Rows \cup {NoValue}]
         /\ runs \in [Runs -> RunRows \cup {NoValue}]
         /\ holder \in [Missions -> Requests \cup {NoValue}]
         /\ request \in [Requests -> RequestRows]
         /\ edited \in [Missions -> SUBSET Fields]
         /\ asked \in [Missions -> Inputted]
         /\ \A m \in Missions : Exists(m) => /\ missions[m] \in Rows
                                             /\ missions[m].stages \in Definition
                                             /\ missions[m].robot \in Robots \cup {NoValue}
         /\ \A c \in Requests :
              /\ request[c] \in RequestRows
              /\ request[c].inputs \in Inputted
              /\ request[c].planned \in Plans
              /\ request[c].stored \in Definition
              /\ request[c].todo \subseteq Stages
              /\ request[c].named \subseteq Stages
              /\ request[c].pending # NoValue =>
                    request[c].pending.stage \in Stages /\ request[c].pending.boundary \in Boundaries
<1>1. TypeOK
  BY DEF IInv
<1>2. \A r \in RequestRows :
        /\ r.inputs \in Inputted /\ r.planned \in Plans /\ r.stored \in Definition
        /\ r.todo \subseteq Stages /\ r.named \subseteq Stages
        /\ r.pending # NoValue => r.pending.stage \in Stages /\ r.pending.boundary \in Boundaries
  BY DEF RequestRows, Inputted, Plans
<1>3. \A x \in Rows : x.stages \in Definition /\ x.robot \in Robots \cup {NoValue}
  BY DEF Rows
<1> QED BY <1>1, <1>2, <1>3 DEF TypeOK, Exists, Inputted

LEMMA IdleIs ==
    /\ Idle \in RequestRows /\ Asking(Idle)
    /\ Idle.phase = "none" /\ Idle.kind = "none" /\ Idle.mission = NoValue
<1>1. /\ Idle.phase = "none" /\ Idle.kind = "none" /\ Idle.mission = NoValue /\ Idle.pending = NoValue
      /\ Idle.stored = NoStages
  BY DEF Idle
<1>2. Idle \in RequestRows
  BY NoStagesFacts DEF Idle, RequestRows, RequestKinds, Inputted, Plans
<1>3. Asking(Idle)
  BY <1>1, NoStagesFacts DEF Asking, Planners, LockedKinds
<1> QED BY <1>1, <1>2, <1>3

LEMMA LockedIs ==
  ASSUME NEW r \in RequestRows, Asking(r), r.phase = "locked"
  PROVE  r.mission \in Missions /\ r.kind \in LockedKinds \cup {"update", "replan"}
<1>1. r.kind \in RequestKinds
  BY DEF RequestRows
<1> QED BY <1>1 DEF RequestKinds, Asking

\* A request goes on, and nothing else changes but what it may hold locked.
LEMMA RequestStep ==
  ASSUME IInv, NEW c \in Requests, NEW new \in RequestRows, Asking(new),
         request' = [request EXCEPT ![c] = new],
         UNCHANGED <<missions, runs, fields, sites, edited, asked>>,
         count' \in [Counted -> Nat],
         \/ holder' = holder
         \/ \E m \in Missions : holder[m] = NoValue /\ holder' = [holder EXCEPT ![m] = c],
         Locking(c, new)', Creating(c, new),
         \A q \in Requests \ {c} :
            request[q].kind = "create" /\ request[q].mission = new.mission => new.mission = NoValue
  PROVE  IInv'
<1>1. /\ request' \in [Requests -> RequestRows]
      /\ request'[c] = new
      /\ \A q \in Requests \ {c} : request'[q] = request[q]
  BY TypeFacts
<1>2. holder' \in [Missions -> Requests \cup {NoValue}]
  BY TypeFacts
<1>3. TypeOK'
  BY <1>1, <1>2 DEF IInv, TypeOK
<1>4. ASSUME NEW q \in Requests
      PROVE  Asking(request'[q]) /\ Locking(q, request[q])' /\ Creating(q, request[q])'
  <2>1. CASE q = c
    <3>1. Locking(q, request[q])'
      BY <2>1, <1>1 DEF Locking, Compared, Exists
    <3>2. Creating(q, request[q])'
      BY <2>1, <1>1 DEF Creating, Exists
    <3> QED BY <2>1, <1>1, <3>1, <3>2
  <2>2. CASE q # c
    <3>1. request'[q] = request[q] /\ Asking(request[q]) /\ Locking(q, request[q])
          /\ Creating(q, request[q]) /\ request[q] \in RequestRows
      BY <2>2, <1>1, TypeFacts DEF IInv, RequestInv
    <3>2. request[q].phase = "locked" => holder'[request[q].mission] = q
      <4> SUFFICES ASSUME request[q].phase = "locked" PROVE holder'[request[q].mission] = q
        OBVIOUS
      <4>1. holder[request[q].mission] = q /\ q # NoValue
        BY <3>1, MissionPlansAssumption DEF Locking
      <4>2. request[q].mission \in Missions
        BY <3>1, LockedIs
      <4> QED BY <4>1, <4>2, TypeFacts
    <3>3. Locking(q, request[q])'
      BY <3>1, <3>2 DEF Locking, Compared, Exists
    <3>4. Creating(q, request[q])'
      <4> SUFFICES ASSUME request[q].kind = "create"
                   PROVE  /\ ~Exists(request[q].mission)
                          /\ \A p \in Requests \ {q} : request'[p].mission # request[q].mission
        BY <3>1 DEF Creating, Exists
      <4>1. request[q].mission \in Missions /\ request[q].mission # NoValue
        BY <3>1, MissionPlansAssumption DEF Asking
      <4>2. request[q].mission # new.mission
        BY <2>2, <4>1
      <4> QED BY <3>1, <4>2, <1>1 DEF Creating
    <3> QED BY <3>1, <3>3, <3>4
  <2> QED BY <2>1, <2>2
<1>5. RequestInv'
  BY <1>4 DEF RequestInv
<1>6. StoredInv' /\ PlansAreAsAsked' /\ RunsHaveTheirMission' /\ SitesAreKept'
  BY DEF IInv, StoredInv, PlansAreAsAsked, RunsHaveTheirMission, SitesAreKept, Exists, SitesPresent
<1> QED BY <1>3, <1>5, <1>6 DEF IInv

LEMMA CountsType == IInv /\ (\E n \in Counted : Counts(n)) => count' \in [Counted -> Nat]
  BY DEF IInv, TypeOK, Counts

\* A step that leaves the mission and the phase of a request that plans.
LEMMA SameRequestStep ==
  ASSUME IInv, NEW c \in Requests, NEW new \in RequestRows, Asking(new),
         request' = [request EXCEPT ![c] = new],
         UNCHANGED <<missions, runs, fields, sites, holder, edited, asked, count>>,
         new.kind = request[c].kind, new.phase = request[c].phase,
         new.mission = request[c].mission, new.stored = request[c].stored,
         request[c].kind \in {"assign", "dispatch"} /\ Compared(request[c]) => Compared(new)
  PROVE  IInv'
<1>1. Locking(c, request[c]) /\ Creating(c, request[c])
  BY DEF IInv, RequestInv
<1>2. Locking(c, new)' /\ Creating(c, new)
  BY <1>1 DEF Locking, Creating, Compared, Exists
<1>3. ASSUME NEW q \in Requests \ {c}, request[q].kind = "create", request[q].mission = new.mission
      PROVE  FALSE
  <2>1. Creating(q, request[q])
    BY DEF IInv, RequestInv
  <2> QED BY <1>3, <2>1 DEF Creating
<1>4. count' \in [Counted -> Nat]
  BY DEF IInv, TypeOK
<1> QED BY <1>2, <1>3, <1>4, RequestStep

LEMMA PlanOrKeepStep ==
  ASSUME IInv, NEW c \in Requests, NEW s \in Stages, PlanOrKeep(c, s)
  PROVE  IInv'
<1> DEFINE r == request[c]
           kept == [r EXCEPT !.todo = @ \ {s}]
           sent == [r EXCEPT !.pending = [stage |-> s, boundary |-> fields[r.inputs[s].field]]]
           keeps == r.kind = "update" /\ Unchanged(r.inputs[s], r.stored, s, Boundary(r.inputs[s].field))
<1>1. /\ r.phase \in {"planning", "locked"} /\ r.kind \in Planners /\ s \in r.todo
      /\ r.pending = NoValue /\ fields[r.inputs[s].field] \in Boundaries
      /\ request' = [request EXCEPT ![c] = IF keeps THEN kept ELSE sent]
      /\ UNCHANGED <<missions, runs, fields, sites, holder, edited, asked, count>>
  BY DEF PlanOrKeep, AskPlanner, Planners, Plannable, Boundary, catalogVars
<1>2. r \in RequestRows /\ Asking(r)
  BY TypeFacts DEF IInv, RequestInv
<1>3. CASE keeps
  <2>1. kept \in RequestRows
    BY <1>2 DEF RequestRows
  <2>2. /\ kept.kind = r.kind /\ kept.phase = r.phase /\ kept.mission = r.mission
        /\ kept.stored = r.stored /\ kept.todo = r.todo \ {s} /\ kept.planned = r.planned
        /\ kept.inputs = r.inputs /\ kept.pending = r.pending /\ kept.named = r.named
        /\ kept.robot = r.robot /\ kept.site = r.site
    BY <1>2 DEF RequestRows
  <2>3. r.kind = "update" /\ Kept(r.stored, s, r.inputs[s])
    BY <1>3 DEF Unchanged, Kept
  <2> HIDE DEF kept, keeps
  <2>4. Asking(kept)
    BY <1>1, <1>2, <2>2, <2>3 DEF Asking, Planners
  <2>5. request' = [request EXCEPT ![c] = kept]
    BY <1>1, <1>3
  <2> QED BY <1>1, <2>1, <2>2, <2>3, <2>4, <2>5, SameRequestStep
<1>4. CASE ~keeps
  <2> DEFINE asks == [stage |-> s, boundary |-> fields[r.inputs[s].field]]
  <2>0. asks \in [stage : Stages, boundary : Boundaries] /\ asks.stage = s
    BY <1>1
  <2> HIDE DEF asks
  <2>1. sent \in RequestRows
    BY <1>2, <2>0 DEF RequestRows, asks
  <2>2. /\ sent.kind = r.kind /\ sent.phase = r.phase /\ sent.mission = r.mission
        /\ sent.stored = r.stored /\ sent.todo = r.todo /\ sent.planned = r.planned
        /\ sent.inputs = r.inputs /\ sent.pending = asks /\ sent.named = r.named
        /\ sent.robot = r.robot /\ sent.site = r.site
    BY <1>2 DEF RequestRows, asks
  <2> HIDE DEF sent, keeps
  <2>4. Asking(sent)
    BY <1>1, <1>2, <2>0, <2>2 DEF Asking, Planners
  <2>5. request' = [request EXCEPT ![c] = sent]
    BY <1>1, <1>4
  <2>6. Compared(r) => Compared(sent)
    BY <2>2 DEF Compared
  <2> QED BY <1>1, <2>1, <2>2, <2>4, <2>5, <2>6, SameRequestStep
<1> QED BY <1>3, <1>4

LEMMA PlannerAnswersStep ==
  ASSUME IInv, NEW c \in Requests, PlannerAnswers(c)
  PROVE  IInv'
<1> DEFINE r == request[c]
           s == r.pending.stage
           b == r.pending.boundary
           planned == [t \in DOMAIN r.planned \cup {s} |->
                         IF t = s THEN Plan(r.inputs[s], b, b) ELSE r.planned[t]]
           new == [r EXCEPT !.pending = NoValue, !.todo = @ \ {s}, !.planned = planned]
<1>1. /\ r.pending # NoValue
      /\ request' = [request EXCEPT ![c] = new]
      /\ UNCHANGED <<missions, runs, fields, sites, holder, edited, asked, count>>
  BY DEF PlannerAnswers, catalogVars
<1>2. r \in RequestRows /\ Asking(r) /\ s \in Stages /\ b \in Boundaries
      /\ r.inputs \in Inputted /\ r.planned \in Plans
  BY <1>1, TypeFacts DEF IInv, RequestInv
<1>3. r.kind \in Planners /\ s \in r.todo /\ s \in InputsToPlan(r.inputs)
      /\ s \in DOMAIN r.inputs /\ r.inputs[s].kind = "cover"
  BY <1>1, <1>2 DEF Asking, InputsToPlan
<1>4. Plan(r.inputs[s], b, b) \in PlanOf /\ Answers(Plan(r.inputs[s], b, b), r.inputs[s])
  <2>1. r.inputs[s].field \in Fields /\ r.inputs[s].width \in Widths
    BY <1>2, <1>3, InputIs
  <2> QED BY <1>2, <2>1 DEF Plan, PlanOf, Answers
<1>5. /\ planned \in Plans
      /\ DOMAIN planned = DOMAIN r.planned \cup {s}
      /\ planned[s] = Plan(r.inputs[s], b, b)
      /\ \A t \in DOMAIN r.planned \ {s} : planned[t] = r.planned[t]
  <2>1. \A t \in DOMAIN r.planned : r.planned[t] \in PlanOf
    BY <1>2, PlansIs
  <2>2. \A t \in DOMAIN planned : planned[t] \in PlanOf
    BY <2>1, <1>4
  <2>3. planned \in [DOMAIN planned -> PlanOf]
    BY <2>2
  <2>4. DOMAIN planned \subseteq Stages
    BY <1>2, PlansIs
  <2>5. planned \in Plans
    <3> HIDE DEF planned
    <3> QED BY <2>3, <2>4, PlansIs
  <2> QED BY <2>5
<1> HIDE DEF planned
<1>6. new \in RequestRows
  <2>1. planned \in UNION {[ids -> PlanOf] : ids \in SUBSET Stages}
    BY <1>5 DEF Plans
  <2> QED BY <1>2, <2>1 DEF RequestRows
<1>7. /\ new.kind = r.kind /\ new.phase = r.phase /\ new.mission = r.mission
      /\ new.stored = r.stored /\ new.todo = r.todo \ {s} /\ new.planned = planned
      /\ new.inputs = r.inputs /\ new.pending = NoValue /\ new.named = r.named
      /\ new.robot = r.robot /\ new.site = r.site
  BY <1>2 DEF RequestRows
<1> HIDE DEF new
<1>8. Asking(new)
  <2>1. \A t \in DOMAIN planned : Answers(planned[t], r.inputs[t])
    BY <1>2, <1>3, <1>4, <1>5 DEF Asking
  <2>2. new.todo \cup DOMAIN planned \subseteq InputsToPlan(r.inputs)
        /\ r.todo \cup DOMAIN r.planned \subseteq new.todo \cup DOMAIN planned
    BY <1>2, <1>3, <1>5, <1>7 DEF Asking
  <2> QED BY <1>2, <1>3, <1>7, <2>1, <2>2 DEF Asking, Planners
<1>9. r.kind \notin {"assign", "dispatch"}
  BY <1>3 DEF Planners
<1> QED BY <1>1, <1>6, <1>7, <1>8, <1>9, SameRequestStep

LEMMA CompareBoundaryStep ==
  ASSUME IInv, NEW c \in Requests, NEW s \in Stages, CompareBoundary(c, s)
  PROVE  IInv'
<1> DEFINE r == request[c]
           new == [r EXCEPT !.todo = @ \ {s}]
<1>1. /\ r.phase = "locked" /\ r.kind \in {"assign", "dispatch"}
      /\ fields[r.stored[s].plan.field] = r.stored[s].plan.digest
      /\ request' = [request EXCEPT ![c] = new]
      /\ UNCHANGED <<missions, runs, fields, sites, holder, edited, asked, count>>
  BY DEF CompareBoundary, catalogVars
<1>2. r \in RequestRows /\ Asking(r)
  BY TypeFacts DEF IInv, RequestInv
<1>3. new \in RequestRows
  BY <1>2 DEF RequestRows
<1>4. /\ new.kind = r.kind /\ new.phase = r.phase /\ new.mission = r.mission
      /\ new.stored = r.stored /\ new.todo = r.todo \ {s} /\ new.planned = r.planned
      /\ new.inputs = r.inputs /\ new.pending = r.pending /\ new.named = r.named
      /\ new.robot = r.robot /\ new.site = r.site
  BY <1>2 DEF RequestRows
<1> HIDE DEF new
<1>5. Asking(new)
  BY <1>1, <1>2, <1>4 DEF Asking, Planners
<1>6. Compared(r) => Compared(new)
  BY <1>1, <1>4 DEF Compared
<1> QED BY <1>1, <1>3, <1>4, <1>5, <1>6, SameRequestStep

LEMMA FinishPlanningStep ==
  ASSUME IInv, NEW c \in Requests, FinishPlanning(c)
  PROVE  IInv'
<1> DEFINE r == request[c]
<1>1. /\ r.phase = "planning" /\ r.todo = {} /\ r.pending = NoValue
      /\ UNCHANGED <<missions, runs, fields, sites, holder, edited, asked, count>>
  BY DEF FinishPlanning, Planned, catalogVars
<1>2. r \in RequestRows /\ Asking(r) /\ count \in [Counted -> Nat]
  BY TypeFacts DEF IInv, RequestInv, TypeOK
<1>3. ASSUME r.kind = "update", request' = [request EXCEPT ![c].phase = "planned"]
      PROVE  IInv'
  <2>1. PICK new \in RequestRows : new = [r EXCEPT !.phase = "planned"]
    BY <1>2 DEF RequestRows
  <2>2. /\ new.kind = r.kind /\ new.phase = "planned" /\ new.mission = r.mission
        /\ new.stored = r.stored /\ new.todo = r.todo /\ new.planned = r.planned
        /\ new.inputs = r.inputs /\ new.pending = r.pending /\ new.named = r.named
        /\ new.robot = r.robot /\ new.site = r.site
    BY <1>2, <2>1 DEF RequestRows
  <2>3. request' = [request EXCEPT ![c] = new]
    BY <1>3, <2>1
  <2>4. Asking(new)
    BY <1>1, <1>2, <1>3, <2>2 DEF Asking, Planners, LockedKinds
  <2>5. Locking(c, new)' /\ Creating(c, new)
    BY <1>3, <2>2 DEF Locking, Creating
  <2>6. \A q \in Requests \ {c} : ~(request[q].kind = "create" /\ request[q].mission = new.mission)
    BY <2>2 DEF IInv, RequestInv, Creating
  <2> QED BY <1>1, <1>2, <2>1, <2>3, <2>4, <2>5, <2>6, RequestStep
<1>4. ASSUME r.kind = "replan", NEW m \in Missions, Exists(m),
             request' = [request EXCEPT ![c] =
                [r EXCEPT !.phase = "planned", !.mission = m, !.stored = missions[m].stages]]
      PROVE  IInv'
  <2>0. missions[m].stages \in Definition /\ Sound(missions[m].stages)
    BY <1>4, TypeFacts DEF IInv, StoredInv
  <2>1. PICK new \in RequestRows :
          new = [r EXCEPT !.phase = "planned", !.mission = m, !.stored = missions[m].stages]
    BY <1>2, <2>0 DEF RequestRows
  <2>2. /\ new.kind = r.kind /\ new.phase = "planned" /\ new.mission = m
        /\ new.stored = missions[m].stages /\ new.todo = r.todo /\ new.planned = r.planned
        /\ new.inputs = r.inputs /\ new.pending = r.pending /\ new.named = r.named
        /\ new.robot = r.robot /\ new.site = r.site
    BY <1>2, <2>1 DEF RequestRows
  <2>3. request' = [request EXCEPT ![c] = new]
    BY <1>4, <2>1
  <2>4. Asking(new)
    BY <1>1, <1>2, <1>4, <2>0, <2>2 DEF Asking, Planners, LockedKinds
  <2>5. Locking(c, new)' /\ Creating(c, new)
    BY <1>4, <2>2 DEF Locking, Creating
  <2>6. \A q \in Requests \ {c} : ~(request[q].kind = "create" /\ request[q].mission = new.mission)
    BY <1>4, <2>2 DEF IInv, RequestInv, Creating
  <2> QED BY <1>1, <1>2, <2>1, <2>3, <2>4, <2>5, <2>6, RequestStep
<1> QED BY <1>3, <1>4 DEF FinishPlanning

LEMMA RowsUnderLockIs ==
  ASSUME IInv, NEW c \in Requests, NEW m \in Missions, Exists(m), NEW d \in RowsUnderLock(c, m)
  PROVE  /\ d \in Definition /\ Sound(d)
         /\ request[c].kind \in LockedKinds => d = missions[m].stages
<1> DEFINE now == missions[m].stages
           before == request[c].stored
           mixed == [s \in DOMAIN now |-> IF s \in DOMAIN before THEN before[s] ELSE now[s]]
<1>1. /\ now \in Definition /\ Sound(now) /\ before \in Definition /\ Sound(before)
  BY TypeFacts DEF IInv, StoredInv, RequestInv, Asking
<1>2. DOMAIN mixed = DOMAIN now
      /\ \A s \in DOMAIN mixed : mixed[s] = IF s \in DOMAIN before THEN before[s] ELSE now[s]
  OBVIOUS
<1>3. \A s \in DOMAIN mixed : s \in Stages /\ mixed[s] \in Stage
  BY <1>1, <1>2, StageFacts
<1>4. mixed \in [DOMAIN mixed -> Stage]
  BY <1>3
<1>5. Sound(mixed)
  BY <1>1, <1>2 DEF Sound, CoverageStages, IsCoverage
<1>6. d \in {now, Tree(mixed)} /\ (request[c].kind \notin {"update", "replan"} => d = now)
  BY DEF RowsUnderLock
<1> HIDE DEF mixed, now
<1>7. mixed \in Definition
  BY <1>3, <1>4, DefinitionIs
<1>8. Tree(mixed) \in Definition /\ Sound(Tree(mixed))
  BY <1>5, <1>7, TreeIs
<1> QED BY <1>1, <1>6, <1>8 DEF LockedKinds, now

LEMMA LockStep ==
  ASSUME IInv, NEW c \in Requests, Lock(c)
  PROVE  IInv'
<1> DEFINE r == request[c]
           m == r.mission
<1>1. /\ r.phase = "planned" /\ r.kind # "site" /\ holder[m] = NoValue /\ Admissible(r, m)
      /\ holder' = [holder EXCEPT ![m] = c]
      /\ UNCHANGED <<missions, runs, fields, sites, edited, asked, count>>
  BY DEF Lock, catalogVars
<1>2. r \in RequestRows /\ Asking(r) /\ count \in [Counted -> Nat] /\ r.kind \in RequestKinds
      /\ m \in Missions
  BY <1>1, TypeFacts DEF IInv, RequestInv, TypeOK, RequestRows, Asking, RequestKinds
<1>3. PICK d \in RowsUnderLock(c, m) :
         request' = [request EXCEPT ![c] =
             [r EXCEPT !.phase = "locked", !.stored = d, !.todo = TodoUnderLock(r, d),
                       !.robot = IF r.kind = "dispatch" /\ @ = NoValue THEN missions[m].robot ELSE @]]
  BY DEF Lock
<1> DEFINE todo == TodoUnderLock(r, d)
           robot == IF r.kind = "dispatch" /\ r.robot = NoValue THEN missions[m].robot ELSE r.robot
<1>4. /\ Exists(m)
      /\ r.kind # "delete" => (missions[m].archived <=> r.kind = "restore")
      /\ r.kind = "dispatch" => r.robot # NoValue \/ missions[m].robot # NoValue
  BY <1>1 DEF Admissible
<1>5. /\ d \in Definition /\ Sound(d)
      /\ r.kind \in LockedKinds => d = missions[m].stages
  BY <1>2, <1>4, RowsUnderLockIs
<1>6. /\ todo \subseteq Stages
      /\ r.kind = "update" => todo = InputsToPlan(r.inputs) \ DOMAIN r.planned
      /\ r.kind \in {"assign", "dispatch"} => todo = CoverageStages(d)
      /\ r.kind \notin {"update", "assign", "dispatch"} => todo = {}
  <2>1. InputsToPlan(r.inputs) \subseteq Stages /\ CoverageStages(d) \subseteq Stages
    BY <1>2, <1>5, TypeFacts, InputIs, StageFacts DEF InputsToPlan, CoverageStages
  <2>2. r.kind = "update" => todo = InputsToPlan(r.inputs) \ DOMAIN r.planned
    BY DEF TodoUnderLock
  <2>3. r.kind \in {"assign", "dispatch"} => todo = CoverageStages(d)
    BY DEF TodoUnderLock
  <2>4. r.kind \notin {"update", "assign", "dispatch"} => todo = {}
    BY DEF TodoUnderLock
  <2> HIDE DEF todo
  <2> QED BY <2>1, <2>2, <2>3, <2>4
<1> HIDE DEF todo
<1>7. robot \in Robots \cup {NoValue} /\ (r.kind = "dispatch" => robot \in Robots)
      /\ (r.kind # "dispatch" => robot = r.robot)
  <2>1. r.robot \in Robots \cup {NoValue} /\ missions[m].robot \in Robots \cup {NoValue}
    BY <1>2, <1>4, TypeFacts DEF RequestRows
  <2> QED BY <2>1, <1>4
<1> HIDE DEF robot
<1>8. PICK new \in RequestRows :
         new = [r EXCEPT !.phase = "locked", !.stored = d, !.todo = todo, !.robot = robot]
  BY <1>2, <1>5, <1>6, <1>7 DEF RequestRows
<1>9. /\ new.kind = r.kind /\ new.phase = "locked" /\ new.mission = m
      /\ new.stored = d /\ new.todo = todo /\ new.planned = r.planned
      /\ new.inputs = r.inputs /\ new.pending = r.pending /\ new.named = r.named
      /\ new.robot = robot /\ new.site = r.site
  BY <1>2, <1>8 DEF RequestRows
<1>10. request' = [request EXCEPT ![c] = new]
  BY <1>3, <1>8 DEF todo, robot
<1>11. Asking(new)
  BY <1>1, <1>2, <1>5, <1>6, <1>7, <1>9 DEF Asking, Planners, LockedKinds
<1>12. Locking(c, new)'
  <2>1. holder'[m] = c
    BY <1>1, <1>2, TypeFacts
  <2>2. r.kind \in {"assign", "dispatch"} => CoverageStages(new.stored) \ new.todo = {}
    BY <1>6, <1>9
  <2> QED BY <1>1, <1>4, <1>5, <1>9, <2>1, <2>2 DEF Locking, Compared, Exists, LockedKinds
<1>13. Creating(c, new)
  BY <1>1, <1>2, <1>9 DEF Creating, Asking
<1>14. \A q \in Requests \ {c} : ~(request[q].kind = "create" /\ request[q].mission = new.mission)
  BY <1>4, <1>9 DEF IInv, RequestInv, Creating
<1> QED BY <1>1, <1>2, <1>8, <1>10, <1>11, <1>12, <1>13, <1>14, RequestStep

-----------------------------------------------------------------------------
(* Requests begin                                                          *)

LEMMA BeginsStep ==
  ASSUME IInv, NEW c \in Requests, NEW r \in RequestRows, Begins(c, r), Asking(r),
         r.phase # "locked", Creating(c, r),
         \A q \in Requests \ {c} :
            request[q].kind = "create" /\ request[q].mission = r.mission => r.mission = NoValue
  PROVE  IInv'
<1>1. /\ request' = [request EXCEPT ![c] = r]
      /\ UNCHANGED <<missions, runs, fields, sites, holder, edited, asked>>
      /\ count' \in [Counted -> Nat]
  BY CountsType DEF Begins, catalogVars, Counted
<1>2. Locking(c, r)'
  BY DEF Locking
<1> QED BY <1>1, <1>2, RequestStep

\* The mission of a request in creation is no other request's.
LEMMA MissionIsFree ==
  ASSUME IInv, NEW m \in Missions, Exists(m)
  PROVE  \A q \in Requests : ~(request[q].kind = "create" /\ request[q].mission = m)
BY DEF IInv, RequestInv, Creating

LEMMA StageInputsIs ==
  ASSUME NEW d, NEW named, NEW ids \in SUBSET Stages, NEW inputs \in StageInputs(d, named, ids)
  PROVE  /\ inputs \in Inputted /\ DOMAIN inputs = ids
         /\ InputsToPlan(inputs) \subseteq ids
         /\ \A s \in ids : inputs[s].kind \in {"navigation", "cover"} \/ s \in named
<1>1. inputs \in [ids -> Inputs]
  BY DEF StageInputs
<1>2. inputs \in [ids -> Input]
  BY <1>1, MissionPlansAssumption
<1>3. inputs \in Inputted /\ DOMAIN inputs = ids
  BY <1>2, InputtedIs
<1>4. \A s \in ids : inputs[s].kind \in InputKinds
  BY <1>3, InputIs
<1>5. \A s \in ids : inputs[s].kind \in {"carry", "carry_whole"} => s \in named
  BY DEF StageInputs
<1> QED BY <1>3, <1>4, <1>5 DEF InputKinds, InputsToPlan

LEMMA BeginCreateStep ==
  ASSUME IInv, NEW c \in Requests, BeginCreate(c)
  PROVE  IInv'
<1>1. PICK m \in Missions, ids \in SUBSET Stages : NewMission(m)
        /\ \E inputs \in StageInputs(NoStages, {}, ids) :
             Begins(c, [Idle EXCEPT !.kind = "create", !.phase = "planning", !.mission = m,
                                    !.inputs = inputs, !.todo = InputsToPlan(inputs)])
  BY DEF BeginCreate
<1>1a. PICK inputs \in StageInputs(NoStages, {}, ids) :
        Begins(c, [Idle EXCEPT !.kind = "create", !.phase = "planning", !.mission = m,
                               !.inputs = inputs, !.todo = InputsToPlan(inputs)])
  BY <1>1
<1>2. /\ inputs \in Inputted /\ DOMAIN inputs = ids /\ InputsToPlan(inputs) \subseteq ids
      /\ \A s \in ids : inputs[s].kind \in {"navigation", "cover"}
  BY StageInputsIs
<1>3. PICK r \in RequestRows :
        r = [Idle EXCEPT !.kind = "create", !.phase = "planning", !.mission = m,
                         !.inputs = inputs, !.todo = InputsToPlan(inputs)]
  <2>1. InputsToPlan(inputs) \subseteq Stages
    BY <1>2
  <2> QED BY <1>2, <2>1, IdleIs DEF RequestRows, RequestKinds, Inputted
<1>4. /\ r.kind = "create" /\ r.phase = "planning" /\ r.mission = m /\ r.inputs = inputs
      /\ r.todo = InputsToPlan(inputs) /\ r.planned = NoStages /\ r.stored = NoStages
      /\ r.pending = NoValue
  BY <1>3, IdleIs DEF RequestRows, Idle
<1>5. Asking(r)
  BY <1>2, <1>4, NoStagesFacts DEF Asking, Planners, LockedKinds
<1>6. Creating(c, r)
  BY <1>1, <1>4 DEF Creating, NewMission
<1>7. \A q \in Requests : request[q].mission # r.mission
  BY <1>1, <1>4 DEF NewMission
<1> QED BY <1>1a, <1>3, <1>4, <1>5, <1>6, <1>7, BeginsStep

LEMMA BeginUpdateStep ==
  ASSUME IInv, NEW c \in Requests, BeginUpdate(c)
  PROVE  IInv'
<1>1. PICK m \in Missions, ids \in SUBSET Stages :
        /\ Exists(m)
        /\ \E inputs \in StageInputs(missions[m].stages, ids \cap DOMAIN missions[m].stages, ids) :
             Begins(c, [Idle EXCEPT !.kind = "update", !.phase = "planning", !.mission = m,
                                    !.inputs = inputs, !.named = ids \cap DOMAIN missions[m].stages,
                                    !.stored = missions[m].stages, !.todo = InputsToPlan(inputs)])
  BY DEF BeginUpdate
<1>2. PICK d \in Definition : d = missions[m].stages /\ Sound(d)
  BY <1>1, TypeFacts DEF IInv, StoredInv
<1>3. PICK named \in SUBSET Stages : named = ids \cap DOMAIN d
  BY <1>1
<1>4. PICK inputs \in StageInputs(d, named, ids) :
        Begins(c, [Idle EXCEPT !.kind = "update", !.phase = "planning", !.mission = m,
                               !.inputs = inputs, !.named = named,
                               !.stored = d, !.todo = InputsToPlan(inputs)])
  BY <1>1, <1>2, <1>3
<1>5. inputs \in Inputted /\ DOMAIN inputs = ids /\ InputsToPlan(inputs) \subseteq ids
  BY StageInputsIs
<1>6. PICK r \in RequestRows :
        r = [Idle EXCEPT !.kind = "update", !.phase = "planning", !.mission = m,
                         !.inputs = inputs, !.named = named,
                         !.stored = d, !.todo = InputsToPlan(inputs)]
  <2>1. InputsToPlan(inputs) \subseteq Stages
    BY <1>5
  <2> QED BY <1>2, <1>3, <1>5, <2>1, IdleIs DEF RequestRows, RequestKinds, Inputted
<1>7. /\ r.kind = "update" /\ r.phase = "planning" /\ r.mission = m /\ r.inputs = inputs
      /\ r.todo = InputsToPlan(inputs) /\ r.planned = NoStages /\ r.stored = d
      /\ r.pending = NoValue
  BY <1>6, IdleIs DEF RequestRows, Idle
<1>8. Asking(r)
  BY <1>2, <1>5, <1>7, NoStagesFacts DEF Asking, Planners, LockedKinds
<1>9. Creating(c, r) /\ \A q \in Requests : ~(request[q].kind = "create" /\ request[q].mission = r.mission)
  BY <1>1, <1>7, MissionIsFree DEF Creating
<1> QED BY <1>4, <1>6, <1>7, <1>8, <1>9, BeginsStep

LEMMA StagesInUseAre == IInv => StagesInUse \subseteq Stages
<1> SUFFICES ASSUME IInv PROVE StagesInUse \subseteq Stages
  OBVIOUS
<1>1. \A m \in Missions : Exists(m) => DOMAIN missions[m].stages \subseteq Stages
  BY TypeFacts, DefinitionIs
<1>2. \A r \in Runs : runs[r] # NoValue => DOMAIN runs[r].stages \subseteq Stages
  <2>1. \A r \in Runs : runs[r] # NoValue => runs[r].stages \in Definition
    BY TypeFacts DEF RunRows
  <2> QED BY <2>1, DefinitionIs
<1>3. \A c \in Requests : DOMAIN request[c].inputs \subseteq Stages /\ DOMAIN request[c].stored \subseteq Stages
  BY TypeFacts, DefinitionIs, InputtedIs
<1> QED BY <1>1, <1>2, <1>3 DEF StagesInUse

LEMMA BeginReplanStep ==
  ASSUME IInv, NEW c \in Requests, BeginReplan(c)
  PROVE  IInv'
<1>1. PICK s \in StagesInUse, f \in Fields, w \in Widths :
        Begins(c, [Idle EXCEPT !.kind = "replan", !.phase = "planning", !.named = {s},
                               !.inputs = [t \in {s} |-> PlanningInputs(f, w)], !.todo = {s}])
  BY DEF BeginReplan
<1>2. s \in Stages
  BY StagesInUseAre
<1>3. PICK inputs : inputs = [t \in {s} |-> PlanningInputs(f, w)]
  OBVIOUS
<1>4. PlanningInputs(f, w) \in Input /\ PlanningInputs(f, w).kind = "cover"
  BY DEF PlanningInputs, Input
<1>5. inputs \in Inputted /\ InputsToPlan(inputs) = {s}
  <2>1. DOMAIN inputs = {s} /\ inputs \in [DOMAIN inputs -> Input]
    BY <1>3, <1>4
  <2>2. inputs \in Inputted
    BY <1>2, <2>1, InputtedIs
  <2> QED BY <1>3, <1>4, <2>1, <2>2 DEF InputsToPlan
<1>6. PICK r \in RequestRows :
        r = [Idle EXCEPT !.kind = "replan", !.phase = "planning", !.named = {s},
                         !.inputs = inputs, !.todo = {s}]
  BY <1>2, <1>5, IdleIs DEF RequestRows, RequestKinds, Inputted
<1>7. /\ r.kind = "replan" /\ r.phase = "planning" /\ r.mission = NoValue /\ r.inputs = inputs
      /\ r.todo = {s} /\ r.planned = NoStages /\ r.stored = NoStages /\ r.named = {s}
      /\ r.pending = NoValue
  BY <1>6, IdleIs DEF RequestRows, Idle
<1>8. Asking(r)
  BY <1>5, <1>7, NoStagesFacts DEF Asking, Planners, LockedKinds
<1>9. Creating(c, r)
  BY <1>7 DEF Creating
<1>10. Begins(c, r)
  BY <1>1, <1>3, <1>6
<1> QED BY <1>7, <1>8, <1>9, <1>10, BeginsStep

LEMMA BeginLockedStep ==
  ASSUME IInv, NEW c \in Requests, NEW kind \in LockedKinds, BeginLocked(c, kind)
  PROVE  IInv'
<1>1. PICK m \in Missions, b \in Robots \cup {NoValue} :
        /\ Exists(m)
        /\ kind = "assign" => b \in Robots
        /\ kind # "assign" /\ kind # "dispatch" => b = NoValue
        /\ Begins(c, [Idle EXCEPT !.kind = kind, !.phase = "planned", !.mission = m, !.robot = b])
  BY DEF BeginLocked
<1>2. PICK r \in RequestRows :
        r = [Idle EXCEPT !.kind = kind, !.phase = "planned", !.mission = m, !.robot = b]
  BY IdleIs DEF RequestRows, RequestKinds
<1>3. /\ r.kind = kind /\ r.phase = "planned" /\ r.mission = m /\ r.robot = b
      /\ r.todo = {} /\ r.planned = NoStages /\ r.stored = NoStages /\ r.pending = NoValue
  BY <1>2, IdleIs DEF RequestRows, Idle
<1>4. Asking(r)
  BY <1>1, <1>3, NoStagesFacts DEF Asking, Planners, LockedKinds
<1>5. Creating(c, r)
  BY <1>3 DEF Creating, LockedKinds
<1>6. \A q \in Requests : ~(request[q].kind = "create" /\ request[q].mission = r.mission)
  BY <1>1, <1>3, MissionIsFree
<1> QED BY <1>1, <1>2, <1>3, <1>4, <1>5, <1>6, BeginsStep

LEMMA BeginSiteDeleteStep ==
  ASSUME IInv, NEW c \in Requests, BeginSiteDelete(c)
  PROVE  IInv'
<1>1. PICK a \in Sites :
        Begins(c, [Idle EXCEPT !.kind = "site", !.phase = "planned", !.site = a])
  BY DEF BeginSiteDelete
<1>2. PICK r \in RequestRows : r = [Idle EXCEPT !.kind = "site", !.phase = "planned", !.site = a]
  BY IdleIs DEF RequestRows, RequestKinds
<1>3. /\ r.kind = "site" /\ r.phase = "planned" /\ r.mission = NoValue /\ r.site = a
      /\ r.todo = {} /\ r.planned = NoStages /\ r.stored = NoStages /\ r.pending = NoValue
  BY <1>2, IdleIs DEF RequestRows, Idle
<1>4. Asking(r)
  BY <1>3, NoStagesFacts DEF Asking, Planners, LockedKinds
<1>5. Creating(c, r)
  BY <1>3 DEF Creating
<1> QED BY <1>1, <1>2, <1>3, <1>4, <1>5, BeginsStep

-----------------------------------------------------------------------------
(* Requests end                                                            *)

LEMMA EndStep ==
  ASSUME IInv, NEW c \in Requests, End(c), UNCHANGED <<fields, count>>,
         missions' \in [Missions -> Rows \cup {NoValue}],
         runs' \in [Runs -> RunRows \cup {NoValue}],
         sites' \in [Sites -> {"none", "present", "deleted"}],
         asked' \in [Missions -> Inputted],
         \A q \in Requests \ {c} : request[q].phase = "locked" \/ request[q].kind = "create" =>
            missions'[request[q].mission] = missions[request[q].mission],
         StoredInv', PlansAreAsAsked', RunsHaveTheirMission', SitesAreKept'
  PROVE  IInv'
<1>1. /\ request' \in [Requests -> RequestRows]
      /\ request'[c] = Idle
      /\ \A q \in Requests \ {c} : request'[q] = request[q]
  BY TypeFacts, IdleIs DEF End
<1>2. /\ holder' \in [Missions -> Requests \cup {NoValue}]
      /\ edited' \in [Missions -> SUBSET Fields]
      /\ \A m \in Missions : holder[m] # c => holder'[m] = holder[m] /\ edited'[m] = edited[m]
  BY TypeFacts DEF End
<1>3. TypeOK'
  BY <1>1, <1>2 DEF IInv, TypeOK, Inputted
<1>4. ASSUME NEW q \in Requests
      PROVE  Asking(request'[q]) /\ Locking(q, request[q])' /\ Creating(q, request[q])'
  <2>1. CASE q = c
    BY <2>1, <1>1, IdleIs DEF Locking, Creating
  <2>2. CASE q # c
    <3>1. request'[q] = request[q] /\ Asking(request[q]) /\ Locking(q, request[q])
          /\ Creating(q, request[q]) /\ request[q] \in RequestRows
      BY <2>2, <1>1, TypeFacts DEF IInv, RequestInv
    <3>2. Locking(q, request[q])'
      <4> SUFFICES ASSUME request[q].phase = "locked" PROVE Locking(q, request[q])'
        BY <3>1 DEF Locking
      <4>1. request[q].mission \in Missions
        BY <3>1, LockedIs
      <4>2. holder[request[q].mission] = q
        BY <3>1 DEF Locking
      <4>3. /\ holder'[request[q].mission] = q
            /\ edited'[request[q].mission] = edited[request[q].mission]
            /\ missions'[request[q].mission] = missions[request[q].mission]
        BY <4>1, <4>2, <1>2, <2>2
      <4> QED BY <3>1, <4>3 DEF Locking, Compared, Exists
    <3>3. Creating(q, request[q])'
      <4> SUFFICES ASSUME request[q].kind = "create"
                   PROVE  /\ ~Exists(request[q].mission)'
                          /\ \A p \in Requests \ {q} : request'[p].mission # request[q].mission
        BY <3>1 DEF Creating, Exists
      <4>1. request[q].mission # NoValue /\ missions'[request[q].mission] = missions[request[q].mission]
        BY <2>2, <3>1, MissionPlansAssumption DEF Asking
      <4>2. ~Exists(request[q].mission)'
        BY <3>1, <4>1 DEF Creating, Exists
      <4> QED BY <3>1, <4>1, <4>2, <1>1, IdleIs DEF Creating
    <3> QED BY <3>1, <3>2, <3>3
  <2> QED BY <2>1, <2>2
<1>5. RequestInv'
  BY <1>4 DEF RequestInv
<1> QED BY <1>3, <1>5 DEF IInv

\* A request that has the mission's row, or creates it, writes it.
LEMMA WritesStep ==
  ASSUME IInv, NEW c \in Requests, NEW m \in Missions, NEW row \in Rows \cup {NoValue},
         Writes(c, m, row), UNCHANGED <<runs, fields, sites, count>>,
         asked' \in [Missions -> Inputted],
         \/ holder[m] = c /\ Exists(m)
         \/ request[c].kind = "create" /\ request[c].mission = m,
         row # NoValue => Sound(row.stages) /\ SitesPresent(row.stages),
         \A r \in RunsOf(m) : row # NoValue /\ (runs[r].active => ~row.archived),
         \A n \in Missions \ {m} : asked'[n] = asked[n],
         row # NoValue => \A s \in DOMAIN asked'[m] : Kept(row.stages, s, asked'[m][s])
  PROVE  IInv'
<1>1. /\ missions' \in [Missions -> Rows \cup {NoValue}]
      /\ missions'[m] = row
      /\ \A n \in Missions \ {m} : missions'[n] = missions[n]
      /\ End(c)
  BY TypeFacts DEF Writes
<1>2. /\ runs' \in [Runs -> RunRows \cup {NoValue}]
      /\ sites' \in [Sites -> {"none", "present", "deleted"}]
  BY DEF IInv, TypeOK
<1>3. ASSUME NEW q \in Requests \ {c}, request[q].phase = "locked" \/ request[q].kind = "create"
      PROVE  missions'[request[q].mission] = missions[request[q].mission]
  <2>1. /\ Asking(request[q]) /\ Locking(q, request[q]) /\ Creating(q, request[q])
        /\ request[q] \in RequestRows /\ Creating(c, request[c])
    BY TypeFacts DEF IInv, RequestInv
  <2>2. request[q].mission \in Missions
    BY <1>3, <2>1, LockedIs DEF Asking
  <2>3. request[q].mission # m
    BY <1>3, <2>1 DEF Locking, Creating
  <2> QED BY <1>1, <2>2, <2>3
<1>4. StoredInv'
  <2>1. \A n \in Missions : missions'[n] # NoValue => Sound(missions'[n].stages)
    BY <1>1 DEF IInv, StoredInv, Exists
  <2>2. \A r \in Runs : runs'[r] # NoValue => Sound(runs'[r].stages)
    BY DEF IInv, StoredInv
  <2> QED BY <2>1, <2>2 DEF StoredInv, Exists
<1>5. PlansAreAsAsked'
  <2>1. ASSUME NEW n \in Missions, missions'[n] # NoValue, NEW s \in DOMAIN asked'[n]
        PROVE  Kept(missions'[n].stages, s, asked'[n][s])
    <3>1. CASE n = m
      BY <1>1, <2>1, <3>1
    <3>2. CASE n # m
      BY <1>1, <2>1, <3>2 DEF IInv, PlansAreAsAsked, Exists, Kept
    <3> QED BY <3>1, <3>2
  <2> QED BY <2>1 DEF PlansAreAsAsked, Exists, Kept
<1>6. RunsHaveTheirMission'
  <2>1. ASSUME NEW r \in Runs, runs[r] # NoValue
        PROVE  missions'[runs[r].mission] # NoValue
               /\ (runs[r].active => ~missions'[runs[r].mission].archived)
    <3>0. runs[r].mission \in Missions
      BY <2>1, TypeFacts DEF RunRows
    <3>1. CASE runs[r].mission = m
      BY <1>1, <2>1, <3>1 DEF RunsOf
    <3>2. CASE runs[r].mission # m
      BY <1>1, <2>1, <3>0, <3>2 DEF IInv, RunsHaveTheirMission, Exists
    <3> QED BY <3>1, <3>2
  <2> QED BY <2>1 DEF RunsHaveTheirMission, Exists
<1>7. SitesAreKept'
  <2>1. \A n \in Missions : missions'[n] # NoValue => SitesPresent(missions'[n].stages)
    BY <1>1 DEF IInv, SitesAreKept, Exists
  <2> QED BY <2>1 DEF SitesAreKept, Exists, SitesPresent
<1> QED BY <1>1, <1>2, <1>3, <1>4, <1>5, <1>6, <1>7, EndStep

\* What holds of a request that is ready to write.
LEMMA ReadyIs ==
  ASSUME IInv, NEW c \in Requests, NEW kind, Ready(c, kind)
  PROVE  LET r == request[c]
         IN  /\ r \in RequestRows /\ Asking(r) /\ r.kind = kind /\ r.todo = {}
             /\ r.inputs \in Inputted /\ r.planned \in Plans /\ r.stored \in Definition
             /\ r.mission \in Missions /\ holder[r.mission] = c /\ Exists(r.mission)
             /\ missions[r.mission] \in Rows
             /\ kind # "delete" => (missions[r.mission].archived <=> kind = "restore")
             /\ Locking(c, r)
<1>1. /\ request[c].kind = kind /\ request[c].phase = "locked" /\ request[c].todo = {}
      /\ request[c] \in RequestRows /\ Asking(request[c]) /\ Locking(c, request[c])
  BY TypeFacts DEF Ready, Planned, IInv, RequestInv
<1> QED BY <1>1, LockedIs, TypeFacts DEF Locking

LEMMA AskedInIs ==
  ASSUME NEW r, r.inputs \in Inputted
  PROVE  /\ AskedIn(r) \in Inputted
         /\ DOMAIN AskedIn(r) = InputsToPlan(r.inputs)
         /\ \A s \in DOMAIN AskedIn(r) : AskedIn(r)[s] = r.inputs[s]
<1>1. InputsToPlan(r.inputs) \subseteq DOMAIN r.inputs
  BY DEF InputsToPlan
<1>2. \A s \in DOMAIN r.inputs : s \in Stages /\ r.inputs[s] \in Input
  BY InputIs
<1>3. /\ DOMAIN AskedIn(r) = InputsToPlan(r.inputs)
      /\ \A s \in DOMAIN AskedIn(r) : AskedIn(r)[s] = r.inputs[s]
      /\ AskedIn(r) \in [DOMAIN AskedIn(r) -> Input]
  BY <1>1, <1>2 DEF AskedIn
<1> QED BY <1>1, <1>2, <1>3, InputtedIs

\* A row with other stages, another robot or another mark is a row.
LEMMA RowIs ==
  ASSUME NEW x \in Rows
  PROVE  /\ \A d \in Definition : /\ [x EXCEPT !.stages = d] \in Rows
                                  /\ [x EXCEPT !.stages = d].stages = d
                                  /\ [x EXCEPT !.stages = d].archived = x.archived
         /\ \A b \in Robots \cup {NoValue} : /\ [x EXCEPT !.robot = b] \in Rows
                                             /\ [x EXCEPT !.robot = b].stages = x.stages
                                             /\ [x EXCEPT !.robot = b].archived = x.archived
         /\ \A b \in BOOLEAN : /\ [x EXCEPT !.archived = b] \in Rows
                               /\ [x EXCEPT !.archived = b].stages = x.stages
                               /\ [x EXCEPT !.archived = b].archived = b
BY DEF Rows

LEMMA RunsOfAre ==
  ASSUME IInv, NEW m \in Missions, NEW r \in RunsOf(m)
  PROVE  Exists(m) /\ (runs[r].active => ~missions[m].archived)
BY DEF IInv, RunsHaveTheirMission, RunsOf

LEMMA StoredIs ==
  ASSUME IInv, NEW m \in Missions, Exists(m)
  PROVE  /\ Sound(missions[m].stages) /\ SitesPresent(missions[m].stages)
         /\ \A s \in DOMAIN asked[m] : Kept(missions[m].stages, s, asked[m][s])
BY DEF IInv, StoredInv, SitesAreKept, PlansAreAsAsked, Kept

\* A request that saves a mission writes a row of it with a new definition.
LEMMA SaveNewIs ==
  ASSUME IInv, NEW c \in Requests, SaveNew(c)
  PROVE  LET r == request[c]
             d == WithIds(r.inputs, r.planned, NoStages)
             row == [stages |-> d, archived |-> FALSE, robot |-> NoValue]
         IN  /\ r.kind = "create" /\ r.mission \in Missions /\ ~Exists(r.mission)
             /\ r.inputs \in Inputted /\ SitesPresent(d) /\ Writes(c, r.mission, row)
             /\ asked' = [asked EXCEPT ![r.mission] = AskedIn(r)]
             /\ UNCHANGED <<runs, fields, sites, count>>
             /\ d \in Definition /\ Sound(d) /\ row \in Rows
             /\ \A s \in InputsToPlan(r.inputs) : Kept(d, s, r.inputs[s])
<1> DEFINE r == request[c]
           d == WithIds(r.inputs, r.planned, NoStages)
           row == [stages |-> d, archived |-> FALSE, robot |-> NoValue]
<1>1. /\ r.kind = "create" /\ r.todo = {} /\ SitesPresent(d) /\ Writes(c, r.mission, row)
      /\ asked' = [asked EXCEPT ![r.mission] = AskedIn(r)]
      /\ UNCHANGED <<runs, fields, sites, count>>
  BY DEF SaveNew, Planned, catalogVars
<1>2. /\ Asking(r) /\ r.inputs \in Inputted /\ r.planned \in Plans /\ Creating(c, r)
  BY TypeFacts DEF IInv, RequestInv
<1>3. r.mission \in Missions /\ ~Exists(r.mission)
  BY <1>1, <1>2 DEF Asking, Creating
<1>4. /\ DOMAIN r.planned \subseteq InputsToPlan(r.inputs)
      /\ InputsToPlan(r.inputs) \subseteq DOMAIN r.planned
      /\ CoverageInputs(r.inputs) \subseteq InputsToPlan(r.inputs)
      /\ \A s \in DOMAIN r.planned : Answers(r.planned[s], r.inputs[s])
  BY <1>1, <1>2 DEF Asking, Planners, CoverageInputs, InputsToPlan
<1>5. /\ d \in Definition /\ Sound(d)
      /\ \A s \in InputsToPlan(r.inputs) : Kept(d, s, r.inputs[s])
  BY <1>2, <1>4, NoStagesFacts, WithIdsIs
<1>6. row \in Rows
  BY <1>5 DEF Rows
<1> QED BY <1>1, <1>2, <1>3, <1>5, <1>6

LEMMA SaveNewStep ==
  ASSUME IInv, NEW c \in Requests, SaveNew(c)
  PROVE  IInv'
<1> DEFINE r == request[c]
           d == WithIds(r.inputs, r.planned, NoStages)
           row == [stages |-> d, archived |-> FALSE, robot |-> NoValue]
<1>1. /\ r.kind = "create" /\ r.mission \in Missions /\ ~Exists(r.mission)
      /\ r.inputs \in Inputted /\ SitesPresent(d) /\ Writes(c, r.mission, row)
      /\ asked' = [asked EXCEPT ![r.mission] = AskedIn(r)]
      /\ UNCHANGED <<runs, fields, sites, count>>
      /\ d \in Definition /\ Sound(d) /\ row \in Rows /\ row.stages = d
      /\ \A s \in InputsToPlan(r.inputs) : Kept(d, s, r.inputs[s])
  BY SaveNewIs
<1> HIDE DEF d, row
<1>2. /\ asked' \in [Missions -> Inputted]
      /\ asked'[r.mission] = AskedIn(r)
      /\ \A n \in Missions \ {r.mission} : asked'[n] = asked[n]
  BY <1>1, AskedInIs, TypeFacts
<1>3. \A s \in DOMAIN asked'[r.mission] : Kept(d, s, asked'[r.mission][s])
  BY <1>1, <1>2, AskedInIs
<1>4. RunsOf(r.mission) = {}
  BY <1>1, RunsOfAre
<1> QED BY <1>1, <1>2, <1>3, <1>4, WritesStep

LEMMA SaveUpdateIs ==
  ASSUME IInv, NEW c \in Requests, SaveUpdate(c)
  PROVE  LET r == request[c]
             d == WithIds(r.inputs, r.planned, r.stored)
             row == [missions[r.mission] EXCEPT !.stages = d]
         IN  /\ r.mission \in Missions /\ holder[r.mission] = c /\ Exists(r.mission)
             /\ missions[r.mission] \in Rows /\ ~missions[r.mission].archived
             /\ r.inputs \in Inputted /\ SitesPresent(d) /\ Writes(c, r.mission, row)
             /\ asked' = [asked EXCEPT ![r.mission] = AskedIn(r)]
             /\ UNCHANGED <<runs, fields, sites, count>>
             /\ d \in Definition /\ Sound(d)
             /\ \A s \in InputsToPlan(r.inputs) : Kept(d, s, r.inputs[s])
<1> DEFINE r == request[c]
           d == WithIds(r.inputs, r.planned, r.stored)
           row == [missions[r.mission] EXCEPT !.stages = d]
<1>1. /\ Ready(c, "update") /\ Resolvable(r.inputs, r.named, r.planned, r.stored)
      /\ SitesPresent(d) /\ Writes(c, r.mission, row)
      /\ asked' = [asked EXCEPT ![r.mission] = AskedIn(r)]
      /\ UNCHANGED <<runs, fields, sites, count>>
  BY DEF SaveUpdate, catalogVars
<1>2. /\ Asking(r) /\ r.kind = "update" /\ r.todo = {}
      /\ r.inputs \in Inputted /\ r.planned \in Plans /\ r.stored \in Definition
      /\ r.mission \in Missions /\ holder[r.mission] = c /\ Exists(r.mission)
      /\ missions[r.mission] \in Rows /\ ~missions[r.mission].archived
  BY <1>1, ReadyIs
<1>3. /\ DOMAIN r.planned \subseteq InputsToPlan(r.inputs)
      /\ \A s \in DOMAIN r.planned : Answers(r.planned[s], r.inputs[s])
      /\ \A s \in CoverageInputs(r.inputs) \ DOMAIN r.planned : IsCoverage(r.stored, s)
      /\ \A s \in InputsToPlan(r.inputs) \ DOMAIN r.planned : Kept(r.stored, s, r.inputs[s])
      /\ Sound(r.stored)
  BY <1>1, <1>2 DEF Asking, Planners, Resolvable, Ready
<1>4. /\ d \in Definition /\ Sound(d)
      /\ \A s \in InputsToPlan(r.inputs) : Kept(d, s, r.inputs[s])
  BY <1>2, <1>3, WithIdsIs
<1> QED BY <1>1, <1>2, <1>4

LEMMA SaveUpdateStep ==
  ASSUME IInv, NEW c \in Requests, SaveUpdate(c)
  PROVE  IInv'
<1> DEFINE r == request[c]
           d == WithIds(r.inputs, r.planned, r.stored)
           row == [missions[r.mission] EXCEPT !.stages = d]
<1>1. /\ r.mission \in Missions /\ holder[r.mission] = c /\ Exists(r.mission)
      /\ missions[r.mission] \in Rows /\ ~missions[r.mission].archived
      /\ r.inputs \in Inputted /\ SitesPresent(d) /\ Writes(c, r.mission, row)
      /\ asked' = [asked EXCEPT ![r.mission] = AskedIn(r)]
      /\ UNCHANGED <<runs, fields, sites, count>>
      /\ d \in Definition /\ Sound(d)
      /\ \A s \in InputsToPlan(r.inputs) : Kept(d, s, r.inputs[s])
  BY SaveUpdateIs
<1> HIDE DEF d
<1>2. row \in Rows /\ row.stages = d /\ ~row.archived /\ row # NoValue
  BY <1>1, RowIs, MissionPlansAssumption
<1> HIDE DEF row
<1>3. /\ asked' \in [Missions -> Inputted]
      /\ asked'[r.mission] = AskedIn(r)
      /\ \A n \in Missions \ {r.mission} : asked'[n] = asked[n]
  BY <1>1, AskedInIs, TypeFacts
<1>4. \A s \in DOMAIN asked'[r.mission] : Kept(d, s, asked'[r.mission][s])
  BY <1>1, <1>3, AskedInIs
<1> QED BY <1>1, <1>2, <1>3, <1>4, WritesStep

LEMMA SaveReplacementIs ==
  ASSUME IInv, NEW c \in Requests, SaveReplacement(c)
  PROVE  LET r == request[c]
         IN  /\ r.mission \in Missions /\ holder[r.mission] = c /\ Exists(r.mission)
             /\ missions[r.mission] \in Rows /\ ~missions[r.mission].archived
             /\ r.inputs \in Inputted
             /\ asked' = [asked EXCEPT ![r.mission] = AskedIn(r)]
             /\ UNCHANGED <<runs, fields, sites, count>>
             /\ \E d \in Definition :
                  /\ Sound(d) /\ SitesPresent(d)
                  /\ Writes(c, r.mission, [missions[r.mission] EXCEPT !.stages = d])
                  /\ \A s \in InputsToPlan(r.inputs) : Kept(d, s, r.inputs[s])
<1> DEFINE r == request[c]
<1>1. /\ Ready(c, "replan")
      /\ asked' = [asked EXCEPT ![r.mission] = AskedIn(r)]
      /\ UNCHANGED <<runs, fields, sites, count>>
  BY DEF SaveReplacement, catalogVars
<1>2. /\ Asking(r) /\ r.kind = "replan" /\ r.todo = {}
      /\ r.inputs \in Inputted /\ r.planned \in Plans /\ r.stored \in Definition
      /\ r.mission \in Missions /\ holder[r.mission] = c /\ Exists(r.mission)
      /\ missions[r.mission] \in Rows /\ ~missions[r.mission].archived
  BY <1>1, ReadyIs
<1>3. PICK s \in r.named :
        /\ s \in DOMAIN r.stored
        /\ SitesPresent(ReplaceStage(r.stored, s, r.planned[s]))
        /\ Writes(c, r.mission, [missions[r.mission] EXCEPT
                    !.stages = ReplaceStage(r.stored, s, r.planned[s])])
  BY DEF SaveReplacement
<1> DEFINE d == ReplaceStage(r.stored, s, r.planned[s])
<1>4. /\ s \in DOMAIN r.planned /\ Answers(r.planned[s], r.inputs[s]) /\ Sound(r.stored)
      /\ InputsToPlan(r.inputs) = {s}
  BY <1>2 DEF Asking, Planners
<1>5. d \in Definition /\ Sound(d) /\ Kept(d, s, r.inputs[s])
  <2>1. r.planned[s] \in PlanOf
    BY <1>2, <1>4, PlansIs
  <2> QED BY <1>2, <1>3, <1>4, <2>1, ReplaceStageIs
<1>6. SitesPresent(d) /\ Writes(c, r.mission, [missions[r.mission] EXCEPT !.stages = d])
  BY <1>3
<1> HIDE DEF d
<1> QED BY <1>1, <1>2, <1>4, <1>5, <1>6

LEMMA SaveReplacementStep ==
  ASSUME IInv, NEW c \in Requests, SaveReplacement(c)
  PROVE  IInv'
<1> DEFINE r == request[c]
<1>1. /\ r.mission \in Missions /\ holder[r.mission] = c /\ Exists(r.mission)
      /\ missions[r.mission] \in Rows /\ ~missions[r.mission].archived
      /\ r.inputs \in Inputted
      /\ asked' = [asked EXCEPT ![r.mission] = AskedIn(r)]
      /\ UNCHANGED <<runs, fields, sites, count>>
  BY SaveReplacementIs
<1>2. PICK d \in Definition :
        /\ Sound(d) /\ SitesPresent(d)
        /\ Writes(c, r.mission, [missions[r.mission] EXCEPT !.stages = d])
        /\ \A s \in InputsToPlan(r.inputs) : Kept(d, s, r.inputs[s])
  BY SaveReplacementIs
<1> DEFINE row == [missions[r.mission] EXCEPT !.stages = d]
<1>3. /\ row \in Rows /\ row.stages = d /\ ~row.archived /\ row # NoValue
      /\ Writes(c, r.mission, row)
  BY <1>1, <1>2, RowIs, MissionPlansAssumption
<1> HIDE DEF row
<1>4. /\ asked' \in [Missions -> Inputted]
      /\ asked'[r.mission] = AskedIn(r)
      /\ \A n \in Missions \ {r.mission} : asked'[n] = asked[n]
  BY <1>1, AskedInIs, TypeFacts
<1>5. \A t \in DOMAIN asked'[r.mission] : Kept(d, t, asked'[r.mission][t])
  BY <1>1, <1>2, <1>4, AskedInIs
<1> QED BY <1>1, <1>2, <1>3, <1>4, <1>5, WritesStep

\* Writing a row that keeps the stages, of a mission with none or no active run
\* when the row is archived.
LEMMA SameStagesStep ==
  ASSUME IInv, NEW c \in Requests, NEW m \in Missions, NEW row \in Rows, Writes(c, m, row),
         holder[m] = c, Exists(m), row.stages = missions[m].stages,
         UNCHANGED <<runs, fields, sites, count, asked>>,
         row.archived => missions[m].archived \/ ActiveRuns(m) = {}
  PROVE  IInv'
<1>1. row # NoValue
  BY MissionPlansAssumption
<1>2. Sound(row.stages) /\ SitesPresent(row.stages)
      /\ \A s \in DOMAIN asked'[m] : Kept(row.stages, s, asked'[m][s])
  BY StoredIs
<1>3. \A r \in RunsOf(m) : runs[r].active => ~row.archived
  BY RunsOfAre DEF ActiveRuns, RunsOf
<1>4. asked' \in [Missions -> Inputted]
  BY TypeFacts
<1> QED BY <1>1, <1>2, <1>3, <1>4, WritesStep

LEMMA SaveAssignmentStep ==
  ASSUME IInv, NEW c \in Requests, SaveAssignment(c)
  PROVE  IInv'
<1> DEFINE r == request[c]
           row == [missions[r.mission] EXCEPT !.robot = r.robot]
<1>1. /\ Ready(c, "assign") \/ Ready(c, "unassign")
      /\ Writes(c, r.mission, row)
      /\ UNCHANGED <<runs, fields, sites, count, asked>>
  BY DEF SaveAssignment, catalogVars
<1>2. /\ r \in RequestRows /\ r.mission \in Missions /\ holder[r.mission] = c
      /\ Exists(r.mission) /\ missions[r.mission] \in Rows /\ ~missions[r.mission].archived
  BY <1>1, ReadyIs
<1>3. r.robot \in Robots \cup {NoValue}
  BY <1>2 DEF RequestRows
<1>4. row \in Rows /\ row.stages = missions[r.mission].stages /\ ~row.archived
  BY <1>2, <1>3, RowIs
<1> QED BY <1>1, <1>2, <1>4, SameStagesStep

LEMMA DeleteStep ==
  ASSUME IInv, NEW c \in Requests, Delete(c)
  PROVE  IInv'
<1> DEFINE m == request[c].mission
           row == [missions[m] EXCEPT !.archived = TRUE]
<1>1. /\ Ready(c, "delete") /\ ActiveRuns(m) = {}
      /\ Writes(c, m, IF RunsOf(m) = {} THEN NoValue ELSE row)
      /\ asked' = IF RunsOf(m) = {} THEN [asked EXCEPT ![m] = NoStages] ELSE asked
      /\ UNCHANGED <<runs, fields, sites, count>>
  BY DEF Delete, catalogVars
<1>2. m \in Missions /\ holder[m] = c /\ Exists(m) /\ missions[m] \in Rows
  BY <1>1, ReadyIs
<1>3. CASE RunsOf(m) = {}
  <2>1. Writes(c, m, NoValue)
    BY <1>1, <1>3
  <2>2. asked' \in [Missions -> Inputted] /\ \A n \in Missions \ {m} : asked'[n] = asked[n]
    BY <1>1, <1>3, NoStagesFacts, TypeFacts
  <2> QED BY <1>1, <1>2, <1>3, <2>1, <2>2, WritesStep
<1>4. CASE RunsOf(m) # {}
  <2>1. Writes(c, m, row) /\ asked' = asked
    BY <1>1, <1>4
  <2>2. row \in Rows /\ row.stages = missions[m].stages
    BY <1>2, RowIs
  <2> QED BY <1>1, <1>2, <2>1, <2>2, SameStagesStep
<1> QED BY <1>3, <1>4

LEMMA RestoreStep ==
  ASSUME IInv, NEW c \in Requests, Restore(c)
  PROVE  IInv'
<1> DEFINE m == request[c].mission
           row == [missions[m] EXCEPT !.archived = FALSE]
<1>1. /\ Ready(c, "restore") /\ Writes(c, m, row)
      /\ UNCHANGED <<runs, fields, sites, count, asked>>
  BY DEF Restore, catalogVars
<1>2. m \in Missions /\ holder[m] = c /\ Exists(m) /\ missions[m] \in Rows
  BY <1>1, ReadyIs
<1>3. row \in Rows /\ row.stages = missions[m].stages /\ ~row.archived
  BY <1>2, RowIs
<1> QED BY <1>1, <1>2, <1>3, SameStagesStep

LEMMA CreateRunStep ==
  ASSUME IInv, NEW c \in Requests, CreateRun(c)
  PROVE  IInv'
<1> DEFINE r == request[c]
           run == [mission |-> r.mission, robot |-> r.robot, active |-> TRUE,
                   stages |-> r.stored, anchors |-> ReferencedSites(r.stored)]
<1>1. /\ Ready(c, "dispatch") /\ End(c)
      /\ UNCHANGED <<missions, fields, sites, asked, count>>
  BY DEF CreateRun, catalogVars
<1>2. PICK q \in Runs : runs[q] = NoValue /\ runs' = [runs EXCEPT ![q] = run]
  BY DEF CreateRun
<1>3. /\ Asking(r) /\ r.kind = "dispatch" /\ r.phase = "locked" /\ r.stored \in Definition
      /\ r.mission \in Missions /\ Exists(r.mission) /\ ~missions[r.mission].archived
  BY <1>1, ReadyIs DEF Ready
<1>4. run \in RunRows /\ run.mission = r.mission /\ run.stages = r.stored
  <2>1. r.robot \in Robots /\ Sound(r.stored)
    BY <1>3 DEF Asking
  <2>2. ReferencedSites(r.stored) \in SUBSET Sites
    BY <1>3, StageFacts DEF ReferencedSites
  <2> QED BY <1>3, <2>1, <2>2 DEF RunRows
<1> HIDE DEF run
<1>5. /\ runs' \in [Runs -> RunRows \cup {NoValue}] /\ runs'[q] = run
      /\ \A p \in Runs \ {q} : runs'[p] = runs[p]
  BY <1>2, <1>4, TypeFacts
<1>6. StoredInv'
  BY <1>1, <1>3, <1>4, <1>5 DEF IInv, StoredInv, Exists, Asking
<1>7. RunsHaveTheirMission'
  BY <1>1, <1>3, <1>4, <1>5 DEF IInv, RunsHaveTheirMission, Exists
<1>8. PlansAreAsAsked' /\ SitesAreKept'
  BY <1>1 DEF IInv, PlansAreAsAsked, SitesAreKept, Exists, SitesPresent
<1> QED BY <1>1, <1>5, <1>6, <1>7, <1>8, TypeFacts, EndStep DEF IInv, TypeOK

LEMMA DeleteSiteStep ==
  ASSUME IInv, NEW c \in Requests, DeleteSite(c)
  PROVE  IInv'
<1> DEFINE a == request[c].site
<1>1. /\ request[c].kind = "site" /\ End(c)
      /\ \A m \in Missions : Exists(m) => a \notin ReferencedSites(missions[m].stages)
      /\ sites' = [sites EXCEPT ![a] = "deleted"]
      /\ UNCHANGED <<missions, runs, fields, asked, count>>
  BY DEF DeleteSite
<1>2. a \in Sites /\ sites \in [Sites -> {"none", "present", "deleted"}]
  BY <1>1 DEF IInv, RequestInv, Asking, TypeOK
<1>3. /\ sites' \in [Sites -> {"none", "present", "deleted"}]
      /\ \A b \in Sites \ {a} : sites'[b] = sites[b]
  BY <1>1, <1>2
<1>4. \A m \in Missions : Exists(m) => ReferencedSites(missions[m].stages) \subseteq Sites
  BY TypeFacts, StageFacts DEF ReferencedSites
<1>5. SitesAreKept'
  BY <1>1, <1>3, <1>4 DEF IInv, SitesAreKept, SitesPresent, Exists
<1>6. StoredInv' /\ PlansAreAsAsked' /\ RunsHaveTheirMission'
  BY <1>1 DEF IInv, StoredInv, PlansAreAsAsked, RunsHaveTheirMission, Exists
<1> QED BY <1>1, <1>3, <1>5, <1>6, TypeFacts, EndStep

LEMMA AbortStep ==
  ASSUME IInv, NEW c \in Requests, Abort(c)
  PROVE  IInv'
<1>1. End(c) /\ UNCHANGED <<missions, runs, fields, sites, asked, count>>
  BY DEF Abort, catalogVars
<1>2. StoredInv' /\ PlansAreAsAsked' /\ RunsHaveTheirMission' /\ SitesAreKept'
  BY <1>1 DEF IInv, StoredInv, PlansAreAsAsked, RunsHaveTheirMission, SitesAreKept, SitesPresent, Exists
<1>3. sites \in [Sites -> {"none", "present", "deleted"}]
  BY DEF IInv, TypeOK
<1> QED BY <1>1, <1>2, <1>3, TypeFacts, EndStep

-----------------------------------------------------------------------------
(* Steps of no request                                                     *)

\* A step that leaves the requests and the locks alone.
LEMMA OtherStep ==
  ASSUME IInv, UNCHANGED <<missions, holder, request, asked>>,
         TypeOK', StoredInv', RunsHaveTheirMission', SitesAreKept',
         \A c \in Requests : Locking(c, request[c])'
  PROVE  IInv'
<1>1. RequestInv'
  BY DEF IInv, RequestInv, Asking, Creating, Exists
<1>2. PlansAreAsAsked'
  BY DEF IInv, PlansAreAsAsked, Exists
<1> QED BY <1>1, <1>2 DEF IInv

LEMMA SetFieldStep ==
  ASSUME IInv, NEW f \in Fields, NEW b \in Boundaries \cup {"deleted"}, SetField(f, b)
  PROVE  IInv'
<1>1. /\ fields' = [fields EXCEPT ![f] = b]
      /\ edited' = [m \in Missions |-> IF holder[m] = NoValue THEN {} ELSE edited[m] \cup {f}]
      /\ UNCHANGED <<missions, runs, sites, holder, request, asked>>
      /\ count' \in [Counted -> Nat]
  <2>1. UNCHANGED count \/ Counts("edits")
    BY DEF SetField
  <2>2. count' \in [Counted -> Nat]
    BY <2>1, CountsType DEF Counted, IInv, TypeOK
  <2> QED BY <2>2 DEF SetField, WriteField
<1>2. TypeOK'
  <2>1. fields' \in [Fields -> Boundaries \cup {"none", "deleted"}]
    BY <1>1 DEF IInv, TypeOK
  <2>2. edited' \in [Missions -> SUBSET Fields]
    BY <1>1, TypeFacts
  <2> QED BY <1>1, <2>1, <2>2 DEF IInv, TypeOK
<1>3. ASSUME NEW c \in Requests PROVE Locking(c, request[c])'
  <2> SUFFICES ASSUME request[c].phase = "locked" PROVE Locking(c, request[c])'
    BY <1>1 DEF Locking
  <2>1. /\ Locking(c, request[c]) /\ Asking(request[c]) /\ request[c] \in RequestRows
    BY TypeFacts DEF IInv, RequestInv
  <2>2. /\ holder[request[c].mission] = c /\ c # NoValue
        /\ request[c].mission \in Missions
    BY <2>1, LockedIs, MissionPlansAssumption DEF Locking
  <2>3. edited'[request[c].mission] = edited[request[c].mission] \cup {f}
    BY <1>1, <2>2
  <2>4. \A g : g # f => fields'[g] = fields[g]
    <3>1. fields \in [Fields -> Boundaries \cup {"none", "deleted"}]
      BY DEF IInv, TypeOK
    <3> QED BY <1>1, <3>1
  <2>5. Compared(request[c]) => Compared(request[c])'
    BY <1>1, <2>3, <2>4 DEF Compared
  <2> QED BY <1>1, <2>1, <2>5 DEF Locking, Exists
<1>4. StoredInv' /\ RunsHaveTheirMission' /\ SitesAreKept'
  BY <1>1 DEF IInv, StoredInv, RunsHaveTheirMission, SitesAreKept, SitesPresent, Exists
<1> QED BY <1>1, <1>2, <1>3, <1>4, OtherStep

LEMMA CreateSiteStep ==
  ASSUME IInv, NEW a \in Sites, CreateSite(a)
  PROVE  IInv'
<1>1. /\ sites' = [sites EXCEPT ![a] = "present"]
      /\ UNCHANGED <<missions, runs, fields, holder, request, edited, asked, count>>
  BY DEF CreateSite
<1>2. TypeOK'
  BY <1>1 DEF IInv, TypeOK
<1>3. \A c \in Requests : Locking(c, request[c])'
  BY <1>1 DEF IInv, RequestInv, Locking, Compared, Exists
<1>4. StoredInv' /\ RunsHaveTheirMission'
  BY <1>1 DEF IInv, StoredInv, RunsHaveTheirMission, Exists
<1>5. SitesAreKept'
  <2>1. \A b : sites[b] = "present" => sites'[b] = "present"
    BY <1>1 DEF IInv, TypeOK
  <2> QED BY <1>1, <2>1 DEF IInv, SitesAreKept, SitesPresent, Exists
<1> QED BY <1>1, <1>2, <1>3, <1>4, <1>5, OtherStep

LEMMA RunStep ==
  ASSUME IInv, NEW r \in Runs, RunEnds(r) \/ DeleteRun(r)
  PROVE  IInv'
<1>1. /\ runs' = [runs EXCEPT ![r].active = FALSE] \/ runs' = [runs EXCEPT ![r] = NoValue]
      /\ runs[r] # NoValue
      /\ UNCHANGED <<missions, fields, sites, holder, request, edited, asked, count>>
  BY DEF RunEnds, DeleteRun, catalogVars
<1>2. runs[r] \in RunRows
  BY <1>1, TypeFacts
<1>3. /\ [runs[r] EXCEPT !.active = FALSE] \in RunRows
      /\ [runs[r] EXCEPT !.active = FALSE].mission = runs[r].mission
      /\ [runs[r] EXCEPT !.active = FALSE].stages = runs[r].stages
      /\ ~[runs[r] EXCEPT !.active = FALSE].active
  BY <1>2 DEF RunRows
<1>4. /\ runs' \in [Runs -> RunRows \cup {NoValue}]
      /\ \A q \in Runs : runs'[q] # NoValue =>
            /\ runs[q] # NoValue
            /\ runs'[q].mission = runs[q].mission /\ runs'[q].stages = runs[q].stages
            /\ runs'[q].active => runs[q].active
  BY <1>1, <1>3, TypeFacts
<1>5. TypeOK'
  BY <1>1, <1>4 DEF IInv, TypeOK
<1>6. \A c \in Requests : Locking(c, request[c])'
  BY <1>1 DEF IInv, RequestInv, Locking, Compared, Exists
<1>7. StoredInv' /\ RunsHaveTheirMission' /\ SitesAreKept'
  BY <1>1, <1>4 DEF IInv, StoredInv, RunsHaveTheirMission, SitesAreKept, SitesPresent, Exists
<1> QED BY <1>1, <1>5, <1>6, <1>7, OtherStep

-----------------------------------------------------------------------------
(* The invariant holds                                                     *)

LEMMA InitHolds == Init => IInv
<1> SUFFICES ASSUME Init PROVE IInv
  OBVIOUS
<1>1. \A m \in Missions : Exists(m) =>
        \E d \in Stored : missions[m] = [stages |-> d, archived |-> FALSE, robot |-> NoValue]
  BY DEF Init, Exists
<1>2. \A d \in Stored : d \in Definition /\ Sound(d)
  BY MissionPlansAssumption DEF Sound
<1>3. \A m \in Missions : Exists(m) =>
        /\ missions[m] \in Rows /\ missions[m].stages \in Definition /\ Sound(missions[m].stages)
        /\ SitesPresent(missions[m].stages)
  <2>1. \A d \in Definition : [stages |-> d, archived |-> FALSE, robot |-> NoValue] \in Rows
    BY DEF Rows
  <2>2. \A m \in Missions : Exists(m) => SitesPresent(missions[m].stages)
    BY DEF Init
  <2>3. ASSUME NEW m \in Missions, Exists(m)
        PROVE  missions[m] \in Rows /\ missions[m].stages \in Definition /\ Sound(missions[m].stages)
    <3>1. PICK d \in Stored : missions[m] = [stages |-> d, archived |-> FALSE, robot |-> NoValue]
      BY <1>1, <2>3
    <3>2. d \in Definition /\ Sound(d) /\ missions[m].stages = d
      BY <1>2, <3>1
    <3> QED BY <2>1, <3>1, <3>2
  <2> QED BY <2>2, <2>3
<1>4. \A d \in Definition : ReferencedSites(d) \subseteq Sites
  BY StageFacts DEF ReferencedSites
<1>5. \A r \in Runs : runs[r] # NoValue =>
        /\ runs[r] \in RunRows /\ Sound(runs[r].stages) /\ Exists(runs[r].mission)
        /\ ~runs[r].active
  <2> SUFFICES ASSUME NEW r \in Runs, runs[r] # NoValue
               PROVE  /\ runs[r] \in RunRows /\ Sound(runs[r].stages) /\ Exists(runs[r].mission)
                      /\ ~runs[r].active
    OBVIOUS
  <2>1. PICK m \in Missions : Exists(m) /\ runs[r] \in PastRuns(m)
    BY DEF Init
  <2>2. missions[m].stages \in Definition /\ Sound(missions[m].stages)
        /\ ReferencedSites(missions[m].stages) \subseteq Sites
    BY <2>1, <1>3, <1>4
  <2> QED BY <2>1, <2>2 DEF PastRuns, RunRows
<1>6. TypeOK
  <2>1. missions \in [Missions -> Rows \cup {NoValue}]
    BY <1>3 DEF Init, Exists
  <2>2. runs \in [Runs -> RunRows \cup {NoValue}]
    BY <1>5 DEF Init
  <2>3. /\ fields \in [Fields -> Boundaries \cup {"none", "deleted"}]
        /\ sites \in [Sites -> {"none", "present", "deleted"}]
        /\ holder \in [Missions -> Requests \cup {NoValue}]
        /\ request \in [Requests -> RequestRows]
        /\ edited \in [Missions -> SUBSET Fields]
        /\ count \in [Counted -> Nat]
    BY IdleIs DEF Init
  <2>4. asked \in [Missions -> Inputted]
    BY NoStagesFacts DEF Init
  <2> QED BY <2>1, <2>2, <2>3, <2>4 DEF TypeOK, Inputted
<1>7. RequestInv
  BY IdleIs DEF Init, RequestInv, Locking, Creating
<1>8. StoredInv /\ RunsHaveTheirMission /\ SitesAreKept
  BY <1>3, <1>5 DEF StoredInv, RunsHaveTheirMission, SitesAreKept
<1>9. PlansAreAsAsked
  BY NoStagesFacts DEF Init, PlansAreAsAsked
<1> QED BY <1>6, <1>7, <1>8, <1>9 DEF IInv

LEMMA StepHolds == IInv /\ [Next]_vars => IInv'
<1> SUFFICES ASSUME IInv, [Next]_vars PROVE IInv'
  OBVIOUS
<1>1. ASSUME NEW c \in Requests, Begin(c) PROVE IInv'
  <2>1. CASE BeginCreate(c)
    BY <2>1, BeginCreateStep
  <2>2. CASE BeginUpdate(c)
    BY <2>2, BeginUpdateStep
  <2>3. CASE BeginReplan(c)
    BY <2>3, BeginReplanStep
  <2>4. ASSUME NEW kind \in LockedKinds, BeginLocked(c, kind) PROVE IInv'
    BY <2>4, BeginLockedStep
  <2>5. CASE BeginSiteDelete(c)
    BY <2>5, BeginSiteDeleteStep
  <2> QED BY <1>1, <2>1, <2>2, <2>3, <2>4, <2>5 DEF Begin
<1>2. ASSUME NEW c \in Requests, Step(c) PROVE IInv'
  <2>1. ASSUME NEW s \in Stages, PlanOrKeep(c, s) \/ CompareBoundary(c, s) PROVE IInv'
    BY <2>1, PlanOrKeepStep, CompareBoundaryStep
  <2>2. CASE PlannerAnswers(c) \/ FinishPlanning(c) \/ Lock(c)
    BY <2>2, PlannerAnswersStep, FinishPlanningStep, LockStep
  <2>3. CASE SaveNew(c) \/ SaveUpdate(c) \/ SaveReplacement(c) \/ SaveAssignment(c)
    BY <2>3, SaveNewStep, SaveUpdateStep, SaveReplacementStep, SaveAssignmentStep
  <2>4. CASE CreateRun(c) \/ Delete(c) \/ Restore(c) \/ DeleteSite(c) \/ Abort(c)
    BY <2>4, CreateRunStep, DeleteStep, RestoreStep, DeleteSiteStep, AbortStep
  <2> QED BY <1>2, <2>1, <2>2, <2>3, <2>4 DEF Step
<1>3. ASSUME NEW f \in Fields, NEW b \in Boundaries \cup {"deleted"}, SetField(f, b) PROVE IInv'
  BY <1>3, SetFieldStep
<1>4. ASSUME NEW a \in Sites, CreateSite(a) PROVE IInv'
  BY <1>4, CreateSiteStep
<1>5. ASSUME NEW r \in Runs, RunEnds(r) \/ DeleteRun(r) PROVE IInv'
  BY <1>5, RunStep
<1>6. CASE UNCHANGED vars
  <2>1. UNCHANGED <<missions, runs, fields, sites, holder, request, edited, asked, count>>
    BY <1>6 DEF vars, catalogVars
  <2>2. TypeOK' /\ StoredInv' /\ RunsHaveTheirMission' /\ SitesAreKept'
    BY <2>1 DEF IInv, TypeOK, StoredInv, RunsHaveTheirMission, SitesAreKept, SitesPresent, Exists
  <2>3. \A c \in Requests : Locking(c, request[c])'
    BY <2>1 DEF IInv, RequestInv, Locking, Compared, Exists
  <2> QED BY <2>1, <2>2, <2>3, OtherStep
<1> QED BY <1>1, <1>2, <1>3, <1>4, <1>5, <1>6 DEF Next

\* What the named invariants follow from, in every reachable state.
LEMMA Inductive == Spec => []IInv
<1> QED BY InitHolds, StepHolds, PTL DEF Spec

\* The state is well typed: rows, requests in progress and the histories the
\* properties speak of (mission_management_service.py, coverage_planning_service.py).
THEOREM TypeCorrect == Spec => []TypeOK
<1>1. IInv => TypeOK
  BY DEF IInv
<1> QED BY <1>1, Inductive, PTL

\* Every path in a definition or in a run's copy was laid out in the boundary
\* whose digest it carries, whatever is edited while the planner works
\* (coverage_stage_planner.py:plan_coverage_stage).
THEOREM PathsAreSound == Spec => []PathsAreOfTheirBoundary
<1>1. IInv => PathsAreOfTheirBoundary
  BY DEF IInv, StoredInv, PathsAreOfTheirBoundary, Definitions, Sound
<1> QED BY <1>1, Inductive, PTL

\* What a save gave planning inputs for is planned from these inputs, also where
\* the stage was kept by a comparison without the lock (update,
\* _replan_changed_meanwhile).
THEOREM PlansAnswer == Spec => []PlansAreAsAsked
<1>1. IInv => PlansAreAsAsked
  BY DEF IInv
<1> QED BY <1>1, Inductive, PTL

\* Every run is of a mission that exists and, while it is active, is not
\* archived (delete and prepare under get_for_update).
THEOREM RunsKeepTheirMission == Spec => []RunsHaveTheirMission
<1>1. IInv => RunsHaveTheirMission
  BY DEF IInv
<1> QED BY <1>1, Inductive, PTL

\* The sites of the stored stages are there: the foreign key and the check of a
\* save leave no gap (SiteManagementService.delete, _validate_sites_exist).
THEOREM SitesStay == Spec => []SitesAreKept
<1>1. IInv => SitesAreKept
  BY DEF IInv
<1> QED BY <1>1, Inductive, PTL

-----------------------------------------------------------------------------
(* What a step may do                                                      *)

\* The only step that records a run.
LEMMA RunIsCreated ==
  ASSUME IInv, [Next]_vars, NEW r \in Runs, runs[r] = NoValue, runs'[r] # NoValue
  PROVE  \E c \in Requests :
            /\ CreateRun(c)
            /\ runs'[r].mission = request[c].mission /\ runs'[r].stages = request[c].stored
            /\ runs'[r].robot = request[c].robot
<1>1. ASSUME NEW c \in Requests, Begin(c) PROVE UNCHANGED runs
  BY <1>1 DEF Begin, BeginCreate, BeginUpdate, BeginReplan, BeginLocked, BeginSiteDelete, Begins
<1>2. ASSUME NEW c \in Requests, Step(c), ~CreateRun(c) PROVE UNCHANGED runs
  BY <1>2 DEF Step, PlanOrKeep, CompareBoundary, PlannerAnswers, FinishPlanning, Lock, SaveNew,
     SaveUpdate, SaveReplacement, SaveAssignment, Delete, Restore, DeleteSite, Abort
<1>3. ASSUME NEW f \in Fields, NEW b, SetField(f, b) PROVE UNCHANGED runs
  BY <1>3 DEF SetField
<1>4. ASSUME NEW a \in Sites, CreateSite(a) PROVE UNCHANGED runs
  BY <1>4 DEF CreateSite
<1>5. ASSUME NEW q \in Runs, RunEnds(q) \/ DeleteRun(q) PROVE FALSE
  <2>1. runs' = [runs EXCEPT ![q].active = FALSE] \/ runs' = [runs EXCEPT ![q] = NoValue]
    BY <1>5 DEF RunEnds, DeleteRun
  <2>2. runs[q] # NoValue
    BY <1>5 DEF RunEnds, DeleteRun
  <2> QED BY <2>1, <2>2, TypeFacts
<1>6. PICK c \in Requests : CreateRun(c)
  <2>1. ~UNCHANGED runs
    OBVIOUS
  <2>2. Next
    BY <2>1 DEF vars
  <2> QED BY <1>1, <1>2, <1>3, <1>4, <1>5, <2>1, <2>2 DEF Next
<1>7. PICK q \in Runs : runs[q] = NoValue /\ runs' = [runs EXCEPT ![q] =
                  [mission |-> request[c].mission, robot |-> request[c].robot, active |-> TRUE,
                   stages |-> request[c].stored, anchors |-> ReferencedSites(request[c].stored)]]
  BY <1>6 DEF CreateRun
<1>8. q = r
  BY <1>7, TypeFacts
<1> QED BY <1>6, <1>7, <1>8, TypeFacts

\* A dispatch holds the row of the mission whose stages it copies.
LEMMA CreateRunIs ==
  ASSUME IInv, NEW c \in Requests, CreateRun(c)
  PROVE  /\ request[c].mission \in Missions /\ Exists(request[c].mission)
         /\ request[c].stored = missions[request[c].mission].stages
         /\ Compared(request[c]) /\ request[c].todo = {}
<1>1. Ready(c, "dispatch")
  BY DEF CreateRun
<1>2. request[c].kind = "dispatch" /\ request[c].phase = "locked"
  BY <1>1 DEF Ready
<1> QED BY <1>1, <1>2, ReadyIs DEF Locking

\* A run starts with the definition that is stored at that moment, never with
\* a mix of an old and a new one (RunService.prepare under get_for_update).
THEOREM CopiesAreWhole == Spec => RunIsTheDefinition
<1>1. IInv /\ [Next]_vars =>
        [\A r \in Runs : runs[r] = NoValue /\ runs'[r] # NoValue =>
          /\ Exists(runs'[r].mission)
          /\ runs'[r].stages = missions[runs'[r].mission].stages]_vars
  <2> SUFFICES ASSUME IInv, [Next]_vars, NEW r \in Runs, runs[r] = NoValue, runs'[r] # NoValue
               PROVE  /\ Exists(runs'[r].mission)
                      /\ runs'[r].stages = missions[runs'[r].mission].stages
    OBVIOUS
  <2>1. PICK c \in Requests : /\ CreateRun(c)
                              /\ runs'[r].mission = request[c].mission
                              /\ runs'[r].stages = request[c].stored
    BY RunIsCreated
  <2> QED BY <2>1, CreateRunIs
<1> QED BY <1>1, Inductive, PTL DEF Spec, RunIsTheDefinition

\* A run that is there keeps its plan and its robot, and none becomes active again.
LEMMA RunStays ==
  ASSUME IInv, [Next]_vars, NEW r \in Runs, runs[r] # NoValue, runs'[r] # NoValue,
         runs'[r].active
  PROVE  runs[r].active /\ runs'[r].robot = runs[r].robot /\ runs'[r].stages = runs[r].stages
<1>1. ASSUME NEW c \in Requests, Begin(c) PROVE UNCHANGED runs
  BY <1>1 DEF Begin, BeginCreate, BeginUpdate, BeginReplan, BeginLocked, BeginSiteDelete, Begins
<1>2. ASSUME NEW c \in Requests, Step(c), ~CreateRun(c) PROVE UNCHANGED runs
  BY <1>2 DEF Step, PlanOrKeep, CompareBoundary, PlannerAnswers, FinishPlanning, Lock, SaveNew,
     SaveUpdate, SaveReplacement, SaveAssignment, Delete, Restore, DeleteSite, Abort
<1>3. ASSUME NEW c \in Requests, CreateRun(c) PROVE runs'[r] = runs[r]
  <2>1. PICK q \in Runs : runs[q] = NoValue /\ \E row : runs' = [runs EXCEPT ![q] = row]
    BY <1>3 DEF CreateRun
  <2> QED BY <2>1, TypeFacts
<1>4. ASSUME NEW f \in Fields, NEW b, SetField(f, b) PROVE UNCHANGED runs
  BY <1>4 DEF SetField
<1>5. ASSUME NEW a \in Sites, CreateSite(a) PROVE UNCHANGED runs
  BY <1>5 DEF CreateSite
<1>6. ASSUME NEW q \in Runs, RunEnds(q) \/ DeleteRun(q) PROVE runs'[r] = runs[r]
  <2>1. runs' = [runs EXCEPT ![q].active = FALSE] \/ runs' = [runs EXCEPT ![q] = NoValue]
    BY <1>6 DEF RunEnds, DeleteRun
  <2>2. runs[q] # NoValue
    BY <1>6 DEF RunEnds, DeleteRun
  <2>3. runs[r] \in RunRows
    BY TypeFacts
  <2> QED BY <2>1, <2>2, <2>3, TypeFacts DEF RunRows
<1>7. runs'[r] = runs[r]
  <2>1. CASE UNCHANGED vars
    BY <2>1 DEF vars
  <2>2. CASE Next
    BY <2>2, <1>1, <1>2, <1>3, <1>4, <1>5, <1>6 DEF Next
  <2> QED BY <2>1, <2>2
<1> QED BY <1>7

\* No robot is in an active run with a coverage stage it cannot drive: the check
\* of the dispatch is made under the lock, on the definition the run copies
\* (RunService.prepare, validate_plan_fits_robot).
THEOREM RunsFit == Spec => []RunsFitTheirRobot
<1>1. Init => RunsFitTheirRobot
  <2> SUFFICES ASSUME Init, NEW r \in Runs, runs[r] # NoValue PROVE ~runs[r].active
    BY DEF RunsFitTheirRobot
  <2>1. PICK m \in Missions : runs[r] \in PastRuns(m)
    BY DEF Init
  <2> QED BY <2>1 DEF PastRuns
<1>2. IInv /\ RunsFitTheirRobot /\ [Next]_vars => RunsFitTheirRobot'
  <2> SUFFICES ASSUME IInv, RunsFitTheirRobot, [Next]_vars, NEW r \in Runs,
                      runs'[r] # NoValue, runs'[r].active
               PROVE  /\ Factsheets[runs'[r].robot] # NoValue
                      /\ \A s \in CoverageStages(runs'[r].stages) :
                            runs'[r].stages[s].plan.width \in Factsheets[runs'[r].robot].widths
    BY DEF RunsFitTheirRobot
  <2>1. CASE runs[r] # NoValue
    BY <2>1, RunStays DEF RunsFitTheirRobot
  <2>2. CASE runs[r] = NoValue
    <3>1. PICK c \in Requests : /\ CreateRun(c)
                                /\ runs'[r].robot = request[c].robot
                                /\ runs'[r].stages = request[c].stored
      BY <2>2, RunIsCreated
    <3>2. Fits(request[c].robot, request[c].stored)
      BY <3>1 DEF CreateRun
    <3> QED BY <3>1, <3>2 DEF Fits
  <2> QED BY <2>1, <2>2
<1> QED BY <1>1, <1>2, Inductive, PTL DEF Spec

\* What a row that stays can become, and which request gives it a robot.
LEMMA RowChange ==
  ASSUME IInv, [Next]_vars, NEW m \in Missions, Exists(m),
         missions'[m] # NoValue, missions'[m] # missions[m]
  PROVE  /\ missions[m].archived => /\ missions'[m].stages = missions[m].stages
                                    /\ missions'[m].robot = missions[m].robot
         /\ missions'[m].robot \in {NoValue, missions[m].robot}
            \/ \E c \in Requests : Ready(c, "assign") /\ request[c].mission = m
<1>1. ASSUME NEW c \in Requests, Begin(c) PROVE UNCHANGED missions
  BY <1>1 DEF Begin, BeginCreate, BeginUpdate, BeginReplan, BeginLocked, BeginSiteDelete, Begins
<1>2. ASSUME NEW c \in Requests, NEW s, PlanOrKeep(c, s) \/ CompareBoundary(c, s) \/ PlannerAnswers(c)
             \/ FinishPlanning(c) \/ Lock(c) \/ CreateRun(c) \/ DeleteSite(c) \/ Abort(c)
      PROVE  UNCHANGED missions
  BY <1>2 DEF PlanOrKeep, CompareBoundary, PlannerAnswers, FinishPlanning, Lock, CreateRun,
     DeleteSite, Abort
<1>3. ASSUME NEW f \in Fields, NEW b, SetField(f, b) PROVE UNCHANGED missions
  BY <1>3 DEF SetField
<1>4. ASSUME NEW a \in Sites, CreateSite(a) PROVE UNCHANGED missions
  BY <1>4 DEF CreateSite
<1>5. ASSUME NEW q \in Runs, RunEnds(q) \/ DeleteRun(q) PROVE UNCHANGED missions
  BY <1>5 DEF RunEnds, DeleteRun
<1>6. PICK c \in Requests : SaveNew(c) \/ SaveUpdate(c) \/ SaveReplacement(c) \/ SaveAssignment(c)
                            \/ Delete(c) \/ Restore(c)
  <2>1. ~UNCHANGED missions
    OBVIOUS
  <2>2. Next
    BY <2>1 DEF vars
  <2>3. PICK c \in Requests : Step(c)
    BY <1>1, <1>3, <1>4, <1>5, <2>1, <2>2 DEF Next
  <2> QED BY <1>2, <2>1, <2>3 DEF Step
<1> DEFINE r == request[c]
<1>7. ASSUME NEW row, Writes(c, r.mission, row) PROVE r.mission = m /\ missions'[m] = row
  BY <1>7, TypeFacts DEF Writes
<1>8. missions[m] \in Rows
  BY TypeFacts
<1>9. CASE SaveNew(c)
  <2>1. r.mission = m /\ r.kind = "create"
    BY <1>7, <1>9 DEF SaveNew
  <2> QED BY <2>1, MissionIsFree
<1>10. CASE SaveUpdate(c)
  <2>1. PICK row : row = [missions[r.mission] EXCEPT !.stages = WithIds(r.inputs, r.planned, r.stored)]
    OBVIOUS
  <2>2. Ready(c, "update") /\ Writes(c, r.mission, row)
    BY <1>10, <2>1 DEF SaveUpdate
  <2>3. r.mission = m /\ missions'[m] = row /\ ~missions[m].archived
    BY <1>7, <2>2, ReadyIs
  <2>4. row.robot = missions[m].robot
    BY <1>8, <2>1, <2>3 DEF Rows
  <2> QED BY <2>3, <2>4
<1>11. CASE SaveReplacement(c)
  <2>1. PICK s \in r.named : Writes(c, r.mission, [missions[r.mission] EXCEPT
                    !.stages = ReplaceStage(r.stored, s, r.planned[s])])
    BY <1>11 DEF SaveReplacement
  <2>2. PICK row : row = [missions[r.mission] EXCEPT !.stages = ReplaceStage(r.stored, s, r.planned[s])]
    OBVIOUS
  <2>3. Ready(c, "replan") /\ Writes(c, r.mission, row)
    BY <1>11, <2>1, <2>2 DEF SaveReplacement
  <2>4. r.mission = m /\ missions'[m] = row /\ ~missions[m].archived
    BY <1>7, <2>3, ReadyIs
  <2>5. row.robot = missions[m].robot
    BY <1>8, <2>2, <2>4 DEF Rows
  <2> QED BY <2>4, <2>5
<1>12. CASE SaveAssignment(c)
  <2>1. PICK row : row = [missions[r.mission] EXCEPT !.robot = r.robot]
    OBVIOUS
  <2>2. (Ready(c, "assign") \/ Ready(c, "unassign")) /\ Writes(c, r.mission, row)
    BY <1>12, <2>1 DEF SaveAssignment
  <2>3. r.mission = m /\ missions'[m] = row /\ ~missions[m].archived
    BY <1>7, <2>2, ReadyIs
  <2>4. Ready(c, "unassign") => r.robot = NoValue
    BY ReadyIs DEF Asking
  <2>5. row.robot = r.robot
    BY <1>8, <2>1, <2>3 DEF Rows
  <2> QED BY <2>2, <2>3, <2>4, <2>5
<1>13. CASE Delete(c) \/ Restore(c)
  <2>1. PICK b \in BOOLEAN : missions'[m] = [missions[m] EXCEPT !.archived = b] /\ r.mission = m
    <3>1. CASE Delete(c)
      <4>1. PICK row : row = IF RunsOf(r.mission) = {} THEN NoValue
                             ELSE [missions[r.mission] EXCEPT !.archived = TRUE]
        OBVIOUS
      <4>2. Writes(c, r.mission, row)
        BY <3>1, <4>1 DEF Delete
      <4> QED BY <1>7, <4>1, <4>2
    <3>2. CASE Restore(c)
      <4>1. PICK row : row = [missions[r.mission] EXCEPT !.archived = FALSE]
        OBVIOUS
      <4>2. Writes(c, r.mission, row)
        BY <3>2, <4>1 DEF Restore
      <4> QED BY <1>7, <4>1, <4>2
    <3> QED BY <1>13, <3>1, <3>2
  <2>2. missions'[m].stages = missions[m].stages /\ missions'[m].robot = missions[m].robot
    BY <1>8, <2>1 DEF Rows
  <2> QED BY <2>2
<1> QED BY <1>6, <1>9, <1>10, <1>11, <1>12, <1>13

\* A robot gets a coverage path, by a dispatch or as the mission's robot, only
\* if the path's boundary was the field's when it was compared, under the lock
\* that is still held (require_current_boundary).
THEOREM HandedWereCurrent == Spec => HandedPathsWereCurrent
<1> DEFINE Handed(m) ==
             /\ Exists(m)
             /\ \/ \E r \in Runs : runs[r] = NoValue /\ runs'[r] # NoValue /\ runs'[r].mission = m
                \/ missions'[m] # NoValue /\ missions'[m].robot \notin {NoValue, missions[m].robot}
<1>1. ASSUME IInv, [Next]_vars, NEW m \in Missions, Handed(m), NEW s \in CoverageStages(missions[m].stages)
      PROVE  LET plan == missions[m].stages[s].plan
             IN  fields[plan.field] = plan.digest \/ plan.field \in edited[m]
  <2>1. PICK c \in Requests : /\ request[c].mission = m
                              /\ request[c].stored = missions[m].stages
                              /\ request[c].todo = {} /\ Compared(request[c])
    <3>1. CASE \E r \in Runs : runs[r] = NoValue /\ runs'[r] # NoValue /\ runs'[r].mission = m
      <4>1. PICK c \in Requests : CreateRun(c) /\ request[c].mission = m
        BY <1>1, <3>1, RunIsCreated
      <4> QED BY <1>1, <4>1, CreateRunIs
    <3>2. CASE missions'[m] # NoValue /\ missions'[m].robot \notin {NoValue, missions[m].robot}
      <4>1. PICK c \in Requests : Ready(c, "assign") /\ request[c].mission = m
        BY <1>1, <3>2, RowChange
      <4>2. Locking(c, request[c]) /\ request[c].kind = "assign" /\ request[c].phase = "locked"
            /\ request[c].todo = {}
        BY <1>1, <4>1, ReadyIs DEF Ready
      <4> QED BY <4>1, <4>2 DEF Locking
    <3> QED BY <1>1, <3>1, <3>2
  <2> QED BY <1>1, <2>1 DEF Compared
<1>2. IInv /\ [Next]_vars =>
        [\A m \in Missions : Handed(m) => \A s \in CoverageStages(missions[m].stages) :
            LET plan == missions[m].stages[s].plan
            IN  fields[plan.field] = plan.digest \/ plan.field \in edited[m]]_vars
  BY <1>1
<1> QED BY <1>2, Inductive, PTL DEF Spec, HandedPathsWereCurrent

\* What is archived stands as it was archived, whatever edits were under way
\* (update, replace_generated_stage, assign re-check the mark under the lock).
THEOREM ArchiveStands == Spec => ArchivedStands
<1>1. IInv /\ [Next]_vars =>
        [\A m \in Missions :
          Exists(m) /\ missions[m].archived /\ missions'[m] # NoValue =>
              /\ missions'[m].stages = missions[m].stages
              /\ missions'[m].robot = missions[m].robot]_vars
  <2> SUFFICES ASSUME IInv, [Next]_vars, NEW m \in Missions,
                      Exists(m), missions[m].archived, missions'[m] # NoValue
               PROVE  /\ missions'[m].stages = missions[m].stages
                      /\ missions'[m].robot = missions[m].robot
    OBVIOUS
  <2>1. CASE missions'[m] = missions[m]
    BY <2>1
  <2>2. CASE missions'[m] # missions[m]
    BY <2>2, RowChange
  <2> QED BY <2>1, <2>2
<1> QED BY <1>1, Inductive, PTL DEF Spec, ArchivedStands
=============================================================================
