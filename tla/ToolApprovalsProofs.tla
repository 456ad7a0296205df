------------------------ MODULE ToolApprovalsProofs ------------------------
(***************************************************************************)
(* Theorems about ToolApprovals, for every value of its constants.         *)
(***************************************************************************)
EXTENDS ToolApprovals, TLAPS

-----------------------------------------------------------------------------
(* The inductive invariant                                                 *)

Passed == {"approved", "succeeded", "failed"}

\* The row names the call the part names.
Fits(s) == id[s.call] = s.part.id /\ content[s.call] = s.part.content

\* What a turn has still to settle are answers in a coherent history.
RequestsAreCoherent ==
    \A t \in Turns :
        /\ Coherent(history[t])
        /\ \A p \in todo[t] : p \in history[t] /\ p.verdict # "none"

\* A call that was decided when a turn arrived is there.
EarlierCallsAreThere ==
    \A t \in Turns : \A q \in before[t] : status[q] # "absent"

\* A turn that has not begun has found and settled nothing.
IdleTurnsAreEmpty ==
    \A t \in Turns : phase[t] = "idle" => found[t] = NoFinding /\ settled[t] = {}

\* What a turn has found fits its decision, and no earlier decided twin is newer.
FindingsFit ==
    \A t \in Turns : found[t] # NoFinding =>
        /\ found[t].part \in todo[t]
        /\ Fits(found[t])
        /\ status[found[t].call] # "absent"
        /\ \A q \in before[t] : Twins(found[t].call, q) => found[t].call \notin older[q]

\* What a turn has settled stands as it decided.
SettlementsFit ==
    \A t \in Turns : \A s \in settled[t] :
        /\ s.part \in history[t] \ todo[t]
        /\ s.part.verdict # "none"
        /\ Fits(s)
        /\ s.part.verdict = "approved" => status[s.call] \in Passed
        /\ s.part.verdict = "denied" => status[s.call] = "denied"

\* Two turns never settle one proposal, nor does one answer settle two.
SettledOnce ==
    \A t, u \in Turns : \A s \in settled[t], z \in settled[u] :
        /\ s.call = z.call => t = u
        /\ (t = u /\ s.part = z.part) => s = z

\* What was carried out under a settled proposal, the turn that settled it did.
ExecutionsAreOwned ==
    \A e \in ran, t \in Turns : \A s \in settled[t] :
        s.call = e.call => e.turn = t /\ e.id = s.part.id

IInv ==
    /\ TypeOK
    /\ RequestsAreCoherent
    /\ EarlierCallsAreThere
    /\ IdleTurnsAreEmpty
    /\ FindingsFit
    /\ SettlementsFit
    /\ SettledOnce
    /\ ExecutionsAreOwned
    /\ RunsAsApproved
    /\ OutcomeIsItsOwn

-----------------------------------------------------------------------------
(* Types                                                                   *)

LEMMA FindingTypes ==
    ASSUME ToolApprovalsAssumption, TypeOK, NEW t \in Turns
    PROVE  /\ found[t] # NoFinding => found[t] \in Finding
           /\ NoFinding \notin Finding
BY DEF ToolApprovalsAssumption, TypeOK, Finding, NoFinding

LEMMA InitTypes == ToolApprovalsAssumption /\ Init => TypeOK
BY DEF ToolApprovalsAssumption, Init, TypeOK, Phases, Statuses

LEMMA SettleSteps ==
    ASSUME ToolApprovalsAssumption, IInv, NEW t \in Turns, SettleDecision(t)
    PROVE  /\ found[t] \in Finding
           /\ found[t].part \in Part /\ found[t].call \in Calls
           /\ found[t].part.verdict \in {"approved", "denied"}
           /\ \/ /\ status[found[t].call] = "awaiting_approval"
                 /\ status' = [status EXCEPT ![found[t].call] = found[t].part.verdict]
                 /\ settled' = [settled EXCEPT ![t] = @ \cup {found[t]}]
              \/ UNCHANGED <<status, settled>>
<1>1. found[t] \in Finding
    BY FindingTypes DEF SettleDecision, IInv
<1>2. found[t].part \in todo[t]
    BY DEF IInv, FindingsFit, SettleDecision
<1>3. found[t].part.verdict # "none"
    BY <1>2 DEF IInv, RequestsAreCoherent
<1>4. found[t].part \in Part /\ found[t].call \in Calls
    BY <1>1 DEF Finding
<1>. QED
    BY <1>1, <1>3, <1>4 DEF SettleDecision, SettleWins, SettleLoses, Undecided, Part

LEMMA SettlingTypes ==
    ASSUME ToolApprovalsAssumption, IInv, NEW t \in Turns, Settling(t)
    PROVE  TypeOK'
<1>. USE DEF IInv, rowVars, turnVars, Phases
<1>1. CASE Arrive(t)
    BY <1>1 DEF TypeOK, Arrive, Decisions, ToolApprovalsAssumption
<1>2. CASE FindProposal(t)
  <2>1. found' \in [Turns -> Finding \cup {NoFinding}]
      BY <1>2 DEF TypeOK, FindProposal, Finding
  <2>. QED  BY <1>2, <2>1 DEF TypeOK, FindProposal
<1>3. CASE FindNothing(t)
    BY <1>3 DEF TypeOK, FindNothing
<1>4. CASE SettleDecision(t)
  <2>1. status' \in [Calls -> Statuses \cup {"absent"}]
      BY <1>4, SettleSteps DEF TypeOK, Statuses
  <2>2. settled' \in [Turns -> SUBSET Finding]
      BY <1>4, SettleSteps DEF TypeOK
  <2>. QED
      BY <1>4, <2>1, <2>2 DEF TypeOK, SettleDecision
<1>. QED  BY <1>1, <1>2, <1>3, <1>4 DEF Settling

\* What a turn is told is approved, it settled as approved, and the row it is
\* accounted to is the one it settled for this very part.
LEMMA ApprovedIsSettled ==
    ASSUME ToolApprovalsAssumption, IInv, NEW t \in Turns, NEW p \in Approved(t)
    PROVE  \E s \in settled[t] :
               s.part = p /\ p.verdict = "approved" /\ RowFor(t, p.id) = s.call
<1>1. PICK s \in settled[t] : s.part.id = p.id /\ s.part.verdict = "approved"
    BY DEF Approved, Pruned, SettledIds
<1>2. p \in history[t]
    BY DEF Approved, Pruned
<1>3. \A z \in settled[t] : z.part \in history[t] /\ z.part.verdict # "none"
    BY DEF IInv, SettlementsFit
<1>4. Coherent(history[t])
    BY DEF IInv, RequestsAreCoherent
<1>5. s.part = p
    BY <1>1, <1>2, <1>3, <1>4 DEF Coherent
<1>6. \A z \in settled[t] : z.part.id = p.id => z = s
    BY <1>1, <1>2, <1>3, <1>4, <1>5 DEF Coherent, IInv, SettledOnce
<1>7. RowFor(t, p.id) = s.call
    BY <1>1, <1>6 DEF RowFor, SettledIds
<1>. QED  BY <1>1, <1>5, <1>7

LEMMA RunningTypes ==
    ASSUME ToolApprovalsAssumption, IInv, NEW t \in Turns, Running(t)
    PROVE  TypeOK'
<1>. USE DEF IInv, rowVars, turnVars, Phases
<1>1. CASE StartRun(t)
    BY <1>1 DEF TypeOK, StartRun
<1>2. CASE RunTool(t)
  <2>1. PICK p \in Approved(t), ok \in BOOLEAN :
            /\ ran' = ran \cup {[turn |-> t, id |-> p.id, call |-> RowFor(t, p.id),
                                 content |-> p.content, ok |-> ok]}
            /\ owing' = [owing EXCEPT ![t] = @ \cup {p.id}]
      BY <1>2 DEF RunTool
  <2>2. p \in Part
      BY DEF TypeOK, Approved, Pruned
  <2>3. RowFor(t, p.id) \in Calls
      BY ApprovedIsSettled DEF TypeOK, Finding
  <2>4. p.id \in Ids /\ p.content \in Contents
      BY <2>2 DEF Part
  <2>5. ran' \in SUBSET Execution
      BY <2>1, <2>3, <2>4 DEF TypeOK, Execution
  <2>. QED  BY <1>2, <2>1, <2>4, <2>5 DEF TypeOK, RunTool
<1>3. CASE RecordOutcome(t)
    BY <1>3 DEF TypeOK, RecordOutcome, Statuses
<1>4. CASE OutcomeUnrecorded(t)
    BY <1>4 DEF TypeOK, OutcomeUnrecorded
<1>5. CASE Propose(t)
    BY <1>5 DEF TypeOK, Propose, Statuses
<1>. QED  BY <1>1, <1>2, <1>3, <1>4, <1>5 DEF Running

LEMMA EndTypes ==
    ASSUME TypeOK, NEW t \in Turns, EndTurn(t)
    PROVE  TypeOK'
BY DEF TypeOK, EndTurn, rowVars, Phases

LEMMA NextTypes == ToolApprovalsAssumption /\ IInv /\ [Next]_vars => TypeOK'
<1>. SUFFICES ASSUME ToolApprovalsAssumption, IInv, [Next]_vars
              PROVE  TypeOK'
    OBVIOUS
<1>1. CASE UNCHANGED vars
    BY <1>1 DEF vars, rowVars, turnVars, IInv, TypeOK
<1>. QED  BY <1>1, SettlingTypes, RunningTypes, EndTypes DEF Next, IInv

-----------------------------------------------------------------------------
(* The rows                                                                *)

\* What a step may do to a call that is there.
RowStep(k) ==
    /\ <<id[k], content[k], older[k]>>' = <<id[k], content[k], older[k]>>
    /\ status'[k] # "absent"
    /\ status[k] \in Passed => status'[k] \in Passed
    /\ status[k] = "denied" => status'[k] = "denied"

\* A call that is there keeps what it proposes, and its decision.
LEMMA RowSteps ==
    ASSUME ToolApprovalsAssumption, IInv, [Next]_vars, NEW k \in Calls, status[k] # "absent"
    PROVE  RowStep(k)
<1>. USE DEF RowStep, rowVars, turnVars
<1>1. CASE UNCHANGED rowVars
    BY <1>1
<1>2. ASSUME NEW t \in Turns, SettleDecision(t)
      PROVE  RowStep(k)
  <2>1. UNCHANGED <<id, content, older>>
      BY <1>2 DEF SettleDecision
  <2>. QED  BY <1>2, <2>1, SettleSteps DEF IInv, TypeOK, Passed
<1>3. ASSUME NEW t \in Turns, RecordOutcome(t)
      PROVE  RowStep(k)
    BY <1>3 DEF RecordOutcome, Closes, IInv, TypeOK, Passed
<1>4. ASSUME NEW t \in Turns, Propose(t)
      PROVE  RowStep(k)
    BY <1>4 DEF Propose, IInv, TypeOK, Passed
<1>. QED
    BY <1>1, <1>2, <1>3, <1>4
       DEF Next, Settling, Running, EndTurn, Arrive, FindProposal, FindNothing, StartRun,
           RunTool, OutcomeUnrecorded, vars

LEMMA EarlierCallsStay ==
    ASSUME ToolApprovalsAssumption, IInv, [Next]_vars
    PROVE  EarlierCallsAreThere'
<1>. SUFFICES ASSUME NEW t \in Turns, NEW q \in before'[t]
              PROVE  status'[q] # "absent"
    BY DEF EarlierCallsAreThere
<1>1. q \in Calls
    BY NextTypes DEF TypeOK
<1>2. CASE q \in before[t]
    BY <1>1, <1>2, RowSteps DEF RowStep, IInv, EarlierCallsAreThere
<1>3. CASE q \notin before[t]
  <2>1. PICK u \in Turns : Arrive(u)
      BY <1>3 DEF Next, Settling, Running, EndTurn, FindProposal, FindNothing, SettleDecision,
         StartRun, RunTool, RecordOutcome, OutcomeUnrecorded, Propose, vars, turnVars
  <2>2. status[q] \in DecidedStatuses /\ status' = status
      BY <1>3, <2>1 DEF Arrive, IInv, TypeOK, rowVars
  <2>. QED  BY <2>2 DEF DecidedStatuses, Statuses
<1>. QED  BY <1>2, <1>3

-----------------------------------------------------------------------------
(* Requests, findings and settlements                                      *)

LEMMA RequestsStayCoherent ==
    ASSUME ToolApprovalsAssumption, IInv, [Next]_vars
    PROVE  RequestsAreCoherent'
<1>. USE DEF IInv, TypeOK, RequestsAreCoherent
<1>1. ASSUME NEW u \in Turns, Arrive(u)
      PROVE  RequestsAreCoherent'
    BY <1>1 DEF Arrive, Coherent, Decisions
<1>2. ASSUME NEW u \in Turns, EndTurn(u)
      PROVE  RequestsAreCoherent'
    BY <1>2 DEF EndTurn, Coherent
<1>3. ASSUME NEW u \in Turns, FindNothing(u)
      PROVE  RequestsAreCoherent'
    BY <1>3 DEF FindNothing, Coherent
<1>4. ASSUME NEW u \in Turns, SettleDecision(u)
      PROVE  RequestsAreCoherent'
    BY <1>4 DEF SettleDecision, Coherent
<1>5. CASE UNCHANGED <<history, todo>>
    BY <1>5 DEF Coherent
<1>. QED
    BY <1>1, <1>2, <1>3, <1>4, <1>5
       DEF Next, Settling, Running, FindProposal, StartRun, RunTool, RecordOutcome,
           OutcomeUnrecorded, Propose, vars, turnVars

LEMMA IdleTurnsStayEmpty ==
    ASSUME ToolApprovalsAssumption, IInv, [Next]_vars
    PROVE  IdleTurnsAreEmpty'
<1>. USE DEF IInv, TypeOK, IdleTurnsAreEmpty, rowVars, turnVars
<1>1. CASE UNCHANGED <<phase, found, settled>>
    BY <1>1
<1>2. ASSUME NEW u \in Turns, Arrive(u) \/ FindProposal(u)
      PROVE  IdleTurnsAreEmpty'
    BY <1>2 DEF Arrive, FindProposal
<1>3. ASSUME NEW u \in Turns, SettleDecision(u)
      PROVE  IdleTurnsAreEmpty'
  <2>1. phase' = phase /\ phase[u] # "idle"
      BY <1>3 DEF SettleDecision
  <2>2. \A t \in Turns \ {u} : found'[t] = found[t] /\ settled'[t] = settled[t]
      BY <1>3 DEF SettleDecision, SettleWins, SettleLoses
  <2>. QED  BY <2>1, <2>2
<1>4. ASSUME NEW u \in Turns, StartRun(u) \/ EndTurn(u)
      PROVE  IdleTurnsAreEmpty'
    BY <1>4 DEF StartRun, EndTurn
<1>. QED
    BY <1>1, <1>2, <1>3, <1>4
       DEF Next, Settling, Running, FindNothing, RunTool, RecordOutcome, OutcomeUnrecorded,
           Propose, vars

LEMMA FindingsStayFit ==
    ASSUME ToolApprovalsAssumption, IInv, [Next]_vars
    PROVE  FindingsFit'
<1>. SUFFICES ASSUME NEW t \in Turns, found'[t] # NoFinding
              PROVE  /\ found'[t].part \in todo'[t]
                     /\ Fits(found[t])'
                     /\ status'[found'[t].call] # "absent"
                     /\ \A q \in before'[t] :
                            Twins(found[t].call, q)' => found'[t].call \notin older'[q]
    BY DEF FindingsFit
<1>1. CASE found'[t] = found[t]
  <2>1. found[t] \in Finding /\ found[t].call \in Calls
      BY <1>1, FindingTypes DEF Finding, IInv
  <2>2. /\ found[t].part \in todo[t]
        /\ Fits(found[t])
        /\ status[found[t].call] # "absent"
        /\ \A q \in before[t] : Twins(found[t].call, q) => found[t].call \notin older[q]
      BY <1>1 DEF IInv, FindingsFit
  <2>3. \A k \in Calls : status[k] # "absent" => RowStep(k)
      BY RowSteps
  <2>4. found[t].part \in todo'[t] /\ before'[t] = before[t]
    <3>1. ~Arrive(t) /\ ~FindNothing(t) /\ ~SettleDecision(t) /\ ~EndTurn(t)
        BY <1>1 DEF Arrive, FindNothing, SettleDecision, EndTurn, IInv, IdleTurnsAreEmpty, TypeOK
    <3>2. todo'[t] = todo[t] /\ before'[t] = before[t]
        BY <3>1 DEF IInv, TypeOK, Next, Settling, Running, EndTurn, Arrive, FindProposal,
           FindNothing, SettleDecision, StartRun, RunTool, RecordOutcome, OutcomeUnrecorded,
           Propose, vars, turnVars
    <3>. QED  BY <2>2, <3>2
  <2>5. \A q \in before[t] : RowStep(q)
      BY <2>3 DEF IInv, TypeOK, EarlierCallsAreThere
  <2>. QED  BY <1>1, <2>1, <2>2, <2>3, <2>4, <2>5 DEF RowStep, Fits, Twins
<1>2. CASE found'[t] # found[t]
  <2>1. FindProposal(t)
      BY <1>2 DEF IInv, TypeOK, Next, Settling, Running, EndTurn, Arrive, FindProposal,
         FindNothing, SettleDecision, StartRun, RunTool, RecordOutcome, OutcomeUnrecorded,
         Propose, vars, turnVars
  <2>2. PICK p \in todo[t], k \in Calls :
            Matches(p, k) /\ found' = [found EXCEPT ![t] = [part |-> p, call |-> k]]
      BY <2>1 DEF FindProposal
  <2>3. found'[t].part = p /\ found'[t].call = k
      BY <2>2 DEF IInv, TypeOK
  <2>4. /\ status[k] # "absent" /\ id[k] = p.id /\ content[k] = p.content
        /\ \A q \in Calls : (status[q] # "absent" /\ Twins(k, q)) => k \notin older[q]
      BY <2>2 DEF Matches, Candidates, Twins
  <2>5. \A q \in before[t] : q \in Calls /\ status[q] # "absent"
      BY DEF IInv, TypeOK, EarlierCallsAreThere
  <2>. QED
      BY <2>1, <2>3, <2>4, <2>5 DEF FindProposal, rowVars, Fits, Twins
<1>. QED  BY <1>1, <1>2

\* What a step adds to the settlements.
LEMMA SettlementSteps ==
    ASSUME ToolApprovalsAssumption, IInv, [Next]_vars, NEW t \in Turns, NEW s \in settled'[t]
    PROVE  \/ s \in settled[t]
           \/ /\ SettleDecision(t) /\ s = found[t]
              /\ s \in Finding
              /\ s.part.verdict \in {"approved", "denied"}
              /\ status[s.call] = "awaiting_approval"
              /\ status'[s.call] = s.part.verdict
<1>. SUFFICES ASSUME s \notin settled[t]
              PROVE  /\ SettleDecision(t) /\ s = found[t]
                     /\ s \in Finding
                     /\ s.part.verdict \in {"approved", "denied"}
                     /\ status[s.call] = "awaiting_approval"
                     /\ status'[s.call] = s.part.verdict
    OBVIOUS
<1>1. PICK u \in Turns : SettleDecision(u)
    BY DEF Next, Settling, Running, EndTurn, Arrive, FindProposal, FindNothing, StartRun,
       RunTool, RecordOutcome, OutcomeUnrecorded, Propose, vars, turnVars, IInv, TypeOK
<1>2. /\ found[u] \in Finding /\ found[u].call \in Calls
      /\ found[u].part.verdict \in {"approved", "denied"}
      /\ status[found[u].call] = "awaiting_approval"
      /\ status' = [status EXCEPT ![found[u].call] = found[u].part.verdict]
      /\ settled' = [settled EXCEPT ![u] = @ \cup {found[u]}]
    BY <1>1, SettleSteps
<1>3. u = t /\ s = found[t]
    BY <1>2 DEF IInv, TypeOK
<1>. QED  BY <1>1, <1>2, <1>3 DEF IInv, TypeOK

LEMMA SettlementsStayFit ==
    ASSUME ToolApprovalsAssumption, IInv, [Next]_vars
    PROVE  SettlementsFit'
<1>. SUFFICES ASSUME NEW t \in Turns, NEW s \in settled'[t]
              PROVE  /\ s.part \in history'[t] \ todo'[t]
                     /\ s.part.verdict # "none"
                     /\ Fits(s)'
                     /\ s.part.verdict = "approved" => status'[s.call] \in Passed
                     /\ s.part.verdict = "denied" => status'[s.call] = "denied"
    BY DEF SettlementsFit
<1>1. \A k \in Calls : status[k] # "absent" => RowStep(k)
    BY RowSteps
<1>2. CASE s \in settled[t]
  <2>1. s.call \in Calls /\ s.part.verdict \in {"approved", "denied"}
      BY <1>2 DEF IInv, TypeOK, SettlementsFit, Finding, Part
  <2>2. /\ s.part \in history[t] \ todo[t]
        /\ Fits(s)
        /\ s.part.verdict = "approved" => status[s.call] \in Passed
        /\ s.part.verdict = "denied" => status[s.call] = "denied"
      BY <1>2 DEF IInv, SettlementsFit
  <2>3. status[s.call] # "absent"
      BY <2>1, <2>2 DEF Passed
  <2>4. RowStep(s.call)
      BY <1>1, <2>1, <2>3
  <2>5. ~Arrive(t) /\ ~EndTurn(t)
      BY <1>2 DEF Arrive, EndTurn, IInv, IdleTurnsAreEmpty, TypeOK
  <2>6. history'[t] = history[t] /\ todo'[t] \subseteq todo[t]
      BY <2>5 DEF IInv, TypeOK, Next, Settling, Running, EndTurn, Arrive, FindProposal,
         FindNothing, SettleDecision, StartRun, RunTool, RecordOutcome, OutcomeUnrecorded,
         Propose, vars, turnVars
  <2>. QED  BY <2>1, <2>2, <2>4, <2>6 DEF RowStep, Fits
<1>3. CASE s \notin settled[t]
  <2>1. /\ SettleDecision(t) /\ s = found[t]
        /\ s.part.verdict \in {"approved", "denied"}
        /\ status'[s.call] = s.part.verdict
      BY <1>3, SettlementSteps
  <2>2. s.part \in todo[t] /\ Fits(s)
      BY <2>1 DEF SettleDecision, IInv, FindingsFit
  <2>3. s.part \in history[t]
      BY <2>2 DEF IInv, RequestsAreCoherent
  <2>. QED
      BY <2>1, <2>2, <2>3 DEF SettleDecision, IInv, TypeOK, Fits, Passed
<1>. QED  BY <1>2, <1>3

LEMMA SettledStaysOnce ==
    ASSUME ToolApprovalsAssumption, IInv, [Next]_vars
    PROVE  SettledOnce'
<1>. SUFFICES ASSUME NEW t \in Turns, NEW u \in Turns,
                     NEW s \in settled'[t], NEW z \in settled'[u]
              PROVE  /\ s.call = z.call => t = u
                     /\ (t = u /\ s.part = z.part) => s = z
    BY DEF SettledOnce
\* A proposal that was settled no longer awaits a decision, nor its answer.
<1>1. \A v \in Turns : \A y \in settled[v] :
          status[y.call] # "awaiting_approval" /\ y.part \notin todo[v]
    BY DEF IInv, TypeOK, SettlementsFit, Passed, Finding, Part
<1>2. \A v \in Turns : \A y \in settled'[v] : y \notin settled[v] =>
          SettleDecision(v) /\ y = found[v] /\ status[y.call] = "awaiting_approval"
    BY SettlementSteps
<1>3. \A v \in Turns : SettleDecision(v) => found[v].part \in todo[v]
    BY DEF SettleDecision, IInv, FindingsFit
<1>4. CASE s \in settled[t] /\ z \in settled[u]
    BY <1>4 DEF IInv, SettledOnce
<1>5. CASE s \in settled[t] /\ z \notin settled[u]
    BY <1>1, <1>2, <1>3, <1>5
<1>6. CASE s \notin settled[t] /\ z \in settled[u]
    BY <1>1, <1>2, <1>3, <1>6
<1>7. CASE s \notin settled[t] /\ z \notin settled[u]
  <2>1. SettleDecision(t) /\ SettleDecision(u) /\ s = found[t] /\ z = found[u]
      BY <1>2, <1>7
  <2>2. t = u
      BY <2>1 DEF SettleDecision, IInv, TypeOK
  <2>. QED  BY <2>1, <2>2
<1>. QED  BY <1>4, <1>5, <1>6, <1>7

-----------------------------------------------------------------------------
(* What the tools do                                                       *)

\* A tool runs for a part the turn settled as approved, for the first time.
LEMMA ExecutionSteps ==
    ASSUME ToolApprovalsAssumption, IInv, NEW t \in Turns, RunTool(t)
    PROVE  \E s \in settled[t], ok \in BOOLEAN :
               /\ s.part.verdict = "approved"
               /\ \A e \in ran : ~(e.turn = t /\ e.id = s.part.id)
               /\ ran' = ran \cup {[turn |-> t, id |-> s.part.id, call |-> s.call,
                                    content |-> s.part.content, ok |-> ok]}
<1>1. PICK p \in Approved(t), ok \in BOOLEAN :
          /\ \A e \in ran : ~(e.turn = t /\ e.id = p.id)
          /\ ran' = ran \cup {[turn |-> t, id |-> p.id, call |-> RowFor(t, p.id),
                               content |-> p.content, ok |-> ok]}
    BY DEF RunTool
<1>2. PICK s \in settled[t] :
          s.part = p /\ p.verdict = "approved" /\ RowFor(t, p.id) = s.call
    BY ApprovedIsSettled
<1>. QED  BY <1>1, <1>2

LEMMA OnlyToolsRun ==
    ASSUME [Next]_vars, ~ \E t \in Turns : RunTool(t)
    PROVE  ran' = ran
BY DEF Next, Settling, Running, EndTurn, Arrive, FindProposal, FindNothing, SettleDecision,
   StartRun, RecordOutcome, OutcomeUnrecorded, Propose, vars, turnVars

LEMMA ExecutionsStayOwned ==
    ASSUME ToolApprovalsAssumption, IInv, [Next]_vars
    PROVE  ExecutionsAreOwned'
<1>1. ASSUME NEW u \in Turns, RunTool(u)
      PROVE  ExecutionsAreOwned'
  <2>1. PICK z \in settled[u], ok \in BOOLEAN :
            ran' = ran \cup {[turn |-> u, id |-> z.part.id, call |-> z.call,
                              content |-> z.part.content, ok |-> ok]}
      BY <1>1, ExecutionSteps
  <2>2. settled' = settled
      BY <1>1 DEF RunTool
  <2>3. \A t \in Turns : \A s \in settled[t] :
            s.call = z.call => t = u /\ s.part.id = z.part.id
      BY DEF IInv, SettledOnce, SettlementsFit, Fits
  <2>. QED  BY <2>1, <2>2, <2>3 DEF ExecutionsAreOwned, IInv
<1>2. CASE ~ \E t \in Turns : RunTool(t)
  <2>. SUFFICES ASSUME NEW e \in ran, NEW t \in Turns, NEW s \in settled'[t], s.call = e.call
                PROVE  e.turn = t /\ e.id = s.part.id
      BY <1>2, OnlyToolsRun DEF ExecutionsAreOwned
  <2>1. status[e.call] # "awaiting_approval"
      BY DEF IInv, RunsAsApproved
  <2>2. s \in settled[t]
      BY <2>1, SettlementSteps
  <2>. QED  BY <2>2 DEF IInv, ExecutionsAreOwned
<1>. QED  BY <1>1, <1>2

LEMMA RunsStayApproved ==
    ASSUME ToolApprovalsAssumption, IInv, [Next]_vars
    PROVE  RunsAsApproved'
<1>1. \A k \in Calls : status[k] # "absent" => RowStep(k)
    BY RowSteps
<1>2. \A e \in ran : /\ e.call \in Calls
                     /\ content'[e.call] = e.content
                     /\ status'[e.call] \in Passed
    BY <1>1 DEF IInv, RunsAsApproved, RowStep, Passed
<1>3. ASSUME NEW u \in Turns, RunTool(u)
      PROVE  RunsAsApproved'
  <2>1. PICK z \in settled[u], ok \in BOOLEAN :
            /\ z.part.verdict = "approved"
            /\ ran' = ran \cup {[turn |-> u, id |-> z.part.id, call |-> z.call,
                                 content |-> z.part.content, ok |-> ok]}
      BY <1>3, ExecutionSteps
  <2>2. z.call \in Calls /\ content[z.call] = z.part.content /\ status[z.call] \in Passed
      BY <2>1 DEF IInv, TypeOK, Finding, SettlementsFit, Fits
  <2>3. status' = status /\ content' = content
      BY <1>3 DEF RunTool, rowVars
  <2>. QED  BY <1>2, <2>1, <2>2, <2>3 DEF RunsAsApproved, Passed
<1>. QED  BY <1>2, <1>3, OnlyToolsRun DEF RunsAsApproved, Passed

LEMMA OutcomesStayTheirOwn ==
    ASSUME ToolApprovalsAssumption, IInv, [Next]_vars
    PROVE  OutcomeIsItsOwn'
<1>. SUFFICES ASSUME NEW k \in Calls, status'[k] \in {"succeeded", "failed"}
              PROVE  \E e \in ran' : e.call = k /\ e.ok = (status'[k] = "succeeded")
    BY DEF OutcomeIsItsOwn
<1>1. ran \subseteq ran'
  <2>1. CASE \E t \in Turns : RunTool(t)
      BY <2>1 DEF RunTool
  <2>. QED  BY <2>1, OnlyToolsRun
<1>2. CASE status'[k] = status[k]
    BY <1>1, <1>2 DEF IInv, OutcomeIsItsOwn
<1>3. CASE status'[k] # status[k]
  <2>1. ASSUME NEW t \in Turns, RecordOutcome(t)
        PROVE  \E e \in ran' : e.call = k /\ e.ok = (status'[k] = "succeeded")
    <3>1. PICK e \in ran :
              status' = [q \in Calls |->
                            IF Closes(e, q) THEN IF e.ok THEN "succeeded" ELSE "failed"
                                            ELSE status[q]]
        BY <2>1 DEF RecordOutcome
    <3>2. e.ok \in BOOLEAN
        BY DEF IInv, TypeOK, Execution
    <3>3. e.call = k /\ status'[k] = IF e.ok THEN "succeeded" ELSE "failed"
        BY <1>3, <3>1 DEF Closes
    <3>. QED  BY <1>1, <3>2, <3>3
  <2>2. ASSUME NEW t \in Turns, SettleDecision(t)
        PROVE  FALSE
      BY <1>3, <2>2, SettleSteps DEF IInv, TypeOK
  <2>3. ASSUME NEW t \in Turns, Propose(t)
        PROVE  FALSE
      BY <1>3, <2>3 DEF Propose, IInv, TypeOK
  <2>. QED
      BY <1>3, <2>1, <2>2, <2>3
         DEF Next, Settling, Running, EndTurn, Arrive, FindProposal, FindNothing, StartRun,
             RunTool, OutcomeUnrecorded, vars, rowVars
<1>. QED  BY <1>2, <1>3

-----------------------------------------------------------------------------
(* The gate                                                                *)

GateMap == [k \in Calls |-> GateOf(k)]
UsesMap == [k \in Calls |-> UsesOf(k)]

LEMMA GateIs ==
    ASSUME TypeOK, NEW k \in Calls
    PROVE  /\ status[k] = "absent" <=> GateOf(k) = "none"
           /\ status[k] = "awaiting_approval" <=> GateOf(k) = "open"
           /\ status[k] = "denied" <=> GateOf(k) = "denied"
           /\ status[k] \in Passed <=> GateOf(k) = "approved"
BY DEF TypeOK, Statuses, Passed, GateOf

\* Settling a proposal decides it, and losing to another turn does nothing.
LEMMA SettlingDecides ==
    ASSUME ToolApprovalsAssumption, IInv, TypeOK', NEW t \in Turns, SettleDecision(t)
    PROVE  \/ \E k \in Calls, verdict \in {"approved", "denied"} : Gate!Decide(k, verdict)
           \/ UNCHANGED <<GateMap, UsesMap>>
<1>. DEFINE k == found[t].call
            verdict == found[t].part.verdict
<1>1. ran' = ran
    BY DEF SettleDecision
<1>2. UsesMap' = UsesMap
    BY <1>1 DEF UsesMap, UsesOf
<1>3. CASE UNCHANGED status
    BY <1>2, <1>3 DEF GateMap, GateOf
<1>4. CASE /\ status[k] = "awaiting_approval"
           /\ status' = [status EXCEPT ![k] = verdict]
  <2>1. k \in Calls /\ verdict \in {"approved", "denied"}
      BY SettleSteps
  <2>2. GateOf(k) = "open"
      BY <1>4, <2>1, GateIs DEF IInv
  <2>3. \A q \in Calls : GateOf(q)' = IF q = k THEN verdict ELSE GateOf(q)
      BY <1>4, <2>1 DEF GateOf, IInv, TypeOK
  <2>4. GateMap' = [GateMap EXCEPT ![k] = verdict]
      BY <2>1, <2>3 DEF GateMap
  <2>5. Gate!Decide(k, verdict)
      BY <1>2, <2>1, <2>2, <2>4 DEF Gate!Decide, GateMap, UsesMap
  <2>. QED  BY <2>1, <2>5
<1>. QED  BY <1>3, <1>4, SettleSteps

\* A tool carries out a proposal nobody has carried out.
LEMMA ToolsCarryOut ==
    ASSUME ToolApprovalsAssumption, IInv, NEW t \in Turns, RunTool(t)
    PROVE  \E k \in Calls : Gate!CarryOut(k, t)
<1>1. PICK s \in settled[t], ok \in BOOLEAN :
          /\ s.part.verdict = "approved"
          /\ \A e \in ran : ~(e.turn = t /\ e.id = s.part.id)
          /\ ran' = ran \cup {[turn |-> t, id |-> s.part.id, call |-> s.call,
                               content |-> s.part.content, ok |-> ok]}
    BY ExecutionSteps
<1>2. s.call \in Calls /\ status[s.call] \in Passed
    BY <1>1 DEF IInv, TypeOK, Finding, SettlementsFit
<1>3. GateOf(s.call) = "approved"
    BY <1>2, GateIs DEF IInv
<1>4. \A e \in ran : e.call # s.call
    BY <1>1 DEF IInv, ExecutionsAreOwned
<1>5. UsesOf(s.call) = {}
    BY <1>4 DEF UsesOf
<1>6. \A k \in Calls : UsesOf(k)' = IF k = s.call THEN {t} ELSE UsesOf(k)
  <2>. SUFFICES ASSUME NEW k \in Calls
                PROVE  UsesOf(k)' = IF k = s.call THEN {t} ELSE UsesOf(k)
      OBVIOUS
  <2>. DEFINE new == [turn |-> t, id |-> s.part.id, call |-> s.call,
                      content |-> s.part.content, ok |-> ok]
  <2>1. new.turn = t /\ new.call = s.call
      OBVIOUS
  <2>2. {x \in ran' : x.call = k} =
            IF k = s.call THEN {new} ELSE {x \in ran : x.call = k}
      BY <1>1, <1>4, <2>1
  <2>. QED  BY <2>1, <2>2 DEF UsesOf
<1>7. UsesMap' = [UsesMap EXCEPT ![s.call] = {t}]
    BY <1>2, <1>6 DEF UsesMap
<1>8. GateMap' = GateMap
    BY DEF RunTool, rowVars, GateMap, GateOf
<1>9. Gate!CarryOut(s.call, t)
    BY <1>2, <1>3, <1>5, <1>7, <1>8 DEF Gate!CarryOut, GateMap, UsesMap
<1>. QED  BY <1>2, <1>9

LEMMA ProposingProposes ==
    ASSUME ToolApprovalsAssumption, IInv, NEW t \in Turns, Propose(t)
    PROVE  \E k \in Calls : Gate!Propose(k)
<1>1. PICK k \in Calls :
          status[k] = "absent" /\ status' = [status EXCEPT ![k] = "awaiting_approval"]
    BY DEF Propose
<1>2. GateOf(k) = "none"
    BY <1>1, GateIs DEF IInv
<1>3. \A q \in Calls : GateOf(q)' = IF q = k THEN "open" ELSE GateOf(q)
    BY <1>1 DEF GateOf, IInv, TypeOK
<1>4. GateMap' = [GateMap EXCEPT ![k] = "open"]
    BY <1>3 DEF GateMap
<1>5. UsesMap' = UsesMap
    BY DEF Propose, UsesMap, UsesOf
<1>6. Gate!Propose(k)
    BY <1>2, <1>4, <1>5 DEF Gate!Propose, GateMap, UsesMap
<1>. QED  BY <1>6

\* An outcome closes an approved row: at the gate nothing has changed.
LEMMA OutcomesStutter ==
    ASSUME ToolApprovalsAssumption, IInv, NEW t \in Turns, RecordOutcome(t)
    PROVE  UNCHANGED <<GateMap, UsesMap>>
<1>1. ran' = ran
    BY DEF RecordOutcome
<1>2. \A k \in Calls : GateOf(k)' = GateOf(k)
    BY DEF RecordOutcome, Closes, GateOf, IInv, TypeOK
<1>. QED  BY <1>1, <1>2 DEF GateMap, UsesMap, UsesOf

-----------------------------------------------------------------------------
(* The theorems                                                            *)

LEMMA InitInvariant == ToolApprovalsAssumption /\ Init => IInv
<1>. SUFFICES ASSUME ToolApprovalsAssumption, Init
              PROVE  IInv
    OBVIOUS
<1>1. TypeOK
    BY InitTypes
<1>2. /\ RequestsAreCoherent /\ EarlierCallsAreThere /\ IdleTurnsAreEmpty
      /\ FindingsFit /\ SettlementsFit /\ SettledOnce
    BY DEF Init, RequestsAreCoherent, Coherent, EarlierCallsAreThere, IdleTurnsAreEmpty,
       FindingsFit, SettlementsFit, SettledOnce
<1>3. ExecutionsAreOwned /\ RunsAsApproved /\ OutcomeIsItsOwn
    BY DEF Init, ExecutionsAreOwned, RunsAsApproved, OutcomeIsItsOwn
<1>. QED  BY <1>1, <1>2, <1>3 DEF IInv

LEMMA NextInvariant == ToolApprovalsAssumption /\ IInv /\ [Next]_vars => IInv'
<1>. SUFFICES ASSUME ToolApprovalsAssumption, IInv, [Next]_vars
              PROVE  IInv'
    OBVIOUS
<1>1. TypeOK' /\ RequestsAreCoherent' /\ EarlierCallsAreThere' /\ IdleTurnsAreEmpty'
    BY NextTypes, RequestsStayCoherent, EarlierCallsStay, IdleTurnsStayEmpty
<1>2. FindingsFit' /\ SettlementsFit' /\ SettledOnce'
    BY FindingsStayFit, SettlementsStayFit, SettledStaysOnce
<1>3. ExecutionsAreOwned' /\ RunsAsApproved' /\ OutcomeIsItsOwn'
    BY ExecutionsStayOwned, RunsStayApproved, OutcomesStayTheirOwn
<1>. QED  BY <1>1, <1>2, <1>3 DEF IInv

\* The invariant holds in every behaviour of the turns.
THEOREM Invariance == Spec => []IInv
BY InitInvariant, NextInvariant, ToolApprovalsAssumption, PTL DEF Spec

\* Type correctness: the rows, the turns and what tools did stay in their sets.
THEOREM TypeCorrect == Spec => []TypeOK
<1>1. IInv => TypeOK
    BY DEF IInv
<1>. QED  BY <1>1, Invariance, PTL

\* What the assistant does was proposed and approved as it is done: no replayed,
\* resent or altered history makes the run carry out anything else.
THEOREM WorkIsApproved == Spec => []RunsAsApproved
<1>1. IInv => RunsAsApproved
    BY DEF IInv
<1>. QED  BY <1>1, Invariance, PTL

\* An outcome closes the row of its own execution, although models reuse their ids.
THEOREM OutcomesAreTheirOwn == Spec => []OutcomeIsItsOwn
<1>1. IInv => OutcomeIsItsOwn
    BY DEF IInv
<1>. QED  BY <1>1, Invariance, PTL

\* A decision reaches no proposal older than one that was decided when it arrived,
\* although the row is found in one transaction and settled in another.
THEOREM StrandedStay == Spec => StrandedProposalsStay
<1>. DEFINE Reached ==
        \A k \in Calls : (status[k] = "awaiting_approval" /\ status'[k] # status[k]) =>
            \E t \in Turns :
                /\ found[t].call = k
                /\ \A q \in before[t] : Twins(k, q) => k \notin older[q]
<1>1. ToolApprovalsAssumption /\ IInv /\ [Next]_vars => [Reached]_vars
  <2>. SUFFICES ASSUME ToolApprovalsAssumption, IInv, [Next]_vars,
                       NEW k \in Calls, status[k] = "awaiting_approval", status'[k] # status[k]
                PROVE  \E t \in Turns :
                           /\ found[t].call = k
                           /\ \A q \in before[t] : Twins(k, q) => k \notin older[q]
      OBVIOUS
  <2>1. PICK t \in Turns : SettleDecision(t)
      BY DEF Next, Settling, Running, EndTurn, Arrive, FindProposal, FindNothing, StartRun,
         RunTool, RecordOutcome, Closes, OutcomeUnrecorded, Propose, vars, rowVars, IInv, TypeOK
  <2>2. found[t].call = k
      BY <2>1, SettleSteps DEF IInv, TypeOK
  <2>3. \A q \in before[t] : Twins(k, q) => k \notin older[q]
      BY <2>1, <2>2 DEF SettleDecision, IInv, FindingsFit
  <2>. QED  BY <2>2, <2>3
<1>. QED  BY <1>1, Invariance, ToolApprovalsAssumption, PTL DEF Spec, StrandedProposalsStay

\* The turns implement the gate: however they race, resend, replay or die, a
\* proposal is decided once, and carried out at most once and by one turn.
THEOREM ApprovalsAreAGate == Spec => DecidedAndDoneOnce
<1>1. ToolApprovalsAssumption /\ Init => Gate!Init
    BY DEF Init, Gate!Init, GateOf, UsesOf
<1>2. ToolApprovalsAssumption /\ IInv /\ [Next]_vars => [Gate!Next]_<<GateMap, UsesMap>>
  <2>. SUFFICES ASSUME ToolApprovalsAssumption, IInv, [Next]_vars
                PROVE  Gate!Next \/ UNCHANGED <<GateMap, UsesMap>>
      OBVIOUS
  <2>1. ASSUME NEW t \in Turns, SettleDecision(t)
        PROVE  Gate!Next \/ UNCHANGED <<GateMap, UsesMap>>
      BY <2>1, SettlingDecides, NextTypes DEF Gate!Next
  <2>2. ASSUME NEW t \in Turns, RunTool(t)
        PROVE  Gate!Next
      BY <2>2, ToolsCarryOut DEF Gate!Next
  <2>3. ASSUME NEW t \in Turns, Propose(t)
        PROVE  Gate!Next
      BY <2>3, ProposingProposes DEF Gate!Next
  <2>4. CASE UNCHANGED <<status, ran>>
      BY <2>4 DEF GateMap, UsesMap, GateOf, UsesOf
  <2>. QED
      BY <2>1, <2>2, <2>3, <2>4, OutcomesStutter
         DEF Next, Settling, Running, EndTurn, Arrive, FindProposal, FindNothing, StartRun,
             OutcomeUnrecorded, vars, rowVars
<1>. QED
    BY <1>1, <1>2, Invariance, ToolApprovalsAssumption, PTL
       DEF Spec, DecidedAndDoneOnce, Gate!Spec, GateMap, UsesMap

=============================================================================
