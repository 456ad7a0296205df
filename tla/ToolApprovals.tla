---------------------------- MODULE ToolApprovals ----------------------------
(***************************************************************************)
(* The approval of the tool calls the chat assistant proposes: the rows of *)
(* tool_calls, and the chat turns that settle decisions, run what they     *)
(* approve, record the outcomes and propose new calls.                     *)
(*                                                                         *)
(* A turn holds no transaction: each access to the rows is one short       *)
(* transaction and one action here, and turns interleave between them.  A  *)
(* turn may die at any point.  The operator is one, as in the code.        *)
(*                                                                         *)
(* A part is a tool call in the history a client sends: the id the model   *)
(* gave it, its content (verb and arguments), the operator's verdict if it *)
(* answers a request for approval, and whether it is in the newest         *)
(* assistant message.  Parts that carry their result are left out: they    *)
(* decide nothing, nothing runs them, and a request in which one has the   *)
(* id of a decision is refused, which changes nothing.                     *)
(***************************************************************************)
CONSTANTS
    Calls,      \* the storage keys of proposals, each used at most once
    Turns,      \* the requests, each arriving at most once
    Ids,        \* the ids models give to calls, by no means unique
    Contents,   \* verbs with their arguments
    Histories,  \* what clients send: sets of parts
    None        \* no call

Part == [id : Ids, content : Contents, verdict : {"approved", "denied", "none"}, newest : BOOLEAN]

ASSUME ToolApprovalsAssumption ==
    /\ None \notin Calls
    /\ Histories \subseteq SUBSET Part

VARIABLES
    \* the rows
    status,   \* call -> its status, "absent" before it is proposed
    id,       \* call -> the model's id
    content,  \* call -> verb and arguments
    older,    \* call -> the calls that were there when it was created
    \* the turns
    phase,    \* turn -> how far it is
    history,  \* turn -> the parts of its request
    todo,     \* turn -> the decisions it has not settled yet
    found,    \* turn -> the decision and the row it is about to settle
    settled,  \* turn -> the decisions it settled and their rows
    owing,    \* turn -> ids of the calls that ran and whose outcome is not handled
    ran,      \* what the assistant's tools have done
    before    \* turn -> calls decided when it arrived; read by properties only

rowVars == <<status, id, content, older>>
turnVars == <<phase, history, todo, found, settled, owing, before>>
vars == <<rowVars, turnVars, ran>>

-----------------------------------------------------------------------------

Statuses == {"awaiting_approval", "approved", "denied", "succeeded", "failed"}
DecidedStatuses == Statuses \ {"awaiting_approval"}

Phases == {"idle", "settling", "running", "over"}
Finding == [part : Part, call : Calls]
NoFinding == [call |-> None]
Execution == [turn : Turns, id : Ids, call : Calls \cup {None}, content : Contents, ok : BOOLEAN]

TypeOK ==
    /\ status \in [Calls -> Statuses \cup {"absent"}]
    /\ id \in [Calls -> Ids \cup {None}]
    /\ content \in [Calls -> Contents \cup {None}]
    /\ older \in [Calls -> SUBSET Calls]
    /\ phase \in [Turns -> Phases]
    /\ history \in [Turns -> SUBSET Part]
    /\ todo \in [Turns -> SUBSET Part]
    /\ found \in [Turns -> Finding \cup {NoFinding}]
    /\ settled \in [Turns -> SUBSET Finding]
    /\ owing \in [Turns -> SUBSET Ids]
    /\ ran \in SUBSET Execution
    /\ before \in [Turns -> SUBSET Calls]

Init ==
    /\ status = [k \in Calls |-> "absent"]
    /\ id = [k \in Calls |-> None]
    /\ content = [k \in Calls |-> None]
    /\ older = [k \in Calls |-> {}]
    /\ phase = [t \in Turns |-> "idle"]
    /\ history = [t \in Turns |-> {}]
    /\ todo = [t \in Turns |-> {}]
    /\ found = [t \in Turns |-> NoFinding]
    /\ settled = [t \in Turns |-> {}]
    /\ owing = [t \in Turns |-> {}]
    /\ ran = {}
    /\ before = [t \in Turns |-> {}]

-----------------------------------------------------------------------------
(* The request and its decisions                                           *)

\* reject_repeated_tool_call_ids: an id the operator decided on names one part.
Coherent(h) ==
    \A p, q \in h : (p.verdict # "none" /\ q.id = p.id) => q = p

\* approval_responses: the answers in the newest assistant message.
Decisions(h) == {p \in h : p.newest /\ p.verdict # "none"}

\* A request is parsed, and refused before anything is spent, or goes on.
Arrive(t) ==
    /\ phase[t] = "idle"
    /\ \E h \in Histories :
          /\ Coherent(h)
          /\ history' = [history EXCEPT ![t] = h]
          /\ todo' = [todo EXCEPT ![t] = Decisions(h)]
    /\ phase' = [phase EXCEPT ![t] = "settling"]
    /\ before' = [before EXCEPT ![t] = {k \in Calls : status[k] \in DecidedStatuses}]
    /\ UNCHANGED <<rowVars, found, settled, owing, ran>>

\* The proposals a decision may mean: the same id, verb and arguments.
Candidates(p) ==
    {k \in Calls : status[k] # "absent" /\ id[k] = p.id /\ content[k] = p.content}

\* Slip: the newest of those that still await a decision.
SlipMatches(p, k) ==
    /\ k \in Candidates(p)
    /\ status[k] = "awaiting_approval"
    /\ \A q \in Candidates(p) : status[q] = "awaiting_approval" => k \notin older[q]

\* record_decision up to its first await: the newest of them, if it still awaits
\* a decision.
Matches(p, k) ==
    /\ k \in Candidates(p)
    /\ \A q \in Candidates(p) : k \notin older[q]
    /\ status[k] = "awaiting_approval"

FindProposal(t) ==
    /\ phase[t] = "settling"
    /\ found[t] = NoFinding
    /\ \E p \in todo[t], k \in Calls :
          /\ Matches(p, k)
          /\ found' = [found EXCEPT ![t] = [part |-> p, call |-> k]]
    /\ UNCHANGED <<rowVars, phase, history, todo, settled, owing, ran, before>>

FindNothing(t) ==
    /\ phase[t] = "settling"
    /\ found[t] = NoFinding
    /\ \E p \in todo[t] :
          /\ \A k \in Calls : ~Matches(p, k)
          /\ todo' = [todo EXCEPT ![t] = @ \ {p}]
    /\ UNCHANGED <<rowVars, phase, history, found, settled, owing, ran, before>>

\* Slip: the status read before is relied on.
SlipUndecided(k) == status[k] # "absent"

\* The predicate of settle_tool_call's compare-and-set.
Undecided(k) == status[k] = "awaiting_approval"

\* The row is settled, unless another turn's decision came first.
SettleWins(t) ==
    /\ Undecided(found[t].call)
    /\ status' = [status EXCEPT ![found[t].call] = found[t].part.verdict]
    /\ settled' = [settled EXCEPT ![t] = @ \cup {found[t]}]

SettleLoses(t) ==
    /\ ~Undecided(found[t].call)
    /\ UNCHANGED <<status, settled>>

SettleDecision(t) ==
    /\ found[t] # NoFinding
    /\ SettleWins(t) \/ SettleLoses(t)
    /\ todo' = [todo EXCEPT ![t] = @ \ {found[t].part}]
    /\ found' = [found EXCEPT ![t] = NoFinding]
    /\ UNCHANGED <<id, content, older, phase, history, owing, ran, before>>

-----------------------------------------------------------------------------
(* The run                                                                 *)

SettledIds(t) == {s.part.id : s \in settled[t]}

\* Slip: the history reaches the run as the client sent it.
SlipPruned(t) == history[t]

\* pruned: the run sees the parts this turn has settled.
Pruned(t) == {p \in history[t] : p.id \in SettledIds(t)}

\* All decisions are settled, or have come to nothing; the model is run.
StartRun(t) ==
    /\ phase[t] = "settling"
    /\ todo[t] = {}
    /\ phase' = [phase EXCEPT ![t] = "running"]
    /\ UNCHANGED <<rowVars, history, todo, found, settled, owing, ran, before>>

\* The run carries out the calls it is told are approved.  Told nothing, it takes
\* what the history says for the operator's word (external).
Approved(t) ==
    IF settled[t] # {}
    THEN {p \in Pruned(t) : \E s \in settled[t] : s.part.id = p.id /\ s.part.verdict = "approved"}
    ELSE {p \in Pruned(t) : p.verdict = "approved"}

\* The proposal a call of this turn is accounted to (_settled_row_id).
RowFor(t, i) ==
    IF i \in SettledIds(t) THEN (CHOOSE s \in settled[t] : s.part.id = i).call ELSE None

\* A tool runs, and succeeds or raises; each id runs once in a turn (external).
RunTool(t) ==
    /\ phase[t] = "running"
    /\ \E p \in Approved(t), ok \in BOOLEAN :
          /\ \A e \in ran : ~(e.turn = t /\ e.id = p.id)
          /\ ran' = ran \cup {[turn |-> t, id |-> p.id, call |-> RowFor(t, p.id),
                               content |-> p.content, ok |-> ok]}
          /\ owing' = [owing EXCEPT ![t] = @ \cup {p.id}]
    /\ UNCHANGED <<rowVars, phase, history, todo, found, settled, before>>

\* Slip: the outcome closes every approved row with the call's id.
SlipCloses(e, k) == status[k] = "approved" /\ id[k] = e.id

\* The rows record_tool_call_outcome closes: the one the turn settled, by its
\* storage key, while it is approved.
Closes(e, k) == status[k] = "approved" /\ k = e.call

RecordOutcome(t) ==
    \E e \in ran :
        /\ e.turn = t
        /\ e.id \in owing[t]
        /\ status' = [k \in Calls |->
                         IF Closes(e, k) THEN IF e.ok THEN "succeeded" ELSE "failed"
                                         ELSE status[k]]
        /\ owing' = [owing EXCEPT ![t] = @ \ {e.id}]
        /\ UNCHANGED <<id, content, older, phase, history, todo, found, settled, ran, before>>

\* Recording it fails: the turn goes on without.
OutcomeUnrecorded(t) ==
    \E i \in owing[t] :
        /\ owing' = [owing EXCEPT ![t] = @ \ {i}]
        /\ UNCHANGED <<rowVars, phase, history, todo, found, settled, ran, before>>

\* The turn is complete and paused on calls that need approval: each is recorded
\* in a transaction of its own.  Its tools have run and are accounted for.
Propose(t) ==
    /\ phase[t] = "running"
    /\ owing[t] = {}
    /\ \A p \in Approved(t) : \E e \in ran : e.turn = t /\ e.id = p.id
    /\ \E k \in Calls, i \in Ids, c \in Contents :
          /\ status[k] = "absent"
          /\ status' = [status EXCEPT ![k] = "awaiting_approval"]
          /\ id' = [id EXCEPT ![k] = i]
          /\ content' = [content EXCEPT ![k] = c]
          /\ older' = [older EXCEPT ![k] = {q \in Calls : status[q] # "absent"}]
    /\ UNCHANGED <<turnVars, ran>>

\* The turn ends, completed or not: the client leaves, the model fails, the
\* process dies.
EndTurn(t) ==
    /\ phase[t] \in {"settling", "running"}
    /\ phase' = [phase EXCEPT ![t] = "over"]
    /\ history' = [history EXCEPT ![t] = {}]
    /\ todo' = [todo EXCEPT ![t] = {}]
    /\ found' = [found EXCEPT ![t] = NoFinding]
    /\ settled' = [settled EXCEPT ![t] = {}]
    /\ owing' = [owing EXCEPT ![t] = {}]
    /\ UNCHANGED <<rowVars, ran, before>>

Settling(t) == Arrive(t) \/ FindProposal(t) \/ FindNothing(t) \/ SettleDecision(t)
Running(t) ==
    \/ StartRun(t) \/ RunTool(t) \/ RecordOutcome(t) \/ OutcomeUnrecorded(t) \/ Propose(t)

Next == \E t \in Turns : Settling(t) \/ Running(t) \/ EndTurn(t)

Spec == Init /\ [][Next]_vars

-----------------------------------------------------------------------------
(* Safety                                                                  *)

\* What a tool has done was proposed and approved as it was done: the same verb
\* and arguments, under the row whose approval this turn settled.
RunsAsApproved ==
    \A e \in ran :
        /\ e.call \in Calls
        /\ content[e.call] = e.content
        /\ status[e.call] \in {"approved", "succeeded", "failed"}

\* The outcome on a row is that of its own execution, however many proposals share
\* the model's id.
OutcomeIsItsOwn ==
    \A k \in Calls : status[k] \in {"succeeded", "failed"} =>
        \E e \in ran : e.call = k /\ e.ok = (status[k] = "succeeded")

Twins(k, q) == id[k] = id[q] /\ content[k] = content[q]

\* A decision does not reach past a proposal that was decided before it arrived:
\* neither a replay nor an approval after a denial settles an older twin.
StrandedProposalsStay ==
    [][\A k \in Calls : (status[k] = "awaiting_approval" /\ status'[k] # status[k]) =>
          \E t \in Turns :
              /\ found[t].call = k
              /\ \A q \in before[t] : Twins(k, q) => k \notin older[q]]_vars

\* Where a proposal stands at the gate, and who has carried it out.
GateOf(k) ==
    CASE status[k] = "absent" -> "none"
      [] status[k] = "awaiting_approval" -> "open"
      [] status[k] = "denied" -> "denied"
      [] OTHER -> "approved"
UsesOf(k) == {e.turn : e \in {x \in ran : x.call = k}}

Gate == INSTANCE ApprovalGate
    WITH gate <- [k \in Calls |-> GateOf(k)], uses <- [k \in Calls |-> UsesOf(k)]

\* The rows and the turns implement the gate: whatever turns race, resend or die,
\* a proposal is decided once and carried out once.
DecidedAndDoneOnce == Gate!Spec

=============================================================================
