---------------------------- MODULE ApprovalGate ----------------------------
(***************************************************************************)
(* What the chat assistant's approvals promise: a proposed call is decided *)
(* at most once, and what it proposes is done at most once, by one turn,   *)
(* and only after it was approved.                                         *)
(***************************************************************************)
CONSTANTS Calls, Turns

VARIABLES
    gate,  \* call -> where its proposal stands
    uses   \* call -> the turns that carried it out

Init ==
    /\ gate = [k \in Calls |-> "none"]
    /\ uses = [k \in Calls |-> {}]

Propose(k) ==
    /\ gate[k] = "none"
    /\ gate' = [gate EXCEPT ![k] = "open"]
    /\ UNCHANGED uses

Decide(k, verdict) ==
    /\ gate[k] = "open"
    /\ gate' = [gate EXCEPT ![k] = verdict]
    /\ UNCHANGED uses

CarryOut(k, t) ==
    /\ gate[k] = "approved"
    /\ uses[k] = {}
    /\ uses' = [uses EXCEPT ![k] = {t}]
    /\ UNCHANGED gate

Next ==
    \E k \in Calls :
        \/ Propose(k)
        \/ \E verdict \in {"approved", "denied"} : Decide(k, verdict)
        \/ \E t \in Turns : CarryOut(k, t)

Spec == Init /\ [][Next]_<<gate, uses>>

=============================================================================
