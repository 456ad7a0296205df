------------------------- MODULE RunLifecycleProofs -------------------------
(***************************************************************************)
(* Facts about the transition table, for every pair of status and trigger. *)
(***************************************************************************)
EXTENDS RunLifecycle, TLAPS

\* Every entry of ALLOWED_TRANSITIONS leads from an active status to a status:
\* the terminal statuses have no outbound transition.
LEMMA AllowedTypes ==
    ASSUME NEW from, NEW trigger, NEW to, Allowed(from, trigger, to)
    PROVE  from \in ActiveStatuses /\ trigger \in Triggers /\ to \in Statuses
<1>1. <<from, trigger, to>> \in AllowedTransitions
    BY DEF Allowed
<1>2. CASE <<from, trigger, to>> \in ReplyTransitions \cup RequestTransitions
    BY <1>2 DEF ReplyTransitions, RequestTransitions, ActiveStatuses, ExecutingStatuses,
                TerminalStatuses, Statuses, Triggers
<1>3. CASE <<from, trigger, to>> \in ProgressTransitions \cup CloseTransitions
    BY <1>3 DEF ProgressTransitions, CloseTransitions, ActiveStatuses, ExecutingStatuses,
                TerminalStatuses, Statuses, Triggers
<1>4. CASE <<from, trigger, to>> \in ReconcileTransitions \cup OutcomeTransitions
    BY <1>4 DEF ReconcileTransitions, OutcomeTransitions, ActiveStatuses, ExecutingStatuses,
                TerminalStatuses, Statuses, Triggers
<1>. QED  BY <1>1, <1>2, <1>3, <1>4 DEF AllowedTransitions

\* A status and a trigger determine the next status: next_state is a function.
LEMMA AllowedIsFunctional ==
    ASSUME NEW from, NEW trigger, NEW to1, NEW to2,
           Allowed(from, trigger, to1), Allowed(from, trigger, to2)
    PROVE  to1 = to2
BY DEF Allowed, AllowedTransitions, ReplyTransitions, RequestTransitions, ProgressTransitions,
       CloseTransitions, ReconcileTransitions, OutcomeTransitions, ActiveStatuses,
       ExecutingStatuses

\* The statuses that end a run and those that do not are disjoint, and neither
\* is the marker of a run without a row.
LEMMA StatusesAreSplit ==
    /\ Statuses = ActiveStatuses \cup TerminalStatuses
    /\ ActiveStatuses \cap TerminalStatuses = {}
    /\ {"absent", "deleted"} \cap Statuses = {}
BY DEF Statuses, ActiveStatuses, ExecutingStatuses, TerminalStatuses

=============================================================================
