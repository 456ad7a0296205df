------------------------- MODULE StageRecordsProofs -------------------------
(***************************************************************************)
(* What the stage-row operators return, for every set of stages.           *)
(***************************************************************************)
EXTENDS StageRecords, TLAPS

\* The projection of a stage status is an ended one, whatever ended the run.
LEMMA ProjectedIsEnded ==
    ASSUME NEW stageStatus \in StageStatuses, NEW runStatus
    PROVE  Projected(stageStatus, runStatus) \in EndedStageStatuses
BY DEF Projected, StageStatuses, EndedStageStatuses

LEMMA EndedIsStageStatus == EndedStageStatuses \subseteq StageStatuses
BY DEF StageStatuses, EndedStageStatuses

\* An upsert keeps rows rows, and no row's version falls.
LEMMA UpsertRows ==
    ASSUME NEW S, NEW rows \in [S -> StageRow], NEW header \in Nat, NEW reported,
           \A s \in DOMAIN reported : reported[s] \in StageStatuses
    PROVE  /\ Upsert(rows, header, reported) \in [S -> StageRow]
           /\ \A s \in S : Upsert(rows, header, reported)[s].header >= rows[s].header
<1>. DEFINE new == Upsert(rows, header, reported)
<1>1. \A s \in S : rows[s].header \in Nat
    BY DEF StageRow, NoRow
<1>2. \A s \in S : new[s] \in StageRow
    BY DEF Upsert, StageRow
<1>3. \A s \in S : new[s].header >= rows[s].header
  <2>. SUFFICES ASSUME NEW s \in S
                PROVE  new[s].header >= rows[s].header
      OBVIOUS
  <2>1. new[s] = rows[s] \/ (new[s].header = header /\ rows[s].header < header)
                          \/ (new[s].header = header /\ ~HasRow(rows[s]))
      BY DEF Upsert
  <2>2. ~HasRow(rows[s]) => rows[s].header = 0
      BY DEF HasRow, StageRow, NoRow, StageStatuses
  <2>. QED  BY <1>1, <2>1, <2>2
<1>4. new = [s \in S |-> new[s]]
    BY DEF Upsert
<1>. QED  BY <1>2, <1>3, <1>4

LEMMA OverlayRows ==
    ASSUME NEW S, NEW rows \in [S -> StageRow], NEW header \in Nat, NEW reported,
           \A s \in DOMAIN reported : reported[s] \in StageStatuses
    PROVE  Overlay(rows, header, reported) \in [S -> StageRow]
BY DEF Overlay, StageRow

\* Closing the rows of a run ends every stage of its plan and leaves the others
\* and every version alone.
LEMMA ClosedRows ==
    ASSUME NEW S, NEW rows \in [S -> StageRow], NEW plan \in SUBSET S, NEW runStatus
    PROVE  /\ Closed(rows, plan, runStatus) \in [S -> StageRow]
           /\ \A s \in plan : Closed(rows, plan, runStatus)[s].status \in EndedStageStatuses
           /\ \A s \in S : Closed(rows, plan, runStatus)[s].header = rows[s].header
<1>1. \A s \in S : rows[s].header \in Nat /\ (HasRow(rows[s]) => rows[s].status \in StageStatuses)
    BY DEF StageRow, NoRow, HasRow
<1>2. "WAITING" \in StageStatuses
    BY DEF StageStatuses
<1>3. \A s \in plan :
          /\ Closed(rows, plan, runStatus)[s].header = rows[s].header
          /\ Closed(rows, plan, runStatus)[s].status \in EndedStageStatuses
          /\ Closed(rows, plan, runStatus)[s] \in StageRow
    BY <1>1, <1>2, ProjectedIsEnded, EndedIsStageStatus DEF Closed, StageRow
<1>4. \A s \in S \ plan : Closed(rows, plan, runStatus)[s] = rows[s]
    BY DEF Closed
<1>5. DOMAIN Closed(rows, plan, runStatus) = S
    BY DEF Closed
<1>6. Closed(rows, plan, runStatus) = [s \in S |-> Closed(rows, plan, runStatus)[s]]
    BY DEF Closed
<1>. QED  BY <1>3, <1>4, <1>5, <1>6

=============================================================================
