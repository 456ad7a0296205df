---------------------------- MODULE MCFleetStatus ----------------------------
(***************************************************************************)
(* Instances of FleetStatus for TLC.                                       *)
(***************************************************************************)
EXTENDS FleetStatus

CONSTANTS b1, c1

MCConsumers == Drains \cup Clients

\* Each client is subscribed to the status of the first robot.
MCSubscription ==
    [c \in MCConsumers |-> CASE c = "registry" -> {Registry}
                             [] c = "mission" -> {Lifecycle, RunState}
                             [] OTHER -> {Status(b1)}]

MCBounds == [n \in Counted |-> IF n = "transactions" THEN 2 ELSE 1]

\* Only the handlers, and nothing that fails.
MCHandlersOnly == [n \in Counted |-> IF n = "transactions" THEN 2 ELSE 0]
=============================================================================
