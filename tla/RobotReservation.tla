-------------------------- MODULE RobotReservation --------------------------
(***************************************************************************)
(* What run control promises about robots, with nothing of how: a robot is *)
(* reserved for one run at a time, from the run's dispatch until the run   *)
(* ends, and a run that has ended never gets a robot again.                *)
(***************************************************************************)
CONSTANTS Runs, Robots, None

VARIABLES
    holder,  \* robot -> the run it is reserved for, or None
    spent    \* the runs that have ended

Init ==
    /\ holder = [b \in Robots |-> None]
    /\ spent = {}

Reserve(b, r) ==
    /\ holder[b] = None
    /\ r \notin spent
    /\ \A c \in Robots : holder[c] # r
    /\ holder' = [holder EXCEPT ![b] = r]
    /\ UNCHANGED spent

Release(b) ==
    /\ holder[b] # None
    /\ holder' = [holder EXCEPT ![b] = None]
    /\ spent' = spent \cup {holder[b]}

Next ==
    \E b \in Robots : Release(b) \/ \E r \in Runs : Reserve(b, r)

Spec == Init /\ [][Next]_<<holder, spent>>

=============================================================================
