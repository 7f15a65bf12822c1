------------------------------ MODULE MotorLease ------------------------------
(***************************************************************************)
(* What a motor node promises: a motor runs on a lease.  A grant lets it   *)
(* run for its term; time wears the lease down for all motors alike, and a *)
(* motor whose lease is worn out stands.  MotorSystem implements it.       *)
(***************************************************************************)
EXTENDS Integers

CONSTANTS
    Motor,
    MaxStep  \* the longest time that passes at once

VARIABLES
    running,  \* the motors that run
    left      \* what is left of each running motor's lease, 0 for the others

Init == running = {} /\ left = [m \in Motor |-> 0]

\* A command is obeyed: the motor runs for a new term, or stands.
Grant(m) ==
    /\ running' = running \cup {m}
    /\ left'[m] \in Nat  \* the new term
    /\ left' = [left EXCEPT ![m] = left'[m]]

Revoke(m) ==
    /\ running' = running \ {m}
    /\ left' = [left EXCEPT ![m] = 0]

\* d units of time pass: exactly the motors whose lease covers them run on.
Pass(d) ==
    /\ running' = {m \in running : d <= left[m]}
    /\ left' = [m \in Motor |-> IF m \in running' THEN left[m] - d ELSE 0]

Next ==
    \/ \E m \in Motor : Grant(m) \/ Revoke(m)
    \/ \E d \in 0..MaxStep : Pass(d)

Spec == Init /\ [][Next]_<<running, left>>

=============================================================================
