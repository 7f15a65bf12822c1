------------------------------ MODULE MotorSystem -----------------------------
(***************************************************************************)
(* A flight controller that commands the motors of MotorBank.tla over a    *)
(* link that loses, delays, repeats and reorders commands.  The controller *)
(* numbers all its commands with one counter, as hil_command_source does,  *)
(* opens sessions, and may stop for good at any time.  The bank is stepped *)
(* by the simulation that owns its time.                                   *)
(***************************************************************************)
EXTENDS MotorBank, FiniteSets

CONSTANTS
    Motor,         \* the motor indices
    Timeouts,      \* the command timeouts the controller uses
    MaxCommands,   \* how many commands it sends
    MaxSession,    \* how many sessions it opens
    MaxStep        \* the longest time one step of the bank covers

ASSUME SystemAssumption ==
    /\ Timeouts \subseteq 0..MaxTimeout
    /\ MaxCommands \in Nat /\ MaxSession \in Nat /\ MaxStep \in Nat

VARIABLES
    bank,     \* the motors
    issued,   \* the commands on the link; what is on it may arrive at any time
    next,     \* the controller's next sequence number
    session,  \* the controller's session
    stopped,  \* whether the controller has stopped
    age,      \* history: the true time since the command a motor runs on
    opened,   \* history: the session of the last disarmed command accepted
    obeyed    \* history: the commands accepted

vars == <<bank, issued, next, session, stopped, age, opened, obeyed>>

controllerVars == <<issued, next, session, stopped>>

TypeOK ==
    /\ bank \in [Motor -> MotorState]
    /\ issued \subseteq CommandFor(Motor)
    /\ next \in Nat /\ session \in Nat
    /\ stopped \in BOOLEAN
    /\ age \in [Motor -> Nat]
    /\ opened \in [Motor -> Nat]
    /\ obeyed \subseteq issued

Init ==
    /\ bank = [m \in Motor |-> IdleMotor]
    /\ issued = {}
    /\ next = 1 /\ session = 1
    /\ stopped = FALSE
    /\ age = [m \in Motor |-> 0]
    /\ opened = [m \in Motor |-> 0]
    /\ obeyed = {}

\* A disarmed command carries a throttle as well.
Issue ==
    /\ ~stopped /\ Cardinality(issued) < MaxCommands
    /\ \E m \in Motor, armed \in BOOLEAN, timeout \in Timeouts :
          issued' = issued \cup
              {[motor |-> m, seq |-> next, session |-> session, armed |-> armed,
                throttle |-> MaxThrottle, timeout |-> timeout]}
    /\ next' = next + 1
    /\ UNCHANGED <<bank, session, stopped, age, opened, obeyed>>

\* The numbering goes on through a new session or starts again.
OpenSession ==
    /\ ~stopped /\ session < MaxSession
    /\ session' = session + 1
    /\ next' \in {1, next}
    /\ UNCHANGED <<bank, issued, stopped, age, opened, obeyed>>

Stop ==
    /\ ~stopped
    /\ stopped' = TRUE
    /\ UNCHANGED <<bank, issued, next, session, age, opened, obeyed>>

\* asr_fc_virtual_motor_bank_apply for a command that arrives
Deliver ==
    \E c \in issued :
        LET m == c.motor IN
        /\ bank' = [bank EXCEPT ![m] = Apply(bank[m], c)]
        /\ age' = IF Accepts(bank[m], c) THEN [age EXCEPT ![m] = 0] ELSE age
        /\ opened' = IF Accepts(bank[m], c) /\ ~c.armed
                     THEN [opened EXCEPT ![m] = c.session] ELSE opened
        /\ obeyed' = IF Accepts(bank[m], c) THEN obeyed \cup {c} ELSE obeyed
        /\ UNCHANGED controllerVars

\* asr_fc_virtual_motor_bank_step: d milliseconds for every motor
StepBank(d) ==
    /\ bank' = [m \in Motor |-> StepMotor(bank[m], d)]
    /\ age' = [m \in Motor |-> IF bank[m].armed THEN age[m] + d ELSE age[m]]
    /\ UNCHANGED <<controllerVars, opened, obeyed>>

Next ==
    \/ Issue \/ OpenSession \/ Stop \/ Deliver
    \/ \E d \in 0..MaxStep : StepBank(d)

\* The simulation that owns the bank's time goes on; nothing is promised of
\* the controller or the link.
TimePasses == WF_vars(\E d \in 1..MaxStep : StepBank(d))

Spec == Init /\ [][Next]_vars

FairSpec == Spec /\ TimePasses

-----------------------------------------------------------------------------
(* Properties *)

\* A motor turns only when armed and no longer than the timeout of the
\* command it runs on, in true time: neither the saturation of the elapsed
\* time nor a refused command stretches the lease.
LeaseHolds ==
    \A m \in Motor :
        /\ bank[m].throttle # 0 => bank[m].armed
        /\ bank[m].armed => age[m] = bank[m].elapsed /\ age[m] <= bank[m].timeout

\* A motor runs only in the session of the last disarmed command it obeyed:
\* no session is entered armed, and no old session is re-entered armed.
SessionOpenedDisarmed ==
    \A m \in Motor : bank[m].armed => opened[m] = bank[m].session

\* A command is refused for its number exactly as long as the motor has obeyed
\* one with at least that number, in whatever session.  So a controller that
\* starts its numbers again is refused until it passes the highest it has used
\* before, and not for longer.
RefusedUntilPassed ==
    \A c \in issued :
        OutOfSequence(bank[c.motor], c)
            <=> \E k \in obeyed : k.motor = c.motor /\ k.seq >= c.seq

\* A motor that stops without having been told so says why.
StopsAreExplained ==
    [][\A m \in Motor :
         bank[m].armed /\ ~bank'[m].armed =>
            \/ bank'[m].faults # {}
            \/ \E c \in issued : /\ c.motor = m /\ ~c.armed
                                 /\ c.seq = bank'[m].lastSeq
                                 /\ c.seq > bank[m].lastSeq]_vars

\* The bank keeps the promise of MotorLease.tla.
Lease == INSTANCE MotorLease WITH
    running <- {m \in Motor : bank[m].armed},
    left <- [m \in Motor |->
                IF bank[m].armed THEN bank[m].timeout - bank[m].elapsed ELSE 0]

KeepsLease == Lease!Spec

\* Once the controller has stopped every motor comes to stand for good, even
\* though the link may still deliver or repeat anything sent before.
StopsForGood == stopped ~> [](\A m \in Motor : ~bank[m].armed)

=============================================================================
