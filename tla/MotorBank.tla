------------------------------- MODULE MotorBank ------------------------------
(***************************************************************************)
(* The virtual motor bank, application/sil/virtual_motor_bank.c: four      *)
(* motors that obey commands in sequence, arm only inside a session that a *)
(* disarmed command has opened, and stop when commands stay away.  Every   *)
(* function works on one motor at a time, so each is an operator here that *)
(* maps a motor to the new motor.                                          *)
(***************************************************************************)
EXTENDS Integers

CONSTANTS
    MaxElapsed,   \* UINT32_MAX, where elapsed_ms saturates
    MaxTimeout,   \* UINT16_MAX, the largest command_timeout_ms
    MaxThrottle   \* 32767

\* The timeout field is narrower than the elapsed time it is compared with.
ASSUME WidthAssumption ==
    /\ MaxElapsed \in Nat /\ MaxTimeout \in Nat /\ MaxThrottle \in Nat
    /\ MaxTimeout < MaxElapsed

Fault == {"SEQUENCE", "SESSION", "COMMAND_TIMEOUT"}

\* asr_fc_virtual_motor_t
MotorState ==
    [initialized : BOOLEAN, armed : BOOLEAN, throttle : 0..MaxThrottle,
     timeout : 0..MaxTimeout, elapsed : 0..MaxElapsed, session : Nat,
     lastSeq : Nat, faults : SUBSET Fault]

\* asr_fc_motor_command_t with its sequence number; the flags and the
\* heartbeat timeout are carried and never read.
CommandFor(Motor) ==
    [motor : Motor, seq : Nat, session : Nat, armed : BOOLEAN,
     throttle : Nat, timeout : 0..MaxTimeout]

\* asr_fc_virtual_motor_bank_init
IdleMotor ==
    [initialized |-> FALSE, armed |-> FALSE, throttle |-> 0, timeout |-> 0,
     elapsed |-> 0, session |-> 0, lastSeq |-> 0, faults |-> {}]

\* Mutation: the motor stops without a fault.
FailSilently(m, fault) == [m EXCEPT !.armed = FALSE, !.throttle = 0]

\* Mutation: the fault is recorded but the motor runs on.
FailRunning(m, fault) == [m EXCEPT !.faults = @ \cup {fault}]

\* disarm(), with the fault that caused it
Fail(m, fault) ==
    [m EXCEPT !.armed = FALSE, !.throttle = 0, !.faults = @ \cup {fault}]

-----------------------------------------------------------------------------
(* asr_fc_virtual_motor_bank_apply *)

Wellformed(c) == c.throttle <= MaxThrottle /\ c.timeout # 0

\* Mutation: the last command counts once more.
BeforeLast(m, c) == m.initialized /\ c.seq < m.lastSeq

\* Mutation: a new session may start its numbers again.
OutOfSequenceInSession(m, c) ==
    m.initialized /\ c.session = m.session /\ c.seq <= m.lastSeq

OutOfSequence(m, c) == m.initialized /\ c.seq <= m.lastSeq

\* Mutation: any command opens a session.
NeverForeign(m, c) == FALSE

\* An armed command cannot open a session.
ForeignArmed(m, c) == (~m.initialized \/ c.session # m.session) /\ c.armed

Accepted(m, c) ==
    [m EXCEPT !.initialized = TRUE, !.armed = c.armed,
              !.throttle = IF c.armed THEN c.throttle ELSE 0,
              !.timeout = c.timeout, !.elapsed = 0,
              !.session = c.session, !.lastSeq = c.seq]

Accepts(m, c) == Wellformed(c) /\ ~OutOfSequence(m, c) /\ ~ForeignArmed(m, c)

Apply(m, c) ==
    CASE ~Wellformed(c) -> m
      [] Wellformed(c) /\ OutOfSequence(m, c) -> Fail(m, "SEQUENCE")
      [] Wellformed(c) /\ ~OutOfSequence(m, c) /\ ForeignArmed(m, c) -> Fail(m, "SESSION")
      [] Accepts(m, c) -> Accepted(m, c)

-----------------------------------------------------------------------------
(* asr_fc_virtual_motor_bank_step *)

\* Mutation: the sum wraps.
WrappingSum(elapsed, d) == (elapsed + d) % (MaxElapsed + 1)

\* Mutation: the sum is not kept within its width.
PlainSum(elapsed, d) == elapsed + d

SaturatingSum(elapsed, d) == IF MaxElapsed - elapsed < d THEN MaxElapsed ELSE elapsed + d

Waited(m, d) == [m EXCEPT !.elapsed = SaturatingSum(m.elapsed, d)]

StepMotor(m, d) ==
    IF ~m.initialized \/ ~m.armed THEN m
    ELSE IF SaturatingSum(m.elapsed, d) > m.timeout
         THEN Fail(Waited(m, d), "COMMAND_TIMEOUT")
         ELSE Waited(m, d)

=============================================================================
