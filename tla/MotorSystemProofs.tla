-------------------------- MODULE MotorSystemProofs ---------------------------
(***************************************************************************)
(* Theorems about the motor bank behind its link, for every number of      *)
(* motors, sessions and commands and every width of the counters.  The     *)
(* lemmas treat one motor; the invariant is then preserved motor by motor. *)
(***************************************************************************)
EXTENDS MotorSystem, TLAPS

USE WidthAssumption, SystemAssumption

-----------------------------------------------------------------------------
(* One motor *)

\* The elapsed time stays within its width, and saturating it never hides
\* an overrun: the comparison with the timeout sees the true sum.
LEMMA SaturatingSumExact ==
    ASSUME NEW elapsed \in 0..MaxElapsed, NEW d \in Nat, NEW t \in 0..MaxTimeout
    PROVE  LET sum == SaturatingSum(elapsed, d)
           IN  /\ sum \in 0..MaxElapsed
               /\ \/ sum > t /\ elapsed + d > t
                  \/ ~(sum > t) /\ elapsed + d <= t /\ sum = elapsed + d
BY DEF SaturatingSum

\* A fault stops the motor, leaves a reason and changes nothing else.
LEMMA FailReturns ==
    ASSUME NEW m \in MotorState, NEW fault \in Fault
    PROVE  LET n == Fail(m, fault)
           IN  /\ n \in MotorState
               /\ ~n.armed /\ n.throttle = 0 /\ n.faults # {}
               /\ n.initialized = m.initialized /\ n.session = m.session
               /\ n.lastSeq = m.lastSeq
<1> DEFINE faults == m.faults \cup {fault}
<1>1. faults \in SUBSET Fault /\ faults # {}
  BY DEF MotorState
<1>2. 0 \in 0..MaxThrottle
  OBVIOUS
<1>3. Fail(m, fault) = [m EXCEPT !.armed = FALSE, !.throttle = 0, !.faults = faults]
  BY DEF Fail, MotorState
<1> HIDE DEF faults
<1> QED
  BY <1>1, <1>2, <1>3 DEF MotorState

\* An accepted command starts a new lease in its own session.
LEMMA AcceptedReturns ==
    ASSUME NEW Indices, NEW m \in MotorState, NEW c \in CommandFor(Indices), Wellformed(c)
    PROVE  LET n == Accepted(m, c)
           IN  /\ n \in MotorState
               /\ n.armed = c.armed /\ n.elapsed = 0 /\ n.timeout = c.timeout
               /\ n.throttle # 0 => n.armed
               /\ n.initialized /\ n.session = c.session /\ n.lastSeq = c.seq
<1> DEFINE throttle == IF c.armed THEN c.throttle ELSE 0
<1>1. throttle \in 0..MaxThrottle /\ (throttle # 0 => c.armed)
  BY DEF CommandFor, Wellformed
<1>2. Accepted(m, c) =
        [m EXCEPT !.initialized = TRUE, !.armed = c.armed, !.throttle = throttle,
                  !.timeout = c.timeout, !.elapsed = 0, !.session = c.session,
                  !.lastSeq = c.seq]
  BY DEF Accepted
<1>3. 0 \in 0..MaxElapsed
  OBVIOUS
<1>4. /\ c.armed \in BOOLEAN /\ c.timeout \in 0..MaxTimeout
      /\ c.session \in Nat /\ c.seq \in Nat
  BY DEF CommandFor
<1> HIDE DEF throttle
<1> QED
  BY <1>1, <1>2, <1>3, <1>4 DEF MotorState

\* Waiting changes the elapsed time only.
LEMMA WaitedReturns ==
    ASSUME NEW m \in MotorState, NEW d \in Nat
    PROVE  LET n == Waited(m, d)
           IN  /\ n \in MotorState
               /\ n.elapsed = SaturatingSum(m.elapsed, d)
               /\ n.armed = m.armed /\ n.throttle = m.throttle
               /\ n.timeout = m.timeout /\ n.initialized = m.initialized
               /\ n.session = m.session /\ n.lastSeq = m.lastSeq
<1>1. SaturatingSum(m.elapsed, d) \in 0..MaxElapsed
  BY SaturatingSumExact DEF MotorState
<1> QED
  BY <1>1 DEF Waited, MotorState

\* A command is obeyed, refused with a fault, or ignored as malformed.
ApplyOutcome(m, c, n) ==
    /\ n \in MotorState
    /\ \/ /\ Accepts(m, c)
          /\ c.seq > m.lastSeq \/ ~m.initialized
          /\ n.armed = c.armed /\ n.elapsed = 0 /\ n.timeout = c.timeout
          /\ n.throttle # 0 => n.armed
          /\ n.initialized /\ n.session = c.session /\ n.lastSeq = c.seq
          /\ c.armed => m.initialized /\ c.session = m.session
       \/ /\ ~Accepts(m, c)
          /\ ~n.armed /\ n.throttle = 0 /\ n.faults # {}
          /\ n.initialized = m.initialized /\ n.session = m.session
          /\ n.lastSeq = m.lastSeq
       \/ /\ ~Accepts(m, c) /\ n = m

LEMMA ApplyReturns ==
    ASSUME NEW Indices, NEW m \in MotorState, NEW c \in CommandFor(Indices)
    PROVE  ApplyOutcome(m, c, Apply(m, c))
<1>1. CASE ~Wellformed(c)
  BY <1>1 DEF Apply, Accepts, ApplyOutcome
<1>2. CASE Wellformed(c) /\ OutOfSequence(m, c)
  <2>1. Apply(m, c) = Fail(m, "SEQUENCE")
    BY <1>2 DEF Apply, Accepts
  <2> QED
    BY <1>2, <2>1, FailReturns DEF ApplyOutcome, Accepts, Fault
<1>3. CASE Wellformed(c) /\ ~OutOfSequence(m, c) /\ ForeignArmed(m, c)
  <2>1. Apply(m, c) = Fail(m, "SESSION")
    BY <1>3 DEF Apply, Accepts
  <2> QED
    BY <1>3, <2>1, FailReturns DEF ApplyOutcome, Accepts, Fault
<1>4. CASE Accepts(m, c)
  <2>1. Apply(m, c) = Accepted(m, c)
    BY <1>4 DEF Apply, Accepts
  <2>2. c.seq > m.lastSeq \/ ~m.initialized
    BY <1>4 DEF Accepts, OutOfSequence, CommandFor, MotorState
  <2>3. c.armed => m.initialized /\ c.session = m.session
    BY <1>4 DEF Accepts, ForeignArmed
  <2> QED
    BY <1>4, <2>1, <2>2, <2>3, AcceptedReturns DEF ApplyOutcome, Accepts
<1> QED
  BY <1>1, <1>2, <1>3, <1>4 DEF Accepts

\* d milliseconds pass for a motor: it stands, it runs on within its lease,
\* or it stops with a fault.
StepOutcome(m, d, n) ==
    /\ n \in MotorState
    /\ n.initialized = m.initialized /\ n.session = m.session
    /\ n.lastSeq = m.lastSeq
    /\ \/ (~m.initialized \/ ~m.armed) /\ n = m
       \/ /\ m.initialized /\ m.armed /\ m.elapsed + d > m.timeout
          /\ ~n.armed /\ n.throttle = 0 /\ n.faults # {}
       \/ /\ m.initialized /\ m.armed /\ m.elapsed + d <= m.timeout
          /\ n.armed /\ n.elapsed = m.elapsed + d /\ n.timeout = m.timeout

LEMMA StepReturns ==
    ASSUME NEW m \in MotorState, NEW d \in Nat
    PROVE  StepOutcome(m, d, StepMotor(m, d))
<1> DEFINE sum == SaturatingSum(m.elapsed, d)
<1>0. m.elapsed \in 0..MaxElapsed /\ m.timeout \in 0..MaxTimeout
  BY DEF MotorState
<1>1. CASE ~m.initialized \/ ~m.armed
  BY <1>1 DEF StepMotor, StepOutcome
<1>2. \/ sum > m.timeout /\ m.elapsed + d > m.timeout
      \/ ~(sum > m.timeout) /\ m.elapsed + d <= m.timeout /\ sum = m.elapsed + d
  BY <1>0, SaturatingSumExact
<1> HIDE DEF sum
<1>3. CASE m.initialized /\ m.armed /\ sum > m.timeout
  <2>1. StepMotor(m, d) = Fail(Waited(m, d), "COMMAND_TIMEOUT")
    BY <1>3 DEF StepMotor, sum
  <2>2. Waited(m, d) \in MotorState
        /\ Waited(m, d).initialized = m.initialized /\ Waited(m, d).session = m.session
        /\ Waited(m, d).lastSeq = m.lastSeq
    BY WaitedReturns
  <2>3. m.elapsed + d > m.timeout
    BY <1>2, <1>3
  <2> QED
    BY <1>3, <2>1, <2>2, <2>3, FailReturns DEF StepOutcome, Fault
<1>4. CASE m.initialized /\ m.armed /\ ~(sum > m.timeout)
  <2>1. StepMotor(m, d) = Waited(m, d)
    BY <1>4 DEF StepMotor, sum
  <2>2. m.elapsed + d <= m.timeout /\ sum = m.elapsed + d
    BY <1>2, <1>4
  <2>3. /\ Waited(m, d) \in MotorState /\ Waited(m, d).elapsed = sum
        /\ Waited(m, d).armed = m.armed /\ Waited(m, d).timeout = m.timeout
        /\ Waited(m, d).initialized = m.initialized
        /\ Waited(m, d).session = m.session /\ Waited(m, d).lastSeq = m.lastSeq
    BY WaitedReturns DEF sum
  <2> QED
    BY <1>4, <2>1, <2>2, <2>3 DEF StepOutcome
<1> QED
  BY <1>1, <1>3, <1>4

-----------------------------------------------------------------------------
(* The invariant.  LeaseHolds is almost inductive; SessionOpenedDisarmed    *)
(* needs that an initialized motor is in the session a disarmed command     *)
(* opened, and that only an initialized motor is armed; RefusedUntilPassed   *)
(* that the bank remembers the highest number obeyed.                       *)

MotorSound(m) ==
    /\ bank[m].throttle # 0 => bank[m].armed
    /\ bank[m].armed => age[m] = bank[m].elapsed /\ age[m] <= bank[m].timeout
    /\ bank[m].armed => bank[m].initialized
    /\ bank[m].initialized => opened[m] = bank[m].session
    /\ bank[m].initialized =>
          \E k \in obeyed : k.motor = m /\ k.seq = bank[m].lastSeq
    /\ \A k \in obeyed :
          k.motor = m => bank[m].initialized /\ k.seq <= bank[m].lastSeq

IInv == TypeOK /\ \A m \in Motor : MotorSound(m)

LEMMA InitEstablishes == Init => IInv
<1>1. IdleMotor \in MotorState
  BY DEF IdleMotor, MotorState
<1>2. /\ ~IdleMotor.armed /\ IdleMotor.throttle = 0 /\ ~IdleMotor.initialized
  BY DEF IdleMotor
<1> SUFFICES ASSUME Init PROVE IInv
  OBVIOUS
<1>3. TypeOK
  BY <1>1 DEF Init, TypeOK
<1>4. ASSUME NEW m \in Motor PROVE MotorSound(m)
  <2>1. bank[m] = IdleMotor /\ obeyed = {}
    BY DEF Init
  <2> QED
    BY <1>2, <2>1 DEF MotorSound
<1> QED
  BY <1>3, <1>4 DEF IInv

\* A command that arrives and the motors it leaves alone.
LEMMA DeliverPreserves == IInv /\ Deliver => IInv'
<1> SUFFICES ASSUME IInv, Deliver PROVE IInv'
  OBVIOUS
<1>1. PICK c \in issued :
        /\ bank' = [bank EXCEPT ![c.motor] = Apply(bank[c.motor], c)]
        /\ age' = IF Accepts(bank[c.motor], c) THEN [age EXCEPT ![c.motor] = 0] ELSE age
        /\ opened' = IF Accepts(bank[c.motor], c) /\ ~c.armed
                     THEN [opened EXCEPT ![c.motor] = c.session] ELSE opened
        /\ obeyed' = IF Accepts(bank[c.motor], c) THEN obeyed \cup {c} ELSE obeyed
        /\ UNCHANGED controllerVars
  BY DEF Deliver
<1> DEFINE m == c.motor  n == Apply(bank[m], c)
<1>2. c \in CommandFor(Motor)
  BY DEF IInv, TypeOK
<1>3. m \in Motor /\ c.session \in Nat /\ c.armed \in BOOLEAN /\ c.timeout \in 0..MaxTimeout
  BY <1>2 DEF CommandFor
<1>4. bank[m] \in MotorState
  BY <1>3 DEF IInv, TypeOK
<1>5. ApplyOutcome(bank[m], c, n)
  BY <1>2, <1>4, ApplyReturns
<1>6. bank'[m] = n
  BY <1>1, <1>3 DEF IInv, TypeOK
<1> HIDE DEF n
<1>7. TypeOK'
  <2>1. bank' \in [Motor -> MotorState]
    BY <1>1, <1>5 DEF IInv, TypeOK, ApplyOutcome, n
  <2>2. /\ age' \in [Motor -> Nat] /\ opened' \in [Motor -> Nat]
        /\ obeyed' \subseteq issued
    BY <1>1, <1>3 DEF IInv, TypeOK
  <2> QED
    BY <1>1, <2>1, <2>2 DEF IInv, TypeOK, controllerVars
<1>8. ASSUME NEW k \in Motor, k # m PROVE MotorSound(k)'
  <2>1. bank'[k] = bank[k] /\ age'[k] = age[k] /\ opened'[k] = opened[k]
    BY <1>1, <1>8 DEF IInv, TypeOK
  <2>2. \A o : o.motor = k => (o \in obeyed' <=> o \in obeyed)
    BY <1>1, <1>8
  <2> QED
    BY <2>1, <2>2 DEF IInv, MotorSound
<1>9. MotorSound(m)'
  <2>1. MotorSound(m)
    BY <1>3 DEF IInv
  <2>2. CASE Accepts(bank[m], c)
    <3>1. /\ n.armed = c.armed /\ n.elapsed = 0 /\ n.timeout = c.timeout
          /\ n.throttle # 0 => n.armed
          /\ n.initialized /\ n.session = c.session
          /\ c.armed => bank[m].initialized /\ c.session = bank[m].session
      BY <1>5, <2>2 DEF ApplyOutcome
    <3>2. age'[m] = 0
      BY <1>1, <1>3, <2>2 DEF IInv, TypeOK
    <3>3. opened'[m] = IF c.armed THEN opened[m] ELSE c.session
      BY <1>1, <1>3, <2>2 DEF IInv, TypeOK
    <3>4. opened'[m] = n.session
      BY <2>1, <3>1, <3>3 DEF MotorSound
    <3>5. c \in obeyed' /\ c.motor = m /\ c.seq = n.lastSeq
      BY <1>1, <1>5, <2>2 DEF ApplyOutcome
    <3>6. ASSUME NEW k \in obeyed', k.motor = m PROVE k.seq <= n.lastSeq
      <4>1. CASE k = c
        BY <1>5, <2>2, <4>1 DEF ApplyOutcome, MotorState
      <4>2. CASE k # c
        <5>1. k \in obeyed /\ k \in CommandFor(Motor)
          BY <1>1, <2>2, <4>2 DEF IInv, TypeOK
        <5>2. bank[m].initialized /\ k.seq <= bank[m].lastSeq
          BY <2>1, <3>6, <5>1 DEF MotorSound
        <5>3. c.seq > bank[m].lastSeq /\ n.lastSeq = c.seq
          BY <1>5, <2>2, <5>2 DEF ApplyOutcome
        <5>4. k.seq \in Nat /\ c.seq \in Nat /\ bank[m].lastSeq \in Nat
          BY <1>2, <1>4, <5>1 DEF CommandFor, MotorState
        <5> QED
          BY <5>2, <5>3, <5>4
      <4> QED
        BY <4>1, <4>2
    <3> QED
      BY <1>3, <1>6, <3>1, <3>2, <3>4, <3>5, <3>6 DEF MotorSound
  <2>3. CASE ~Accepts(bank[m], c)
    <3>1. age' = age /\ opened' = opened /\ obeyed' = obeyed
      BY <1>1, <2>3
    <3>2. \/ /\ ~n.armed /\ n.throttle = 0 /\ n.lastSeq = bank[m].lastSeq
             /\ n.initialized = bank[m].initialized /\ n.session = bank[m].session
          \/ n = bank[m]
      BY <1>5, <2>3 DEF ApplyOutcome
    <3> QED
      BY <1>6, <2>1, <3>1, <3>2 DEF MotorSound
  <2> QED
    BY <2>2, <2>3
<1> QED
  BY <1>7, <1>8, <1>9 DEF IInv

LEMMA StepPreserves == ASSUME NEW d \in 0..MaxStep, IInv, StepBank(d) PROVE IInv'
<1>1. ASSUME NEW m \in Motor
      PROVE  bank'[m] \in MotorState /\ age'[m] \in Nat /\ MotorSound(m)'
  <2> DEFINE n == StepMotor(bank[m], d)
  <2>1. bank[m] \in MotorState /\ age[m] \in Nat /\ MotorSound(m)
    BY DEF IInv, TypeOK
  <2>2. StepOutcome(bank[m], d, n)
    BY <2>1, StepReturns
  <2>3. /\ bank'[m] = n
        /\ age'[m] = IF bank[m].armed THEN age[m] + d ELSE age[m]
        /\ opened'[m] = opened[m] /\ obeyed' = obeyed
    BY DEF StepBank
  <2> HIDE DEF n
  <2>4. age'[m] \in Nat
    BY <2>1, <2>3
  <2> QED
    BY <2>1, <2>2, <2>3, <2>4 DEF StepOutcome, MotorSound
<1>2. /\ bank' = [m \in Motor |-> bank'[m]] /\ age' = [m \in Motor |-> age'[m]]
      /\ UNCHANGED <<controllerVars, opened, obeyed>>
  BY DEF StepBank
<1> QED
  BY <1>1, <1>2 DEF IInv, TypeOK, controllerVars

LEMMA NextPreserves == IInv /\ [Next]_vars => IInv'
<1> SUFFICES ASSUME IInv, [Next]_vars PROVE IInv'
  OBVIOUS
<1>1. CASE Issue
  <2>1. PICK m \in Motor, armed \in BOOLEAN, timeout \in Timeouts :
          issued' = issued \cup
            {[motor |-> m, seq |-> next, session |-> session, armed |-> armed,
              throttle |-> MaxThrottle, timeout |-> timeout]}
    BY <1>1 DEF Issue
  <2>2. issued' \subseteq CommandFor(Motor)
    BY <2>1 DEF CommandFor, IInv, TypeOK
  <2> QED
    BY <1>1, <2>2 DEF Issue, IInv, TypeOK, MotorSound
<1>2. CASE OpenSession
  BY <1>2 DEF OpenSession, IInv, TypeOK, MotorSound
<1>3. CASE Stop
  BY <1>3 DEF Stop, IInv, TypeOK, MotorSound
<1>4. CASE Deliver
  BY <1>4, DeliverPreserves
<1>5. ASSUME NEW d \in 0..MaxStep, StepBank(d) PROVE IInv'
  BY <1>5, StepPreserves
<1>6. CASE UNCHANGED vars
  BY <1>6 DEF vars, IInv, TypeOK, MotorSound
<1> QED
  BY <1>1, <1>2, <1>3, <1>4, <1>5, <1>6 DEF Next

LEMMA Invariance == Spec => []IInv
BY InitEstablishes, NextPreserves, PTL DEF Spec

-----------------------------------------------------------------------------
(* Theorems *)

\* Every motor state the bank reaches is one its C types can hold.
THEOREM TypeCorrect == Spec => []TypeOK
<1>1. IInv => TypeOK
  BY DEF IInv
<1> QED
  BY Invariance, <1>1, PTL

\* No motor runs past the timeout of the command it runs on.
THEOREM LeaseAlwaysHolds == Spec => []LeaseHolds
<1>1. IInv => LeaseHolds
  BY DEF IInv, MotorSound, LeaseHolds
<1> QED
  BY Invariance, <1>1, PTL

\* A motor runs only in a session that a disarmed command opened.
THEOREM SessionsOpenDisarmed == Spec => []SessionOpenedDisarmed
<1>1. IInv => SessionOpenedDisarmed
  BY DEF IInv, MotorSound, SessionOpenedDisarmed
<1> QED
  BY Invariance, <1>1, PTL

\* A motor refuses numbers up to the highest it has obeyed and no others,
\* whatever sessions, restarts, delays and repetitions lie between.
THEOREM AlwaysRefusedUntilPassed == Spec => []RefusedUntilPassed
<1>1. IInv => RefusedUntilPassed
  <2> SUFFICES ASSUME IInv, NEW c \in issued
               PROVE  OutOfSequence(bank[c.motor], c)
                        <=> \E k \in obeyed : k.motor = c.motor /\ k.seq >= c.seq
    BY DEF RefusedUntilPassed
  <2> DEFINE m == c.motor
  <2>1. m \in Motor /\ c.seq \in Nat /\ bank[m] \in MotorState
    BY DEF IInv, TypeOK, CommandFor
  <2>2. bank[m].lastSeq \in Nat /\ MotorSound(m)
    BY <2>1 DEF IInv, MotorState
  <2>3. ASSUME OutOfSequence(bank[m], c)
        PROVE  \E k \in obeyed : k.motor = m /\ k.seq >= c.seq
    BY <2>1, <2>2, <2>3 DEF OutOfSequence, MotorSound
  <2>4. ASSUME NEW k \in obeyed, k.motor = m, k.seq >= c.seq
        PROVE  OutOfSequence(bank[m], c)
    <3>1. k.seq \in Nat
      BY DEF IInv, TypeOK, CommandFor
    <3>2. bank[m].initialized /\ k.seq <= bank[m].lastSeq
      BY <2>2, <2>4 DEF MotorSound
    <3> QED
      BY <2>1, <2>2, <2>4, <3>1, <3>2 DEF OutOfSequence
  <2> QED
    BY <2>3, <2>4
<1> QED
  BY Invariance, <1>1, PTL

\* A motor that stops without having been told so records a fault: it is
\* never the elapsed time, an old command or a foreign one that stops it in
\* silence.
THEOREM StopsAlwaysExplained == Spec => StopsAreExplained
<1> DEFINE Explained ==
      \A m \in Motor :
        bank[m].armed /\ ~bank'[m].armed =>
            \/ bank'[m].faults # {}
            \/ \E c \in issued : /\ c.motor = m /\ ~c.armed
                                 /\ c.seq = bank'[m].lastSeq
                                 /\ c.seq > bank[m].lastSeq
<1>1. ASSUME IInv, [Next]_vars PROVE [Explained]_vars
  <2> SUFFICES ASSUME NEW m \in Motor, bank[m].armed, ~bank'[m].armed
               PROVE  \/ bank'[m].faults # {}
                      \/ \E c \in issued : /\ c.motor = m /\ ~c.armed
                                           /\ c.seq = bank'[m].lastSeq
                                           /\ c.seq > bank[m].lastSeq
    OBVIOUS
  <2>1. bank[m] \in MotorState /\ bank[m].initialized
    BY <1>1 DEF IInv, TypeOK, MotorSound
  <2>2. CASE Deliver
    <3>1. PICK c \in issued : bank' = [bank EXCEPT ![c.motor] = Apply(bank[c.motor], c)]
      BY <2>2 DEF Deliver
    <3>2. c.motor = m
      BY <3>1, <1>1 DEF IInv, TypeOK
    <3>3. bank'[m] = Apply(bank[m], c)
      BY <3>1, <3>2, <1>1 DEF IInv, TypeOK
    <3>4. ApplyOutcome(bank[m], c, bank'[m])
      BY <1>1, <2>1, <3>3, ApplyReturns DEF IInv, TypeOK
    <3> QED
      BY <2>1, <3>2, <3>4 DEF ApplyOutcome
  <2>3. ASSUME NEW d \in 0..MaxStep, StepBank(d) PROVE bank'[m].faults # {}
    <3>1. bank'[m] = StepMotor(bank[m], d)
      BY <2>3 DEF StepBank
    <3>2. StepOutcome(bank[m], d, bank'[m])
      BY <2>1, <3>1, StepReturns
    <3> QED
      BY <3>2 DEF StepOutcome
  <2>4. CASE Issue \/ OpenSession \/ Stop \/ UNCHANGED vars
    BY <2>4 DEF Issue, OpenSession, Stop, vars
  <2> QED
    BY <1>1, <2>2, <2>3, <2>4 DEF Next
<1>2. Spec => [][Explained]_vars
  BY <1>1, Invariance, PTL DEF Spec
<1> QED
  BY <1>2 DEF StopsAreExplained

-----------------------------------------------------------------------------
(* Refinement *)

Running == {m \in Motor : bank[m].armed}
Left == [m \in Motor |-> IF bank[m].armed THEN bank[m].timeout - bank[m].elapsed ELSE 0]

\* A command that is obeyed grants a lease, any other stop revokes it.
LEMMA DeliverGrantsOrRevokes ==
    ASSUME IInv, Deliver
    PROVE  Lease!Next \/ UNCHANGED <<Running, Left>>
<1>1. PICK c \in issued : bank' = [bank EXCEPT ![c.motor] = Apply(bank[c.motor], c)]
  BY DEF Deliver
<1> DEFINE m == c.motor  n == Apply(bank[m], c)
<1>2. c \in CommandFor(Motor) /\ m \in Motor
  BY DEF IInv, TypeOK, CommandFor
<1>3. bank[m] \in MotorState /\ ApplyOutcome(bank[m], c, n)
  BY <1>2, ApplyReturns DEF IInv, TypeOK
<1>4. bank'[m] = n
  BY <1>1, <1>2 DEF IInv, TypeOK
<1> HIDE DEF n
<1>5. \A k \in Motor : k # m => bank'[k] = bank[k]
  BY <1>1 DEF IInv, TypeOK
<1>6. CASE Accepts(bank[m], c) /\ c.armed
  <2>0. n \in MotorState /\ n.armed = c.armed /\ n.elapsed = 0
    BY <1>3, <1>6 DEF ApplyOutcome
  <2>1. n.armed /\ n.elapsed = 0 /\ n.timeout \in Nat
    BY <1>6, <2>0 DEF MotorState
  <2>2. Running' = Running \cup {m}
    BY <1>2, <1>4, <1>5, <2>1 DEF Running
  <2>3. Left'[m] \in Nat
    BY <1>2, <1>4, <2>1 DEF Left
  <2>4. Left' = [Left EXCEPT ![m] = Left'[m]]
    BY <1>2, <1>5 DEF Left
  <2> QED
    BY <1>2, <2>2, <2>3, <2>4 DEF Lease!Next, Lease!Grant, Running, Left
<1>7. CASE ~n.armed
  <2>1. Running' = Running \ {m}
    BY <1>2, <1>4, <1>5, <1>7 DEF Running
  <2>2. Left' = [Left EXCEPT ![m] = 0]
    BY <1>2, <1>4, <1>5, <1>7 DEF Left
  <2> QED
    BY <1>2, <2>1, <2>2 DEF Lease!Next, Lease!Revoke, Running, Left
<1>8. CASE n = bank[m]
  BY <1>4, <1>5, <1>8 DEF Running, Left
<1> QED
  BY <1>3, <1>6, <1>7, <1>8 DEF ApplyOutcome

\* Time wears every lease down alike.
LEMMA StepPasses ==
    ASSUME NEW d \in 0..MaxStep, IInv, StepBank(d)
    PROVE  Lease!Next
<1>1. ASSUME NEW m \in Motor
      PROVE  /\ m \in Running' <=> m \in Running /\ d <= Left[m]
             /\ Left'[m] = IF m \in Running' THEN Left[m] - d ELSE 0
  <2> DEFINE n == StepMotor(bank[m], d)
  <2>1. /\ bank[m] \in MotorState
        /\ bank[m].armed => bank[m].initialized
    BY DEF IInv, TypeOK, MotorSound
  <2>2. StepOutcome(bank[m], d, n)
    BY <2>1, StepReturns
  <2>3. bank'[m] = n
    BY DEF StepBank
  <2> HIDE DEF n
  <2>4. bank[m].elapsed \in Nat /\ bank[m].timeout \in Nat /\ d \in Nat
    BY <2>1 DEF MotorState
  <2>5. CASE ~bank[m].armed
    BY <2>2, <2>3, <2>5 DEF StepOutcome, Running, Left
  <2>6. CASE bank[m].armed
    <3>1. Left[m] = bank[m].timeout - bank[m].elapsed
      BY <2>6 DEF Left
    <3>2. CASE bank[m].elapsed + d > bank[m].timeout
      <4>1. ~(bank[m].elapsed + d <= bank[m].timeout) /\ ~(d <= Left[m])
        BY <2>4, <3>1, <3>2
      <4>2. ~n.armed
        BY <2>1, <2>2, <2>6, <4>1 DEF StepOutcome
      <4> QED
        BY <2>3, <4>1, <4>2 DEF Running, Left
    <3>3. CASE bank[m].elapsed + d <= bank[m].timeout
      <4>1. /\ n.armed /\ d <= Left[m]
            /\ n.timeout - n.elapsed = Left[m] - d
        BY <2>1, <2>2, <2>4, <2>6, <3>1, <3>3 DEF StepOutcome
      <4> QED
        BY <2>3, <2>6, <4>1 DEF Running, Left
    <3> QED
      BY <2>4, <3>2, <3>3
  <2> QED
    BY <2>5, <2>6
<1>2. Running' = {m \in Running : d <= Left[m]}
  BY <1>1 DEF Running
<1>3. Left' = [m \in Motor |-> IF m \in Running' THEN Left[m] - d ELSE 0]
  BY <1>1 DEF Left
<1> QED
  BY <1>2, <1>3 DEF Lease!Next, Lease!Pass, Running, Left

\* The motor bank implements the lease: a delayed, repeated or reordered
\* command never stretches one, and time ends every one that is not renewed.
THEOREM ImplementsLease == Spec => KeepsLease
<1>1. Init => Lease!Init
  <2> SUFFICES ASSUME Init PROVE Lease!Init
    OBVIOUS
  <2>1. \A m \in Motor : ~bank[m].armed
    BY DEF Init, IdleMotor
  <2> QED
    BY <2>1 DEF Lease!Init
<1>2. ASSUME IInv, [Next]_vars PROVE [Lease!Next]_<<Running, Left>>
  <2>1. CASE Issue \/ OpenSession \/ Stop \/ UNCHANGED vars
    BY <2>1 DEF Issue, OpenSession, Stop, vars, Running, Left
  <2>2. CASE Deliver
    BY <1>2, <2>2, DeliverGrantsOrRevokes
  <2>3. ASSUME NEW d \in 0..MaxStep, StepBank(d) PROVE Lease!Next
    BY <1>2, <2>3, StepPasses
  <2> QED
    BY <1>2, <2>1, <2>2, <2>3 DEF Next
<1>3. IInv /\ [Next]_vars => [Lease!Next]_<<{m \in Motor : bank[m].armed},
        [m \in Motor |->
           IF bank[m].armed THEN bank[m].timeout - bank[m].elapsed ELSE 0]>>
  BY <1>2 DEF Running, Left
<1> QED
  BY <1>1, <1>3, Invariance, PTL DEF Spec, KeepsLease, Lease!Spec

=============================================================================
