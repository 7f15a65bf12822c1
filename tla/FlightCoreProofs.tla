--------------------------- MODULE FlightCoreProofs ---------------------------
(***************************************************************************)
(* Lemmas about the flight core's functions: what each way out of a step   *)
(* returns.  The proofs about every program that calls the core rest on    *)
(* them.                                                                   *)
(***************************************************************************)
EXTENDS FlightCore, TLAPS

USE ConfigAssumption

\* The controller's memory is a time.
LEMMA IntegratedTyped ==
    ASSUME NEW c \in Core, NEW dt \in Nat
    PROVE  Integrated(c, dt) \in Nat
BY DEF Integrated, Core

\* Every demand that is not a fault has a request.
LEMMA MotorQ15Typed ==
    ASSUME NEW answer \in Demand \ {"NonFinite"}
    PROVE  MotorQ15(answer) \in Motors
BY DEF MotorQ15, Motors, Demand

\* The output of every early return.
LEMMA SafeOutputTyped ==
    ASSUME NEW state \in FlightState
    PROVE  SafeOutput(state) \in FlightOutput /\ SafeOutput(state).motors = "Zero"
BY DEF SafeOutput, FlightOutput, Motors

\* enter_failsafe silences the output and resets the controller only.
LEMMA EnterFailsafeReturns ==
    ASSUME NEW c \in Core, NEW result
    PROVE  LET r == EnterFailsafe(c, result)
           IN  /\ r.core \in Core /\ r.out \in FlightOutput
               /\ r.core.state = "FAILSAFE" /\ r.core.integrated = 0
               /\ r.core.hasSample = c.hasSample
               /\ r.core.lastSeq = c.lastSeq /\ r.core.lastTs = c.lastTs
               /\ r.out.motors = "Zero"
BY DEF EnterFailsafe, Returned, SafeOutput, Core, FlightState, FlightOutput, Motors

\* enter_disarmed likewise.
LEMMA EnterDisarmedReturns ==
    ASSUME NEW c \in Core
    PROVE  LET r == EnterDisarmed(c)
           IN  /\ r.core \in Core /\ r.out \in FlightOutput
               /\ r.core.state = "DISARMED" /\ r.core.integrated = 0
               /\ r.core.hasSample = c.hasSample
               /\ r.core.lastSeq = c.lastSeq /\ r.core.lastTs = c.lastTs
               /\ r.out.motors = "Zero"
BY DEF EnterDisarmed, Returned, SafeOutput, Core, FlightState, FlightOutput, Motors

\* The only way out with an armed core.
LEMMA DriveReturns ==
    ASSUME NEW c \in Core, NEW dt \in Nat, NEW active \in SUBSET EnabledAiding,
           NEW answer \in Demand \ {"NonFinite"}
    PROVE  LET r == Drive(c, dt, active, answer)
           IN  /\ r.core \in Core /\ r.out \in FlightOutput
               /\ r.core.state = "ARMED" /\ r.core.integrated = Integrated(c, dt)
               /\ r.core.hasSample = c.hasSample
               /\ r.core.lastSeq = c.lastSeq /\ r.core.lastTs = c.lastTs
BY IntegratedTyped, MotorQ15Typed DEF Drive, Returned, Core, FlightState, FlightOutput

\* The arm request held back by the latch.
LEMMA LatchedReturns ==
    ASSUME NEW c \in Core
    PROVE  LET r == Returned(c, SafeOutput("FAILSAFE"), "FAILSAFE_LATCHED")
           IN  r.core = c /\ r.out \in FlightOutput /\ r.out.motors = "Zero"
BY DEF Returned, SafeOutput, FlightState, FlightOutput, Motors

\* Recording a sample changes the history fields and nothing else.
LEMMA RecordReturns ==
    ASSUME NEW c \in Core, NEW s \in Sample
    PROVE  /\ Record(c, s) \in Core
           /\ Record(c, s).hasSample = TRUE
           /\ Record(c, s).lastSeq = s.seq /\ Record(c, s).lastTs = s.ts
           /\ Record(c, s).state = c.state
           /\ Record(c, s).integrated = c.integrated
<1>1. s.seq \in Nat /\ s.ts \in Nat
  BY DEF Sample
<1> QED
  BY <1>1 DEF Record, Core

\* What the admission of a sample means: the interval is in the window and
\* the sample follows the last one.
LEMMA AdmissionMeans ==
    ASSUME NEW c \in Core, NEW s \in Sample, NEW t \in Nat, Admission(c, s, t) = "OK"
    PROVE  /\ Dt(c, s) \in MinDt..MaxDt
           /\ c.hasSample => /\ c.lastSeq < s.seq
                             /\ Dt(c, s) = s.ts - c.lastTs
<1>1. InOrder(c, s) /\ Dt(c, s) \in MinDt..MaxDt
  BY DEF Admission
<1> QED
  BY <1>1 DEF InOrder, Dt, Core, Sample

\* A refused sample leads to FAILSAFE and is not recorded.
LEMMA RefusedReturns ==
    ASSUME NEW c \in Core, NEW s \in Sample, NEW g \in Guidance, NEW active, NEW answer,
           NEW t \in Nat, Admission(c, s, t) # "OK"
    PROVE  LET r == FlightStep(c, s, g, active, answer, t)
           IN  /\ r.core \in Core /\ r.out \in FlightOutput
               /\ r.core.state = "FAILSAFE" /\ r.core.integrated = 0
               /\ r.core.hasSample = c.hasSample
               /\ r.core.lastSeq = c.lastSeq /\ r.core.lastTs = c.lastTs
               /\ r.out.motors = "Zero"
<1>1. FlightStep(c, s, g, active, answer, t) = EnterFailsafe(c, Admission(c, s, t))
  BY DEF FlightStep
<1> QED
  BY <1>1, EnterFailsafeReturns

\* The four states of affairs a recorded sample can lead to; the output is
\* silent in all but the last.
RecordedOutcome(c, s, g, r) ==
    /\ r.core \in Core /\ r.out \in FlightOutput
    /\ r.core.hasSample = TRUE
    /\ r.core.lastSeq = s.seq /\ r.core.lastTs = s.ts
    /\ \/ /\ r.core.state = "DISARMED" /\ ~g.arm
          /\ r.core.integrated = 0 /\ r.out.motors = "Zero"
       \/ /\ r.core.state = "FAILSAFE" /\ c.state = "FAILSAFE"
          /\ r.core.integrated = c.integrated /\ r.out.motors = "Zero"
       \/ /\ r.core.state = "FAILSAFE" /\ c.state # "FAILSAFE"
          /\ r.core.integrated = 0 /\ r.out.motors = "Zero"
       \/ /\ r.core.state = "ARMED" /\ c.state # "FAILSAFE"
          /\ r.core.integrated = Integrated(c, Dt(c, s))

LEMMA RecordedReturns ==
    ASSUME NEW c \in Core, NEW s \in Sample, NEW g \in Guidance,
           NEW active \in SUBSET EnabledAiding,
           NEW answer \in LibraryAnswer(active), NEW t \in Nat,
           Admission(c, s, t) = "OK"
    PROVE  RecordedOutcome(c, s, g, FlightStep(c, s, g, active, answer, t))
<1> USE DEF RecordedOutcome
<1> DEFINE n == Record(c, s)
           dt == Dt(c, s)
<1>1. FlightStep(c, s, g, active, answer, t) = Command(n, dt, g, active, answer)
  BY DEF FlightStep
<1>2. n \in Core /\ n.hasSample = TRUE /\ n.lastSeq = s.seq /\ n.lastTs = s.ts
      /\ n.state = c.state /\ n.integrated = c.integrated
  BY RecordReturns
<1>3. dt \in Nat
  BY AdmissionMeans
<1> HIDE DEF n, dt
<1>4. CASE ~g.arm
  <2>1. Command(n, dt, g, active, answer) = EnterDisarmed(n)
    BY <1>4 DEF Command
  <2> QED
    BY <1>1, <1>2, <1>4, <2>1, EnterDisarmedReturns
<1>5. CASE g.arm /\ n.state = "FAILSAFE"
  <2>1. Command(n, dt, g, active, answer)
          = Returned(n, SafeOutput("FAILSAFE"), "FAILSAFE_LATCHED")
    BY <1>5 DEF Command
  <2> QED
    BY <1>1, <1>2, <1>5, <2>1, LatchedReturns
<1>6. CASE g.arm /\ n.state # "FAILSAFE" /\ Control(g, answer) # "OK"
  <2>1. Command(n, dt, g, active, answer) = EnterFailsafe(n, Control(g, answer))
    BY <1>6 DEF Command
  <2> QED
    BY <1>1, <1>2, <1>6, <2>1, EnterFailsafeReturns
<1>7. CASE g.arm /\ n.state # "FAILSAFE" /\ Control(g, answer) = "OK"
  <2>1. Command(n, dt, g, active, answer) = Drive(n, dt, active, answer)
    BY <1>7 DEF Command
  <2>2. answer \in Demand \ {"NonFinite"}
    BY <1>7 DEF Control, LibraryAnswer, Guidance
  <2>3. Integrated(n, dt) = Integrated(c, dt)
    BY <1>2 DEF Integrated
  <2> QED
    BY <1>1, <1>2, <1>3, <1>7, <2>1, <2>2, <2>3, DriveReturns DEF dt
<1> QED
  BY <1>4, <1>5, <1>6, <1>7 DEF Guidance

=============================================================================
