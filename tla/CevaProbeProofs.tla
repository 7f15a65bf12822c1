--------------------------- MODULE CevaProbeProofs ----------------------------
(***************************************************************************)
(* Theorems about the live probe, for every configuration of the probe and *)
(* every number and mixture of faults: types, the finality of a fault,     *)
(* what the adapter promises to the core, and how samples follow each      *)
(* other.  Lemmas say what the adapter's functions return; EventOutcome is *)
(* what a call of sensor_event leads to, and each action of the hub makes  *)
(* such a call or none.  The last part is about a hub left alone, for      *)
(* every period and every phase between the two kinds of report.           *)
(***************************************************************************)
EXTENDS CevaProbe, FlightCoreProofs

USE ConfigAssumption, AdapterAssumption, ProbeAssumption

-----------------------------------------------------------------------------
(* The adapter *)

LEMMA OppositeTyped == ASSUME NEW q \in Attitude PROVE Opposite(q) \in Attitude
BY DEF Opposite, Attitude

LEMMA ContinuedTyped == ASSUME NEW a \in Adapter PROVE Continued(a) \in Attitude
<1>1. a.rotation.attitude \in Attitude
    BY DEF Adapter, Report
<1> QED
    BY <1>1, OppositeTyped DEF Continued

\* The remainder at most once around the circle.
LEMMA ModCircle ==
    ASSUME NEW x \in Int
    PROVE  /\ x \in 0..(Circle - 1) => x % Circle = x
           /\ x \in Circle..(2 * Circle - 1) => x % Circle = x - Circle
           /\ x \in (0 - Circle)..(0 - 1) => x % Circle = x + Circle
OBVIOUS

\* The sign that is chosen never turns the attitude by more than a quarter of
\* the circle against what was emitted last.
LEMMA NeverObtuse ==
    ASSUME NEW a \in Adapter, a.sequence # 0
    PROVE  ~Obtuse(Continued(a), a.attitude)
<1> DEFINE p == a.rotation.attitude  q == a.attitude  half == Circle \div 2
<1>1. p \in Attitude /\ q \in Attitude
    BY DEF Adapter, Report
<1>2. half \in Nat /\ Circle = 2 * half
    OBVIOUS
<1>3. p \in 0..(Circle - 1) /\ q \in 0..(Circle - 1) /\ Circle \in Nat
    BY <1>1 DEF Attitude
<1>4. CASE ~Obtuse(p, q)
    BY <1>4 DEF Continued
<1>5. CASE Obtuse(p, q)
    <2>1. Continued(a) = (p + half) % Circle
        BY <1>5 DEF Continued, Opposite
    <2> DEFINE o == (p + half) % Circle
               d == (p - q) % Circle
               e == (o - q) % Circle
    <2>2. 4 * d > Circle /\ 4 * d < 3 * Circle
        BY <1>5 DEF Obtuse
    <2>3. /\ p + half \in 0..(Circle - 1) \/ p + half \in Circle..(2 * Circle - 1)
          /\ p + half \in Int
        BY <1>2, <1>3
    <2>4. o \in 0..(Circle - 1) /\ (o = p + half \/ o = p + half - Circle)
        BY <1>2, <1>3, <2>3, ModCircle
    <2>5. d = p - q \/ d = p - q + Circle
        <3>1. p - q \in Int
              /\ (p - q \in 0..(Circle - 1) \/ p - q \in (0 - Circle)..(0 - 1))
            BY <1>3
        <3> QED
            BY <3>1, ModCircle
    <2> HIDE DEF o
    <2>6. (e = o - q \/ e = o - q + Circle) /\ e \in 0..(Circle - 1)
        <3>1. o - q \in Int
              /\ (o - q \in 0..(Circle - 1) \/ o - q \in (0 - Circle)..(0 - 1))
            BY <1>3, <2>4
        <3>2. /\ o - q \in 0..(Circle - 1) => e = o - q
              /\ o - q \in (0 - Circle)..(0 - 1) => e = o - q + Circle
            BY <3>1, ModCircle
        <3> QED
            BY <1>3, <3>1, <3>2
    <2> HIDE DEF d, e, p, q, half
    <2>7. ~(4 * e > Circle /\ 4 * e < 3 * Circle)
        BY <1>2, <1>3, <2>2, <2>4, <2>5, <2>6
    <2> QED
        BY <2>1, <2>7 DEF Obtuse, o, e, q, p, half
<1> QED
    BY <1>4, <1>5

\* An update replaces one report.
LEMMA UpdateReturns ==
    ASSUME NEW a \in Adapter, NEW kind \in Kind, NEW r \in Report
    PROVE  /\ Update(a, kind, r) \in Adapter
           /\ Update(a, kind, r).emitted = a.emitted
           /\ Update(a, kind, r).sequence = a.sequence
           /\ Update(a, kind, r).attitude = a.attitude
           /\ Update(a, kind, r)[kind] = r
           /\ \A k \in Kind \ {kind} : Update(a, kind, r)[k] = a[k]
<1>1. CASE kind = "rotation"
    BY <1>1 DEF Update, Adapter, Kind
<1>2. CASE kind = "gyro"
    BY <1>2 DEF Update, Adapter, Kind
<1> QED
    BY <1>1, <1>2 DEF Kind

\* The reports and times of an adapter.
LEMMA AdapterFields ==
    ASSUME NEW a \in Adapter
    PROVE  /\ a["rotation"] = a.rotation /\ a["gyro"] = a.gyro
           /\ \A k \in Kind : /\ a[k] \in Report /\ a[k].ts \in Nat /\ a[k].recv \in Nat
                              /\ a.emitted[k] \in Nat
<1>1. a["rotation"] = a.rotation /\ a["gyro"] = a.gyro
    BY DEF Adapter
<1>2. \A k \in Kind : a[k] \in Report
    BY <1>1 DEF Kind, Adapter
<1>3. \A k \in Kind : a[k].ts \in Nat /\ a[k].recv \in Nat
    BY <1>2 DEF Report
<1>4. \A k \in Kind : a.emitted[k] \in Nat
    BY DEF Adapter
<1> QED
    BY <1>1, <1>2, <1>3, <1>4

\* The time stamps of the two reports, as a function of their kind.
LEMMA StampsTyped ==
    ASSUME NEW a \in Adapter
    PROVE  /\ [k \in Kind |-> a[k].ts] \in [Kind -> Nat]
           /\ [k \in Kind |-> a[k].ts]["rotation"] = a.rotation.ts
           /\ [k \in Kind |-> a[k].ts]["gyro"] = a.gyro.ts
BY AdapterFields DEF Kind

\* Emitting marks both reports as used.
LEMMA EmitReturns ==
    ASSUME NEW a \in Adapter
    PROVE  /\ Emit(a) \in Adapter
           /\ Emit(a).emitted["rotation"] = a.rotation.ts
           /\ Emit(a).emitted["gyro"] = a.gyro.ts
           /\ Emit(a).emitted = [k \in Kind |-> a[k].ts]
           /\ Emit(a).attitude = Continued(a)
           /\ Emit(a).sequence = a.sequence + 1
           /\ Emit(a).rotation = a.rotation /\ Emit(a).gyro = a.gyro
<1> DEFINE stamps == [k \in Kind |-> a[k].ts]
<1>1. stamps \in [Kind -> Nat] /\ stamps["rotation"] = a.rotation.ts
      /\ stamps["gyro"] = a.gyro.ts
    BY StampsTyped
<1>2. Emit(a) = [a EXCEPT !.emitted = stamps, !.attitude = Continued(a), !.sequence = @ + 1]
    BY DEF Emit
<1> HIDE DEF stamps
<1>3. Emit(a) = [rotation |-> a.rotation, gyro |-> a.gyro, emitted |-> stamps,
                 attitude |-> Continued(a), sequence |-> a.sequence + 1]
    BY <1>2 DEF Adapter
<1>4. Emit(a) \in Adapter
    BY <1>1, <1>3, ContinuedTyped DEF Adapter
<1> QED
    BY <1>1, <1>3, <1>4 DEF stamps

\* The sample that an adapter yields.
LEMMA TakenTyped ==
    ASSUME NEW a \in Adapter
    PROVE  /\ TakenSample(a) \in Taken /\ SampleFor(TakenSample(a)) \in Sample
           /\ TakenSample(a).seq = a.sequence + 1
           /\ TakenSample(a).ts = Later(a.rotation.ts, a.gyro.ts)
           /\ TakenSample(a).recv = Later(a.rotation.recv, a.gyro.recv)
           /\ TakenSample(a).reliable = a.rotation.reliable
           /\ TakenSample(a).attitude = Continued(a)
<1>1. a.rotation \in Report /\ a.gyro \in Report /\ a.sequence \in Nat
    BY DEF Adapter
<1>2. Later(a.rotation.ts, a.gyro.ts) \in Nat /\ Later(a.rotation.recv, a.gyro.recv) \in Nat
      /\ a.rotation.reliable \in BOOLEAN
    BY <1>1 DEF Later, Report
<1>3. TakenSample(a) \in Taken
    BY <1>1, <1>2, ContinuedTyped DEF TakenSample, Taken
<1> QED
    BY <1>2, <1>3 DEF TakenSample, Taken, SampleFor, Sample

\* What a complete pair of reports says of the sample built from it.
LEMMA VerdictMeans ==
    ASSUME NEW a \in Adapter, NEW now \in Nat, Verdict(a, now) = "OK"
    PROVE  /\ a.rotation.ts > a.emitted["rotation"] /\ a.gyro.ts > a.emitted["gyro"]
           /\ Later(a.rotation.recv, a.gyro.recv) <= now
           /\ now - Later(a.rotation.recv, a.gyro.recv) <= MaxAge
<1>1. BothNew(a) /\ InAge(a, now)
    BY DEF Verdict
<1>2. a["rotation"] = a.rotation /\ a["gyro"] = a.gyro
    BY DEF Adapter
<1>3. a.rotation.recv \in Nat /\ a.gyro.recv \in Nat
    BY DEF Adapter, Report
<1> QED
    BY <1>1, <1>2, <1>3 DEF BothNew, InAge, Later, Kind

-----------------------------------------------------------------------------
(* The flight core *)

\* The probe's request never reaches the branch that disarms.
LEMMA CoreReturns ==
    ASSUME NEW c \in Core, NEW t \in Taken, NEW answer \in LibraryAnswer({}), NEW now \in Nat
    PROVE  LET n == FlightStep(c, SampleFor(t), ProbeGuidance, {}, answer, now).core
           IN  /\ n \in Core
               /\ c.state = "FAILSAFE" => n.state = "FAILSAFE"
               /\ \/ n.lastSeq = c.lastSeq /\ n.lastTs = c.lastTs
                  \/ n.lastSeq = t.seq /\ n.lastTs = t.ts
<1>1. SampleFor(t) \in Sample /\ SampleFor(t).seq = t.seq /\ SampleFor(t).ts = t.ts
    BY DEF SampleFor, Sample, Taken
<1>2. ProbeGuidance \in Guidance /\ ProbeGuidance.arm = TRUE
    BY DEF ProbeGuidance, Guidance
<1>3. {} \in SUBSET EnabledAiding
    OBVIOUS
<1>4. CASE Admission(c, SampleFor(t), now) # "OK"
    BY <1>1, <1>2, <1>4, RefusedReturns
<1>5. CASE Admission(c, SampleFor(t), now) = "OK"
    <2>1. RecordedOutcome(c, SampleFor(t), ProbeGuidance,
              FlightStep(c, SampleFor(t), ProbeGuidance, {}, answer, now))
        BY <1>1, <1>2, <1>3, <1>5, RecordedReturns
    <2> QED
        BY <1>1, <1>2, <2>1 DEF RecordedOutcome
<1> QED
    BY <1>4, <1>5

\* The core n flies and has recorded the sample t.
FliesOn(n, t) == n.state # "FAILSAFE" /\ n.hasSample = TRUE /\ n.lastTs = t.ts

\* A sample that is admitted keeps a core flying that flies, when the
\* libraries do not fail.
LEMMA CoreFlies ==
    ASSUME NEW c \in Core, NEW t \in Taken, NEW answer \in Works, NEW now \in Nat,
           Admission(c, SampleFor(t), now) = "OK", c.state # "FAILSAFE"
    PROVE  FliesOn(FlightStep(c, SampleFor(t), ProbeGuidance, {}, answer, now).core, t)
<1> DEFINE s == SampleFor(t)
           n == Record(c, s)
           r == FlightStep(c, s, ProbeGuidance, {}, answer, now)
<1>1. s \in Sample /\ s.ts = t.ts
    BY DEF SampleFor, Sample, Taken
<1>2. Dt(c, s) \in Nat
    BY <1>1, AdmissionMeans
<1>3. n \in Core /\ n.state = c.state /\ n.hasSample = TRUE /\ n.lastTs = t.ts
    BY <1>1, RecordReturns
<1>4. r = Command(n, Dt(c, s), ProbeGuidance, {}, answer)
    BY DEF FlightStep
<1>5. answer \in Demand \ {"NonFinite"} /\ answer \notin {"ControllerFails", "AidingFails"}
    BY DEF Works, Demand
<1>6. ProbeGuidance.arm = TRUE /\ ProbeGuidance.valid = TRUE
    BY DEF ProbeGuidance
<1> HIDE DEF n, s
<1>7. Control(ProbeGuidance, answer) = "OK"
    BY <1>5, <1>6 DEF Control, Works
<1>8. r = Drive(n, Dt(c, s), {}, answer)
    BY <1>3, <1>4, <1>6, <1>7 DEF Command
<1>9. r.core.state # "FAILSAFE" /\ r.core.hasSample = TRUE /\ r.core.lastTs = t.ts
    BY <1>2, <1>3, <1>5, <1>8, DriveReturns
<1> QED
    BY <1>9 DEF FliesOn, s

-----------------------------------------------------------------------------
(* The inductive invariant *)

\* The core has recorded no sample beyond those that the adapter has emitted.
CoreBehindAdapter ==
    /\ core.lastSeq <= adapter.sequence
    /\ core.lastTs <= Later(adapter.emitted["rotation"], adapter.emitted["gyro"])

\* The history records what the adapter remembers of the last sample.
HistoryInAdapter ==
    /\ parts = adapter.emitted
    /\ sample.seq = adapter.sequence
    /\ sample.seq # 0 => sample.attitude = adapter.attitude

IInv == TypeOK /\ CoreBehindAdapter /\ HistoryInAdapter

\* What becomes of the probe when sensor_event has run.
EventOutcome ==
    /\ adapter' \in Adapter /\ core' \in Core /\ guided' \in BOOLEAN /\ rejected' \in Nat
    /\ clock' \in Nat /\ sample' \in Taken /\ parts' \in [Kind -> Nat]
    /\ CoreBehindAdapter' /\ HistoryInAdapter'
    /\ core.state = "FAILSAFE" => core'.state = "FAILSAFE"
    /\ sample' # sample =>
         Admission(core, SampleFor(sample'), clock') \in
            IF sample'.reliable THEN {"OK", "TIMING_INVALID"} ELSE {"SENSOR_INVALID"}
    /\ sample' # sample =>
         /\ \A k \in Kind : parts'[k] > parts[k]
         /\ sample.seq # 0 => ~Obtuse(sample'.attitude, sample.attitude)

\* The core refuses what a complete pair yields for its accuracy or a gap.
LEMMA AdmissionOfPair ==
    ASSUME NEW c \in Core, NEW a \in Adapter, NEW now \in Nat, Verdict(a, now) = "OK",
           c.lastSeq <= a.sequence,
           c.lastTs <= Later(a.emitted["rotation"], a.emitted["gyro"]),
           Later(a.rotation.recv, a.gyro.recv) # 0
    PROVE  Admission(c, SampleFor(TakenSample(a)), now) \in
              IF TakenSample(a).reliable THEN {"OK", "TIMING_INVALID"} ELSE {"SENSOR_INVALID"}
<1> DEFINE s == SampleFor(TakenSample(a))
<1>1. s.usable = TakenSample(a).reliable /\ s.seq = a.sequence + 1
      /\ s.ts = Later(a.rotation.ts, a.gyro.ts)
      /\ s.recv = Later(a.rotation.recv, a.gyro.recv)
    BY TakenTyped DEF SampleFor
<1>2. s.recv \in Nat /\ s.ts \in Nat /\ s.seq \in Nat
    BY TakenTyped DEF Sample
<1>3. a.rotation.ts \in Nat /\ a.gyro.ts \in Nat /\ a.sequence \in Nat
      /\ a.emitted["rotation"] \in Nat /\ a.emitted["gyro"] \in Nat
    BY DEF Adapter, Report, Kind
<1>4. c.lastSeq \in Nat /\ c.lastTs \in Nat
    BY DEF Core
<1>5. Fresh(s, now)
    BY <1>1, <1>2, VerdictMeans DEF Fresh
<1>6. InOrder(c, s)
    BY <1>1, <1>3, <1>4, VerdictMeans DEF InOrder, Later
<1> HIDE DEF s
<1>7. Admission(c, s, now) \in IF s.usable THEN {"OK", "TIMING_INVALID"} ELSE {"SENSOR_INVALID"}
    BY <1>5, <1>6 DEF Admission
<1> QED
    BY <1>1, <1>7 DEF s

\* sensor_event on a report that arrives.
LEMMA EventReturns ==
    ASSUME IInv, NEW kind \in Kind, NEW r \in Report, NEW sound \in BOOLEAN,
           NEW at \in Nat, NEW pause \in Nat, NEW answer \in LibraryAnswer({}),
           SensorEvent(kind, r, sound, at, pause, answer)
    PROVE  EventOutcome
<1> DEFINE a == Update(adapter, kind, r)
           accepted == Accepts(adapter, kind, r, sound)
<1> USE DEF IInv, TypeOK
<1>1. a \in Adapter /\ a.emitted = adapter.emitted /\ a.sequence = adapter.sequence
      /\ a.attitude = adapter.attitude /\ a[kind] = r
    BY UpdateReturns
<1>2. clock' = at + pause /\ clock' \in Nat
    BY DEF SensorEvent
<1>3. rejected' \in Nat
    BY DEF SensorEvent
<1>4. CASE accepted /\ Ready(a, kind, at + pause)
    <2>1. StepCore(a, answer, at + pause)
        BY <1>4 DEF SensorEvent
    <2>2. Verdict(a, at + pause) = "OK"
        BY <1>4 DEF Ready
    <2>3. r.recv # 0
        BY <1>4 DEF Accepts
    <2> HIDE DEF a
    <2>4. Later(a.rotation.recv, a.gyro.recv) # 0
        <3>1. a["rotation"] = a.rotation /\ a["gyro"] = a.gyro
            BY <1>1 DEF Adapter
        <3>2. a.rotation.recv \in Nat /\ a.gyro.recv \in Nat
            BY <1>1 DEF Adapter, Report
        <3> QED
            BY <1>1, <2>3, <3>1, <3>2 DEF Later, Kind
    <2>5. core' = FlightStep(core, SampleFor(TakenSample(a)), ProbeGuidance, {},
                             answer, at + pause).core
          /\ adapter' = Emit(a) /\ guided' = TRUE /\ sample' = TakenSample(a)
          /\ parts' = [k \in Kind |-> a[k].ts]
        BY <2>1 DEF StepCore
    <2>6. TakenSample(a) \in Taken /\ TakenSample(a).seq = a.sequence + 1
          /\ TakenSample(a).ts = Later(a.rotation.ts, a.gyro.ts)
        BY <1>1, TakenTyped
    <2>7. /\ core' \in Core
          /\ core.state = "FAILSAFE" => core'.state = "FAILSAFE"
          /\ \/ core'.lastSeq = core.lastSeq /\ core'.lastTs = core.lastTs
             \/ /\ core'.lastSeq = TakenSample(a).seq
                /\ core'.lastTs = TakenSample(a).ts
        <3>1. core \in Core /\ at + pause \in Nat
            BY <1>2
        <3> DEFINE n == FlightStep(core, SampleFor(TakenSample(a)), ProbeGuidance, {},
                                   answer, at + pause).core
                   t == TakenSample(a)
        <3>2. /\ n \in Core
              /\ core.state = "FAILSAFE" => n.state = "FAILSAFE"
              /\ \/ n.lastSeq = core.lastSeq /\ n.lastTs = core.lastTs
                 \/ n.lastSeq = t.seq /\ n.lastTs = t.ts
            BY <2>6, <3>1, CoreReturns
        <3> QED
            BY <2>5, <3>2
    <2>8. /\ adapter' \in Adapter
          /\ adapter'.emitted["rotation"] = a.rotation.ts
          /\ adapter'.emitted["gyro"] = a.gyro.ts
          /\ adapter'.sequence = a.sequence + 1
        BY <1>1, <2>5, EmitReturns
    <2>9. CoreBehindAdapter'
        <3>1. a.sequence \in Nat /\ a.rotation.ts \in Nat /\ a.gyro.ts \in Nat
              /\ a.emitted["rotation"] \in Nat /\ a.emitted["gyro"] \in Nat
            BY <1>1 DEF Adapter, Report, Kind
        <3>2. a.rotation.ts > a.emitted["rotation"] /\ a.gyro.ts > a.emitted["gyro"]
            BY <1>1, <1>2, <2>2, VerdictMeans
        <3>3. core.lastSeq \in Nat /\ core.lastTs \in Nat
            BY DEF Core
        <3> QED
            BY <1>1, <2>6, <2>7, <2>8, <3>1, <3>2, <3>3 DEF CoreBehindAdapter, Later
    <2>10. Admission(core, SampleFor(sample'), clock') \in
              IF sample'.reliable THEN {"OK", "TIMING_INVALID"} ELSE {"SENSOR_INVALID"}
        BY <1>1, <1>2, <2>2, <2>4, <2>5, AdmissionOfPair DEF CoreBehindAdapter
    <2>11. parts' \in [Kind -> Nat]
        BY <1>1, <2>5, StampsTyped
    <2>12. HistoryInAdapter'
        BY <1>1, <2>5, TakenTyped, EmitReturns DEF HistoryInAdapter
    <2>13. \A k \in Kind : parts'[k] > parts[k]
        <3>1. a.rotation.ts > parts["rotation"] /\ a.gyro.ts > parts["gyro"]
            BY <1>1, <1>2, <2>2, VerdictMeans DEF HistoryInAdapter
        <3>2. parts'["rotation"] = a.rotation.ts /\ parts'["gyro"] = a.gyro.ts
            BY <1>1, <2>5, StampsTyped
        <3> QED
            BY <3>1, <3>2 DEF Kind
    <2>14. sample.seq # 0 => ~Obtuse(sample'.attitude, sample.attitude)
        <3>1. sample'.attitude = Continued(a)
            BY <1>1, <2>5, TakenTyped
        <3> QED
            BY <1>1, <3>1, NeverObtuse DEF HistoryInAdapter
    <2> QED
        BY <1>2, <1>3, <2>5, <2>6, <2>7, <2>8, <2>9, <2>10, <2>11, <2>12, <2>13, <2>14
        DEF EventOutcome
<1>5. CASE ~(accepted /\ Ready(a, kind, at + pause))
    <2>1. adapter' \in {a, adapter} /\ UNCHANGED <<core, guided, sample, parts>>
        BY <1>5 DEF SensorEvent
    <2> HIDE DEF a
    <2>2. CoreBehindAdapter' /\ HistoryInAdapter'
        BY <1>1, <2>1 DEF CoreBehindAdapter, HistoryInAdapter
    <2> QED
        BY <1>1, <1>2, <1>3, <2>1, <2>2 DEF EventOutcome
<1> QED
    BY <1>4, <1>5

\* Whatever the hub sends is a report.
LEMMA IncomingReturns ==
    ASSUME IInv, NEW kind \in Kind, NEW ts \in Nat, NEW well \in BOOLEAN,
           Incoming(kind, ts, well)
    PROVE  EventOutcome
<1> DEFINE at == Later(clock, ts)
<1>1. at \in Nat
    BY DEF Later, IInv, TypeOK
<1>2. PICK attitude \in Attitude, reliable \in BOOLEAN, sound \in BOOLEAN,
           pause \in {0, MaxAge + 1}, answer \in LibraryAnswer({}) :
        SensorEvent(kind, [ts |-> ts, recv |-> at, attitude |-> attitude,
                           reliable |-> reliable], sound, at, pause, answer)
    BY DEF Incoming
<1> HIDE DEF at
<1>3. [ts |-> ts, recv |-> at, attitude |-> attitude, reliable |-> reliable] \in Report
    BY <1>1 DEF Report
<1>4. pause \in Nat
    OBVIOUS
<1> QED
    BY <1>1, <1>2, <1>3, <1>4, EventReturns

LEMMA InitIInv == Init => IInv
<1> SUFFICES ASSUME Init PROVE IInv
    OBVIOUS
<1>1. NoReport \in Report /\ 0 \in Attitude
    BY DEF NoReport, Report, Attitude
<1>2. [k \in Kind |-> 0] \in [Kind -> Nat]
    OBVIOUS
<1>3. adapter \in Adapter /\ adapter.sequence = 0 /\ adapter.emitted = [k \in Kind |-> 0]
    BY <1>1, <1>2 DEF Init, InitialAdapter, Adapter
<1>4. core \in Core /\ core.lastSeq = 0 /\ core.lastTs = 0
    BY DEF Init, InitialCore, Core, FlightState
<1>5. due \in [Kind -> Nat]
    BY DEF Init
<1>6. sample \in Taken
    BY <1>1 DEF Init, Taken
<1>7. late \subseteq [kind : Kind, ts : Nat]
    BY DEF Init
<1>8. TypeOK
    <2>1. parts \in [Kind -> Nat] /\ faults \in 0..MaxFaults /\ clock \in Nat /\ rejected \in Nat
        BY <1>2 DEF Init
    <2> QED
        BY <2>1, <1>3, <1>4, <1>5, <1>6, <1>7 DEF Init, TypeOK
<1>9. CoreBehindAdapter
    BY <1>3, <1>4 DEF CoreBehindAdapter, Later, Kind
<1>10. HistoryInAdapter
    BY <1>3 DEF Init, HistoryInAdapter
<1> QED
    BY <1>8, <1>9, <1>10 DEF IInv

LEMMA AdvanceTyped ==
    ASSUME TypeOK, NEW kind \in Kind, Advance(kind)
    PROVE  due' \in [Kind -> Nat]
BY DEF TypeOK, Advance

\* What a step of the probe and its hub may do.
StepOutcome ==
    /\ EventOutcome
    /\ due' \in [Kind -> Nat]
    /\ late' \subseteq [kind : Kind, ts : Nat]
    /\ faults' \in 0..MaxFaults

LEMMA NextReturns == ASSUME IInv, Next PROVE StepOutcome
<1> USE DEF IInv, TypeOK
<1>1. \A kind \in Kind : due[kind] \in Nat
    OBVIOUS
<1>2. CASE Arrive
    <2>1. PICK kind \in Kind : Advance(kind) /\ Incoming(kind, due[kind], TRUE)
                               /\ UNCHANGED <<late, faults>>
        BY <1>2 DEF Arrive
    <2> QED
        BY <1>1, <2>1, IncomingReturns, AdvanceTyped DEF StepOutcome
<1>3. CASE ArriveBadly
    <2>1. PICK kind \in Kind : Advance(kind) /\ Incoming(kind, due[kind], FALSE)
                               /\ UNCHANGED late
        BY <1>3 DEF ArriveBadly
    <2>2. faults' \in 0..MaxFaults
        BY <1>3 DEF ArriveBadly
    <2> QED
        BY <1>1, <2>1, <2>2, IncomingReturns, AdvanceTyped DEF StepOutcome
<1>4. CASE HoldUp
    <2>1. PICK kind \in Kind :
              /\ Advance(kind)
              /\ late' = late \cup {[kind |-> kind, ts |-> due[kind]]}
              /\ UNCHANGED <<adapter, core, guided, rejected, clock, sample, parts>>
        BY <1>4 DEF HoldUp
    <2>2. faults' \in 0..MaxFaults
        BY <1>4 DEF HoldUp
    <2>3. [kind |-> kind, ts |-> due[kind]] \in [kind : Kind, ts : Nat]
        BY <1>1
    <2>4. EventOutcome
        BY <2>1 DEF EventOutcome, CoreBehindAdapter, HistoryInAdapter
    <2> QED
        BY <2>1, <2>2, <2>3, <2>4, AdvanceTyped DEF StepOutcome
<1>5. CASE ArriveLate
    <2>1. PICK r \in late : late' = late \ {r} /\ Incoming(r.kind, r.ts, TRUE)
                            /\ UNCHANGED <<due, faults>>
        BY <1>5 DEF ArriveLate
    <2>2. r.kind \in Kind /\ r.ts \in Nat
        OBVIOUS
    <2> QED
        BY <2>1, <2>2, IncomingReturns DEF StepOutcome
<1>6. CASE Repeat
    <2>1. PICK kind \in Kind : Incoming(kind, adapter[kind].ts, TRUE)
                               /\ UNCHANGED <<due, late>>
        BY <1>6 DEF Repeat
    <2>2. adapter[kind].ts \in Nat
        BY StampsTyped DEF Kind
    <2>3. faults' \in 0..MaxFaults
        BY <1>6 DEF Repeat
    <2> QED
        BY <2>1, <2>2, <2>3, IncomingReturns DEF StepOutcome
<1>7. CASE Finished
    BY <1>7 DEF Finished, vars, StepOutcome, EventOutcome, CoreBehindAdapter, HistoryInAdapter
<1> QED
    BY <1>2, <1>3, <1>4, <1>5, <1>6, <1>7 DEF Next

LEMMA IInvHolds == Spec => []IInv
<1>1. ASSUME IInv, Next PROVE IInv'
    BY <1>1, NextReturns DEF StepOutcome, EventOutcome, IInv, TypeOK
<1>2. ASSUME IInv, UNCHANGED vars PROVE IInv'
    BY <1>2 DEF vars, IInv, TypeOK, CoreBehindAdapter, HistoryInAdapter
<1>3. IInv /\ [Next]_vars => IInv'
    BY <1>1, <1>2
<1> QED
    BY InitIInv, <1>3, PTL DEF Spec

-----------------------------------------------------------------------------

\* Probe, hub and history stay well-typed.
THEOREM TypeCorrect == Spec => []TypeOK
<1>1. IInv => TypeOK
    BY DEF IInv
<1> QED
    BY IInvHolds, <1>1, PTL

\* Whatever reports come, and in whatever order, a core that has failed once
\* stays failed.
THEOREM FailsafeAlwaysFinal == Spec => FailsafeIsFinal
<1>1. ASSUME IInv, [Next]_vars
      PROVE  [core.state = "FAILSAFE" => core'.state = "FAILSAFE"]_vars
    BY <1>1, NextReturns DEF StepOutcome, EventOutcome
<1> QED
    BY IInvHolds, <1>1, PTL DEF Spec, FailsafeIsFinal

\* What the adapter lets through is fresh and in order for the core, for
\* every configuration in which the adapter's limit is the tighter one.
THEOREM AlwaysRefusedForCause == Spec => RefusedOnlyForCause
<1>1. ASSUME IInv, [Next]_vars
      PROVE  [sample' # sample =>
                 Admission(core, SampleFor(sample'), clock') \in
                    IF sample'.reliable THEN {"OK", "TIMING_INVALID"}
                                        ELSE {"SENSOR_INVALID"}]_vars
    BY <1>1, NextReturns DEF StepOutcome, EventOutcome
<1> QED
    BY IInvHolds, <1>1, PTL DEF Spec, RefusedOnlyForCause

\* Whatever is lost, late, repeated or refused, a sample uses each report
\* once, and its attitude continues that of the sample before it.
THEOREM SamplesAlwaysFollow == Spec => SamplesFollow
<1>1. ASSUME IInv, [Next]_vars
      PROVE  [sample' # sample =>
                 /\ \A k \in Kind : parts'[k] > parts[k]
                 /\ sample.seq # 0 => ~Obtuse(sample'.attitude, sample.attitude)]_vars
    BY <1>1, NextReturns DEF StepOutcome, EventOutcome
<1> QED
    BY IInvHolds, <1>1, PTL DEF Spec, SamplesFollow

-----------------------------------------------------------------------------
(* A hub left alone *)

Stamp(k) == adapter[k].ts

\* Each report comes on time, and the next one of its kind a period later.
Punctual(k) ==
    /\ clock <= due[k]
    /\ Stamp(k) # 0 => /\ adapter[k].recv = Stamp(k) /\ Stamp(k) <= clock
                       /\ due[k] = Stamp(k) + Period

\* No sample yet: one kind is still missing, or the first gyro report was too
\* far from the last rotation.
Waiting ==
    /\ ~core.hasSample /\ core.lastTs = 0
    /\ \A k \in Kind : adapter.emitted[k] = 0
    /\ \/ /\ Stamp("gyro") = 0 /\ due["gyro"] \in 1..(2 * Period)
          /\ Stamp("rotation") = 0 => due["rotation"] = 1
       \/ Stamp("gyro") = 1 /\ Stamp("rotation") = 0 /\ due["rotation"] = 1
       \/ /\ Stamp("rotation") # 0 /\ Stamp("gyro") - Stamp("rotation") > MaxSkew
          /\ clock <= Stamp("gyro") /\ Stamp("gyro") <= 2 * Period

\* The sample was built from both reports just now, ...
Paired ==
    /\ \A k \in Kind : Stamp(k) = adapter.emitted[k]
    /\ \A i, j \in Kind : Stamp(i) - Stamp(j) <= MaxSkew /\ Stamp(i) - Stamp(j) <= Period

\* ... or kind k has come again and waits for the other kind j.
Ahead(k, j) ==
    /\ Stamp(j) = adapter.emitted[j] /\ Stamp(j) = core.lastTs
    /\ Stamp(k) > adapter.emitted[k]
    /\ Stamp(k) \in core.lastTs..(core.lastTs + Period)
    /\ core.lastTs + Period - Stamp(k) <= MaxSkew

Steady ==
    /\ core.hasSample
    /\ core.lastTs = Later(adapter.emitted["rotation"], adapter.emitted["gyro"])
    /\ \A k \in Kind : Stamp(k) # 0
    /\ Paired \/ Ahead("rotation", "gyro") \/ Ahead("gyro", "rotation")

Undisturbed ==
    faults = 0 =>
        /\ late = {}
        /\ core.state # "FAILSAFE"
        /\ Stamp("rotation") # 0 => adapter.rotation.reliable
        /\ \A k \in Kind : Punctual(k)
        /\ Waiting \/ Steady

\* A report of kind k that comes on time; j is the other kind.
ArrivalOutcome(k, j) ==
    /\ clock' = due[k]
    /\ adapter'[k].ts = due[k] /\ adapter'[k].recv = due[k] /\ adapter'[k].reliable
    /\ adapter'[j] = adapter[j]
    /\ IF Stamp(j) > adapter.emitted[j] /\ due[k] - Stamp(j) <= MaxSkew
       THEN /\ core'.state # "FAILSAFE" /\ core'.hasSample /\ core'.lastTs = due[k]
            /\ \A i \in Kind : adapter'.emitted[i] = adapter'[i].ts
       ELSE core' = core /\ adapter'.emitted = adapter.emitted

\* The constants of the probe as the proofs use them.
LEMMA ProbeTimes ==
    /\ Period \in Nat /\ Period >= 1 /\ Period >= MinDt /\ Period <= MaxDt
    /\ Period <= 2 * MaxSkew /\ Period <= MaxAge
    /\ MaxSkew \in Nat /\ MaxSkew >= 1 /\ MaxAge \in Nat
    /\ MinDt \in Nat /\ MaxDt \in Nat
OBVIOUS

\* Two reports on time make a pair when both are new and close enough.
LEMMA VerdictOnTime ==
    ASSUME NEW a \in Adapter, NEW k \in Kind, NEW j \in Kind, k # j, NEW now \in Nat,
           a[k].ts = now, a[k].recv = now, now > a.emitted[k],
           a[j].ts # 0 => a[j].recv = a[j].ts /\ a[j].ts <= now /\ now - a[j].ts <= Period
    PROVE  Verdict(a, now) = "OK" <=> a[j].ts > a.emitted[j] /\ now - a[j].ts <= MaxSkew
<1>1. /\ a["rotation"] = a.rotation /\ a["gyro"] = a.gyro
      /\ a[k].ts \in Nat /\ a[j].ts \in Nat /\ a[j].recv \in Nat /\ a.emitted[j] \in Nat
      /\ a.emitted[k] \in Nat
    BY AdapterFields
<1>2. \A i \in Kind : i = k \/ i = j
    BY DEF Kind
<1>3. BothNew(a) <=> a[j].ts > a.emitted[j]
    BY <1>1, <1>2 DEF BothNew
<1>4. a[j].ts > a.emitted[j] => InAge(a, now)
    <2>1. SUFFICES ASSUME a[j].ts > a.emitted[j] PROVE InAge(a, now)
        OBVIOUS
    <2>2. a[j].recv = a[j].ts /\ a[j].ts <= now /\ now - a[j].ts <= Period
        BY <1>1, <2>1
    <2> QED
        BY <1>1, <1>2, <2>2, ProbeTimes DEF InAge
<1>5. a[j].ts > a.emitted[j] => Skew(a) = now - a[j].ts
    <2>1. SUFFICES ASSUME a[j].ts > a.emitted[j] PROVE Skew(a) = now - a[j].ts
        OBVIOUS
    <2>2. a[j].ts <= now
        BY <1>1, <2>1
    <2>3. CASE k = "rotation" /\ j = "gyro"
        BY <1>1, <2>2, <2>3 DEF Skew
    <2>4. CASE k = "gyro" /\ j = "rotation"
        BY <1>1, <2>2, <2>4 DEF Skew
    <2> QED
        BY <2>3, <2>4 DEF Kind
<1>6. Skew(a) \in Int
    BY <1>1 DEF Skew, Kind
<1> QED
    BY <1>1, <1>3, <1>4, <1>5, <1>6, ProbeTimes DEF Verdict

\* With a hub left alone the next report is on time and follows the last of
\* its kind; if it completes a pair, a period has passed since the last sample.
LEMMA OnTime ==
    ASSUME IInv, Undisturbed, faults = 0, NEW k \in Kind, NEW j \in Kind, k # j,
           due[k] <= due[j]
    PROVE  /\ due[k] \in Nat /\ due[j] \in Nat /\ clock \in Nat
           /\ Stamp(k) \in Nat /\ Stamp(j) \in Nat
           /\ adapter.emitted[k] \in Nat /\ adapter.emitted[j] \in Nat
           /\ core.lastTs \in Nat
           /\ due[k] # 0 /\ clock <= due[k] /\ due[k] > Stamp(k)
           /\ due[k] > adapter.emitted[k]
           /\ Stamp(j) # 0 => /\ adapter[j].recv = Stamp(j) /\ Stamp(j) <= due[k]
                              /\ due[k] - Stamp(j) <= Period
           /\ core.hasSample /\ Stamp(j) > adapter.emitted[j]
                => due[k] - core.lastTs = Period
<1> USE ProbeTimes
<1>1. /\ due[k] \in Nat /\ due[j] \in Nat /\ clock \in Nat
      /\ Stamp(k) \in Nat /\ Stamp(j) \in Nat
      /\ adapter.emitted[k] \in Nat /\ adapter.emitted[j] \in Nat
      /\ adapter.emitted["gyro"] \in Nat /\ adapter.emitted["rotation"] \in Nat
      /\ core.lastTs \in Nat
    BY AdapterFields DEF IInv, TypeOK, Stamp, Core, Kind
<1>2. Punctual(k) /\ Punctual(j)
    BY DEF Undisturbed
<1>3. Waiting \/ Steady
    BY DEF Undisturbed
<1>4. (k = "rotation" /\ j = "gyro") \/ (k = "gyro" /\ j = "rotation")
    BY DEF Kind
<1>5. clock <= due[k]
    BY <1>2 DEF Punctual
<1>6. due[k] # 0 /\ due[k] > Stamp(k)
    <2>1. CASE Stamp(k) # 0
        BY <1>1, <1>2, <2>1 DEF Punctual
    <2>2. CASE Stamp(k) = 0
        <3>1. Waiting
            BY <1>3, <2>2 DEF Steady
        <3>2. due[k] # 0
            BY <1>1, <1>4, <2>2, <3>1 DEF Waiting
        <3> QED
            BY <1>1, <2>2, <3>2
    <2> QED
        BY <2>1, <2>2
<1>7. Stamp(j) # 0 => /\ adapter[j].recv = Stamp(j) /\ Stamp(j) <= due[k]
                      /\ due[k] - Stamp(j) <= Period
    BY <1>1, <1>2, <1>5 DEF Punctual
<1>8. due[k] > adapter.emitted[k] /\
      (core.hasSample /\ Stamp(j) > adapter.emitted[j] => due[k] - core.lastTs = Period)
    <2>1. CASE Waiting
        BY <1>1, <1>6, <2>1 DEF Waiting
    <2>2. CASE Steady
        <3>1. due[k] = Stamp(k) + Period /\ Stamp(k) # 0
            BY <1>2, <2>2 DEF Steady, Punctual
        <3>2. Stamp(k) >= adapter.emitted[k]
            BY <1>1, <1>4, <2>2 DEF Steady, Paired, Ahead
        <3>3. Stamp(j) > adapter.emitted[j] => Stamp(k) = core.lastTs
            BY <1>1, <1>4, <2>2 DEF Steady, Paired, Ahead
        <3> QED
            BY <1>1, <3>1, <3>2, <3>3
    <2> QED
        BY <1>3, <2>1, <2>2
<1> QED
    BY <1>1, <1>5, <1>6, <1>7, <1>8

\* So it is accepted, and the sample that it completes is admitted.
LEMMA PunctualArrival ==
    ASSUME IInv, Undisturbed, faults = 0, NEW k \in Kind, NEW j \in Kind, k # j,
           due[k] <= due[j], Incoming(k, due[k], TRUE)
    PROVE  ArrivalOutcome(k, j)
<1> DEFINE now == due[k]
<1>1. /\ now \in Nat /\ clock \in Nat /\ clock <= now /\ now # 0
      /\ Stamp(k) \in Nat /\ now > Stamp(k)
    BY OnTime
<1>2. Later(clock, now) = now
    BY <1>1 DEF Later
<1>3. PICK attitude \in Attitude, answer \in LibraryAnswer({}) :
          /\ answer \in Works
          /\ SensorEvent(k, [ts |-> now, recv |-> now, attitude |-> attitude,
                             reliable |-> TRUE], TRUE, now, 0, answer)
    BY <1>2 DEF Incoming
<1> DEFINE r == [ts |-> now, recv |-> now, attitude |-> attitude, reliable |-> TRUE]
           a == Update(adapter, k, r)
<1>4. r \in Report
    BY <1>1 DEF Report
<1>5. /\ a \in Adapter /\ a.emitted = adapter.emitted /\ a.sequence = adapter.sequence
      /\ a[k] = r /\ a[j] = adapter[j]
    BY <1>4, UpdateReturns DEF IInv, TypeOK
<1>6. Accepts(adapter, k, r, TRUE)
    BY <1>1 DEF Accepts, Stamp
<1>7. Verdict(a, now) = "OK"
         <=> Stamp(j) > adapter.emitted[j] /\ now - Stamp(j) <= MaxSkew
    <2>1. a[k].ts = now /\ a[k].recv = now /\ now > a.emitted[k]
          /\ a[j].ts = Stamp(j)
          /\ (a[j].ts # 0 => a[j].recv = a[j].ts /\ a[j].ts <= now /\ now - a[j].ts <= Period)
        BY <1>5, OnTime DEF Stamp
    <2> HIDE DEF a, r, now
    <2> QED
        BY <1>1, <1>5, <2>1, VerdictOnTime
<1>8. clock' = now /\ now + 0 = now
    BY <1>1, <1>3 DEF SensorEvent
<1>9. CASE Verdict(a, now) = "OK"
    <2>1. StepCore(a, answer, now)
        BY <1>3, <1>6, <1>8, <1>9 DEF SensorEvent, Ready
    <2> HIDE DEF a, r, now
    <2>2. adapter' = Emit(a)
          /\ core' = FlightStep(core, SampleFor(TakenSample(a)), ProbeGuidance, {},
                                answer, now).core
        BY <2>1 DEF StepCore
    <2>3. /\ adapter'[k] = a[k] /\ adapter'[j] = a[j]
          /\ \A i \in Kind : adapter'.emitted[i] = adapter'[i].ts
        <3>1. a["rotation"] = a.rotation /\ a["gyro"] = a.gyro
              /\ adapter'["rotation"] = adapter'.rotation /\ adapter'["gyro"] = adapter'.gyro
            BY <1>5, <2>2, AdapterFields, EmitReturns
        <3>2. /\ adapter'.rotation = a.rotation /\ adapter'.gyro = a.gyro
              /\ adapter'.emitted["rotation"] = a.rotation.ts
              /\ adapter'.emitted["gyro"] = a.gyro.ts
            BY <1>5, <2>2, EmitReturns
        <3> QED
            BY <3>1, <3>2 DEF Kind
    <2>4. Stamp(j) > adapter.emitted[j] /\ now - Stamp(j) <= MaxSkew
        BY <1>7, <1>9
    <2>5. /\ TakenSample(a) \in Taken /\ TakenSample(a).ts = now
          /\ TakenSample(a).reliable = TRUE /\ Later(a.rotation.recv, a.gyro.recv) # 0
        <3>1. a["rotation"] = a.rotation /\ a["gyro"] = a.gyro
            BY <1>5, AdapterFields
        <3>2. Stamp(j) \in Nat /\ adapter.emitted[j] \in Nat
              /\ (Stamp(j) # 0 => adapter[j].recv = Stamp(j) /\ Stamp(j) <= now)
            BY OnTime DEF now
        <3>3. a[k].ts = now /\ a[k].recv = now /\ a[k].reliable = TRUE
            BY <1>5 DEF r
        <3>4. a[j].ts = Stamp(j) /\ Stamp(j) # 0 /\ Stamp(j) <= now /\ a[j].recv = Stamp(j)
            BY <1>5, <2>4, <3>2 DEF Stamp
        <3>5. j = "rotation" => a[j].reliable = TRUE
            BY <1>5, <3>1, <3>4 DEF Undisturbed, Adapter, Report, IInv, TypeOK
        <3>6. Later(a.rotation.ts, a.gyro.ts) = now /\ Later(a.rotation.recv, a.gyro.recv) # 0
            BY <1>1, <3>1, <3>2, <3>3, <3>4 DEF Later, Kind
        <3>7. a.rotation.reliable = TRUE
            BY <3>1, <3>3, <3>5 DEF Kind
        <3> QED
            BY <1>5, <3>6, <3>7, TakenTyped
    <2>6. Admission(core, SampleFor(TakenSample(a)), now) \in {"OK", "TIMING_INVALID"}
        BY <1>1, <1>5, <1>9, <2>5, AdmissionOfPair DEF IInv, TypeOK, CoreBehindAdapter
    <2>7. Dt(core, SampleFor(TakenSample(a))) \in MinDt..MaxDt
        BY <2>4, <2>5, OnTime, ProbeTimes DEF Dt, SampleFor, now
    <2>8. Admission(core, SampleFor(TakenSample(a)), now) = "OK"
        BY <2>6, <2>7 DEF Admission
    <2>9. core'.state # "FAILSAFE" /\ core'.hasSample = TRUE /\ core'.lastTs = now
        <3>1. core \in Core /\ core.state # "FAILSAFE" /\ answer \in Works /\ now \in Nat
            BY <1>1, <1>3 DEF IInv, TypeOK, Undisturbed
        <3> DEFINE t == TakenSample(a)
        <3>2. t \in Taken /\ t.ts = now /\ Admission(core, SampleFor(t), now) = "OK"
            BY <2>5, <2>8
        <3> HIDE DEF t
        <3>3. FliesOn(FlightStep(core, SampleFor(t), ProbeGuidance, {}, answer, now).core, t)
            BY <3>1, <3>2, CoreFlies
        <3>4. core' = FlightStep(core, SampleFor(t), ProbeGuidance, {}, answer, now).core
            BY <2>2 DEF t
        <3> QED
            BY <3>2, <3>3, <3>4 DEF FliesOn
    <2>10. adapter'[k] = r /\ adapter'[j] = adapter[j]
        BY <1>5, <2>3
    <2> QED
        BY <1>8, <2>3, <2>4, <2>9, <2>10 DEF ArrivalOutcome, now, r
<1>10. CASE Verdict(a, now) # "OK"
    <2>1. adapter' = a /\ core' = core
        BY <1>3, <1>6, <1>8, <1>10 DEF SensorEvent, Ready
    <2> QED
        BY <1>5, <1>7, <1>8, <1>10, <2>1 DEF ArrivalOutcome
<1> QED
    BY <1>9, <1>10

\* Then the two kinds take turns, or the pair is complete with either.
LEMMA StaysUndisturbed ==
    ASSUME IInv, Undisturbed, faults = 0, NEW k \in Kind, NEW j \in Kind, k # j,
           due[k] <= due[j], Advance(k), ArrivalOutcome(k, j), UNCHANGED <<late, faults>>,
           adapter' \in Adapter
    PROVE  Undisturbed'
<1> USE ProbeTimes
<1> DEFINE t == due[k]  s == Stamp(j)
<1>1. /\ t \in Nat /\ due[j] \in Nat /\ clock \in Nat /\ s \in Nat /\ Stamp(k) \in Nat
      /\ adapter.emitted[k] \in Nat /\ adapter.emitted[j] \in Nat /\ core.lastTs \in Nat
      /\ t # 0 /\ clock <= t /\ t > Stamp(k) /\ t > adapter.emitted[k]
      /\ s # 0 => s <= t /\ t - s <= Period
      /\ t <= due[j]
      /\ Stamp(k) # 0 => t = Stamp(k) + Period
      /\ s # 0 => due[j] = s + Period
    BY OnTime DEF Undisturbed, Punctual
<1>2. \A i \in Kind : i = k \/ i = j
    BY DEF Kind
<1>3. (k = "rotation" /\ j = "gyro") \/ (k = "gyro" /\ j = "rotation")
    BY DEF Kind
<1>4. /\ clock' = t /\ due'[k] = t + Period /\ due'[j] = due[j]
      /\ Stamp(k)' = t /\ adapter'[k].recv = t /\ adapter'[k].reliable
      /\ Stamp(j)' = s /\ adapter'[j] = adapter[j]
    BY DEF ArrivalOutcome, Advance, Stamp, IInv, TypeOK
<1>5. \A i \in Kind : Punctual(i)'
    <2>1. Punctual(k)'
        BY <1>1, <1>4 DEF Punctual, Stamp
    <2>2. Punctual(j)'
        BY <1>1, <1>4 DEF Punctual, Stamp, Undisturbed
    <2> QED
        BY <1>2, <2>1, <2>2
<1>6. Stamp("rotation")' # 0 => adapter'.rotation.reliable
    <2>1. adapter'["rotation"] = adapter'.rotation /\ adapter["rotation"] = adapter.rotation
        BY AdapterFields DEF IInv, TypeOK
    <2> QED
        BY <1>3, <1>4, <2>1 DEF Undisturbed, Stamp
<1>7. CASE s > adapter.emitted[j] /\ t - s <= MaxSkew
    <2>1. /\ core'.state # "FAILSAFE" /\ core'.hasSample /\ core'.lastTs = t
          /\ adapter'.emitted[k] = t /\ adapter'.emitted[j] = s
        BY <1>4, <1>7 DEF ArrivalOutcome, Stamp
    <2>2. Steady'
        <3>1. s # 0 /\ s <= t /\ t - s <= Period
            BY <1>1, <1>7
        <3>2. Paired'
            <4>1. \A i \in Kind : Stamp(i)' = adapter'.emitted[i]
                BY <1>2, <1>4, <2>1
            <4>2. \A i, l \in Kind : Stamp(i)' - Stamp(l)' <= MaxSkew
                                     /\ Stamp(i)' - Stamp(l)' <= Period
                BY <1>1, <1>2, <1>4, <1>7, <3>1
            <4> QED
                BY <4>1, <4>2 DEF Paired, Stamp
        <3>3. t = Later(adapter'.emitted["rotation"], adapter'.emitted["gyro"])
            BY <1>1, <1>3, <2>1, <3>1 DEF Later
        <3>4. \A i \in Kind : Stamp(i)' # 0
            BY <1>1, <1>2, <1>4, <3>1
        <3> QED
            BY <2>1, <3>2, <3>3, <3>4 DEF Steady, Stamp
    <2> QED
        BY <1>5, <1>6, <2>1, <2>2 DEF Undisturbed, Stamp
<1>8. CASE ~(s > adapter.emitted[j] /\ t - s <= MaxSkew)
    <2>1. core' = core /\ adapter'.emitted = adapter.emitted
        BY <1>8 DEF ArrivalOutcome
    <2>2. Waiting => Waiting'
        <3> SUFFICES ASSUME Waiting PROVE Waiting'
            OBVIOUS
        <3>1. ~core.hasSample /\ core.lastTs = 0 /\ \A i \in Kind : adapter.emitted[i] = 0
            BY DEF Waiting
        <3>2. s = 0 \/ t - s > MaxSkew
            BY <1>1, <1>8, <3>1
        <3>3. CASE k = "rotation" /\ j = "gyro"
            <4>1. s = 0
                BY <1>1, <3>2, <3>3 DEF Waiting
            <4> QED
                BY <1>1, <1>4, <2>1, <3>1, <3>3, <4>1 DEF Waiting, Stamp
        <3>4. CASE k = "gyro" /\ j = "rotation"
            <4>1. Stamp("gyro") = 0
                BY <1>1, <3>4 DEF Waiting
            <4>2. t \in 1..(2 * Period)
                BY <1>1, <3>4, <4>1 DEF Waiting
            <4>3. CASE s = 0
                <5>1. due["rotation"] = 1 /\ t = 1
                    BY <1>1, <3>4, <4>1, <4>2, <4>3 DEF Waiting
                <5> QED
                    BY <1>4, <2>1, <3>1, <3>4, <4>3, <5>1 DEF Waiting, Stamp
            <4>4. CASE s # 0
                <5>1. t - s > MaxSkew /\ t <= 2 * Period
                    BY <3>2, <4>2, <4>4
                <5> QED
                    BY <1>1, <1>4, <2>1, <3>1, <3>4, <4>4, <5>1 DEF Waiting, Stamp
            <4> QED
                BY <4>3, <4>4
        <3> QED
            BY <1>3, <3>3, <3>4
    <2>3. Steady => Steady'
        <3> SUFFICES ASSUME Steady PROVE Steady'
            OBVIOUS
        <3>1. t = Stamp(k) + Period
            BY DEF Steady, Undisturbed, Punctual
        <3>2. Ahead(k, j)'
            BY <1>1, <1>3, <1>4, <1>8, <2>1, <3>1 DEF Steady, Paired, Ahead, Stamp, Later
        <3> QED
            BY <1>1, <1>2, <1>3, <1>4, <2>1, <3>2 DEF Steady, Stamp
    <2> QED
        BY <1>5, <1>6, <2>1, <2>2, <2>3 DEF Undisturbed, Stamp
<1> QED
    BY <1>7, <1>8

\* The first gyro report may come at any time of the first two periods.
LEMMA InitUndisturbed == Init => Undisturbed
<1> SUFFICES ASSUME Init PROVE Undisturbed
    OBVIOUS
<1>1. \A k \in Kind : adapter[k] = NoReport /\ adapter.emitted[k] = 0
    BY DEF Init, InitialAdapter, Kind
<1>2. \A k \in Kind : Stamp(k) = 0
    BY <1>1 DEF Stamp, NoReport
<1>3. late = {} /\ core.state # "FAILSAFE" /\ ~core.hasSample /\ core.lastTs = 0
    BY DEF Init, InitialCore
<1>4. PICK first \in 1..(2 * Period) :
          due = [k \in Kind |-> IF k = "gyro" THEN first ELSE 1]
    BY DEF Init
<1>5. due["gyro"] \in 1..(2 * Period) /\ due["rotation"] = 1
    BY <1>4 DEF Kind
<1>6. \A k \in Kind : Punctual(k)
    BY <1>2, <1>5 DEF Init, Punctual, Kind
<1>7. Waiting
    BY <1>1, <1>2, <1>3, <1>5 DEF Waiting, Kind
<1> QED
    BY <1>2, <1>3, <1>6, <1>7 DEF Undisturbed, Kind

LEMMA NextUndisturbed == ASSUME IInv, Undisturbed, Next PROVE Undisturbed'
<1>1. CASE Arrive /\ faults = 0
    <2>1. PICK k \in Kind : Next1(k) /\ Advance(k) /\ Incoming(k, due[k], TRUE)
                            /\ UNCHANGED <<late, faults>>
        BY <1>1 DEF Arrive
    <2>2. PICK j \in Kind : k # j
        BY DEF Kind
    <2>3. due[k] <= due[j]
        BY <2>1 DEF Next1
    <2>4. adapter' \in Adapter
        BY NextReturns DEF StepOutcome, EventOutcome
    <2> QED
        BY <1>1, <2>1, <2>2, <2>3, <2>4, PunctualArrival, StaysUndisturbed
<1>2. CASE faults' # 0
    BY <1>2 DEF Undisturbed
<1>3. CASE Finished
    BY <1>3 DEF Finished, vars, Undisturbed, Punctual, Waiting, Steady, Paired, Ahead, Stamp
<1>4. CASE ArriveLate /\ faults = 0
    BY <1>4 DEF ArriveLate, Undisturbed
<1>5. Arrive \/ ArriveLate => faults' = faults
    BY DEF Arrive, ArriveLate
<1>6. ArriveBadly \/ HoldUp \/ Repeat => faults' # 0
    <2>1. faults \in Nat
        BY DEF IInv, TypeOK
    <2>2. ArriveBadly \/ HoldUp \/ Repeat => faults' = faults + 1
        BY DEF ArriveBadly, HoldUp, Repeat
    <2> QED
        BY <2>1, <2>2
<1> QED
    BY <1>1, <1>2, <1>3, <1>4, <1>5, <1>6 DEF Next

LEMMA UndisturbedHolds == Spec => [](IInv /\ Undisturbed)
<1>1. Init => Undisturbed
    BY InitUndisturbed
<1>2. IInv /\ Undisturbed /\ [Next]_vars => Undisturbed'
    <2>1. ASSUME Undisturbed, UNCHANGED vars PROVE Undisturbed'
        BY <2>1 DEF vars, Undisturbed, Punctual, Waiting, Steady, Paired, Ahead, Stamp
    <2> QED
        BY <2>1, NextUndisturbed
<1> QED
    BY IInvHolds, <1>1, <1>2, PTL DEF Spec

-----------------------------------------------------------------------------

\* For every period, phase and configuration of the limits, no sample of a
\* hub left alone is refused.
THEOREM UndisturbedAlwaysFlies == Spec => []UndisturbedFlies
<1>1. Undisturbed => UndisturbedFlies
    BY DEF Undisturbed, UndisturbedFlies
<1> QED
    BY UndisturbedHolds, <1>1, PTL

\* ... and none is missing.
THEOREM AlwaysFlowsSteadily == Spec => []FlowsSteadily
<1>1. ASSUME IInv, Undisturbed PROVE FlowsSteadily
    <2> SUFFICES ASSUME faults = 0
                 PROVE  clock - core.lastTs <= IF core.hasSample THEN Period ELSE 2 * Period
        BY DEF FlowsSteadily
    <2>1. \A k \in Kind : /\ Stamp(k) \in Nat /\ adapter.emitted[k] \in Nat
                          /\ due[k] \in Nat /\ clock <= due[k]
                          /\ Stamp(k) # 0 => due[k] = Stamp(k) + Period
        BY <1>1, AdapterFields DEF IInv, TypeOK, Undisturbed, Punctual, Stamp
    <2>2. clock \in Nat /\ core.lastTs \in Nat
        BY <1>1 DEF IInv, TypeOK, Core
    <2>3. CASE Waiting
        BY <2>1, <2>2, <2>3, ProbeTimes DEF Waiting, Kind
    <2>4. CASE Steady
        <3>1. PICK k \in Kind : Stamp(k) <= core.lastTs
            BY <2>1, <2>2, <2>4 DEF Steady, Paired, Ahead, Later, Kind
        <3> QED
            BY <2>1, <2>2, <2>4, <3>1, ProbeTimes DEF Steady
    <2> QED
        BY <1>1, <2>3, <2>4 DEF Undisturbed
<1> QED
    BY UndisturbedHolds, <1>1, PTL

=============================================================================
