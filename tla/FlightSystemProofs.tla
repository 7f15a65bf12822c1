-------------------------- MODULE FlightSystemProofs --------------------------
(***************************************************************************)
(* Theorems about the flight core under any caller, for every              *)
(* configuration and every bound.  The lemmas of FlightCoreProofs say     *)
(* what a step returns; IInv is the inductive invariant, preserved action  *)
(* by action; the theorems at the end are its consequences.                *)
(***************************************************************************)
EXTENDS FlightSystem, FlightCoreProofs

USE ConfigAssumption, BoundAssumption

\* What a caller may present is a sample.
LEMMA OfferedAreSamples == Offered \subseteq Sample
BY DEF Offered, Sample

-----------------------------------------------------------------------------
(* The inductive invariant *)

\* An armed core has a sample: with it, the interval handed to the
\* controller is the distance to the last recorded sample.
ArmedHasSample == core.state = "ARMED" => core.hasSample

\* The last sample recorded stays further behind the gap than MaxDt.
GapAhead == gap # 0 => core.hasSample /\ gap > core.lastTs + MaxDt

IInv ==
    /\ TypeOK /\ SampleChain /\ HistoryMatches
    /\ IntegratorWindow /\ ArmedHasSample /\ GapAhead

\* An empty run has no two consecutive samples.
LEMMA EmptyChain == \A l : l = <<>> => 1..(Len(l) - 1) = {}
OBVIOUS

LEMMA InitIInv == Init => IInv
<1> SUFFICES ASSUME Init PROVE IInv
  OBVIOUS
<1>1. TypeOK
  BY SafeOutputTyped
  DEF Init, TypeOK, InitialCore, Core, FlightState, Call, Entry
<1>2. SampleChain
  BY EmptyChain DEF Init, SampleChain
<1>3. HistoryMatches /\ IntegratorWindow /\ ArmedHasSample /\ GapAhead
  BY DEF Init, HistoryMatches, IntegratorWindow, ArmedHasSample, GapAhead, InitialCore
<1> QED
  BY <1>1, <1>2, <1>3 DEF IInv

\* disarm() and init() start a new run with an idle controller.
LEMMA DisarmReturns ==
    ASSUME NEW c \in Core
    PROVE  /\ Disarm(c) \in Core
           /\ Disarm(c).state = "DISARMED" /\ Disarm(c).hasSample = FALSE
           /\ Disarm(c).integrated = 0
BY DEF Disarm, Core, FlightState

LEMMA InitialCoreTyped ==
    /\ InitialCore \in Core
    /\ InitialCore.state = "DISARMED" /\ InitialCore.hasSample = FALSE
    /\ InitialCore.integrated = 0
BY DEF InitialCore, Core, FlightState

\* A call that forgets the history re-establishes every part.
LEMMA ForgetIInv ==
    ASSUME IInv, core' \in Core, core'.state = "DISARMED", core'.hasSample = FALSE,
           core'.integrated = 0, log' = <<>>, gap' = 0, last' \in Call,
           UNCHANGED <<out, now, windowStart>>
    PROVE  IInv'
<1>1. TypeOK'
  BY DEF IInv, TypeOK
<1>2. SampleChain'
  BY EmptyChain DEF SampleChain
<1>3. (HistoryMatches /\ IntegratorWindow /\ ArmedHasSample /\ GapAhead)'
  BY DEF HistoryMatches, IntegratorWindow, ArmedHasSample, GapAhead
<1> QED
  BY <1>1, <1>2, <1>3 DEF IInv

\* A sample behind a gap was measured against the last one recorded, and a
\* sample that is recorded lies before every gap.
LEMMA GapStays ==
    ASSUME IInv, NEW s \in Sample
    PROVE  /\ GapAfter(s) \in Nat
           /\ Admission(core, s, now) # "OK" /\ GapAfter(s) # 0 =>
                 core.hasSample /\ GapAfter(s) > core.lastTs + MaxDt
           /\ Admission(core, s, now) = "OK" =>
                 GapAfter(s) = 0 /\ (gap # 0 => s.ts < gap)
<1>1. /\ core \in Core /\ now \in Nat /\ gap \in Nat /\ s.ts \in Nat /\ core.lastTs \in Nat
      /\ gap # 0 => core.hasSample /\ gap > core.lastTs + MaxDt
  BY DEF IInv, TypeOK, GapAhead, Sample, Core
<1>2. CASE Admission(core, s, now) = "OK"
  <2>1. core.hasSample => s.ts - core.lastTs \in MinDt..MaxDt
    BY <1>1, <1>2, AdmissionMeans
  <2>2. gap # 0 => s.ts < gap
    BY <1>1, <2>1
  <2>3. GapAfter(s) = IF s.ts < gap THEN 0 ELSE gap
    BY <1>2 DEF GapAfter
  <2> QED
    BY <1>1, <1>2, <2>2, <2>3
<1>3. CASE Admission(core, s, now) = "TIMING_INVALID" /\ s.ts > core.lastTs + MaxDt
  <2>1. core.hasSample
    BY <1>3 DEF Admission, Dt
  <2>2. GapAfter(s) = IF gap # 0 /\ gap < s.ts THEN gap ELSE s.ts
    BY <1>3 DEF GapAfter
  <2> QED
    BY <1>1, <1>3, <2>1, <2>2
<1>4. CASE /\ Admission(core, s, now) # "OK"
           /\ ~(Admission(core, s, now) = "TIMING_INVALID" /\ s.ts > core.lastTs + MaxDt)
  <2>1. GapAfter(s) = gap
    BY <1>4 DEF GapAfter
  <2> QED
    BY <1>1, <1>4, <2>1
<1> QED
  BY <1>2, <1>3, <1>4

\* A refused sample leaves the run as it is and idles the controller.
LEMMA RefusedIInv == IInv /\ StepRefused => IInv'
<1> SUFFICES ASSUME IInv, NEW s \in Offered, NEW g \in Guidance,
                    Admission(core, s, now) # "OK", StepWith(s, g, {}, "Idle")
             PROVE  IInv'
  BY DEF StepRefused
<1> DEFINE r == FlightStep(core, s, g, {}, "Idle", now)
<1>1. core \in Core /\ now \in Nat /\ s \in Sample
  BY OfferedAreSamples DEF IInv, TypeOK
<1>2. /\ r.core \in Core /\ r.out \in FlightOutput
      /\ r.core.state = "FAILSAFE" /\ r.core.integrated = 0
      /\ r.core.hasSample = core.hasSample
      /\ r.core.lastSeq = core.lastSeq /\ r.core.lastTs = core.lastTs
  BY <1>1, RefusedReturns
<1>3. /\ core' = r.core /\ out' = r.out /\ last' = [op |-> "step", arm |-> g.arm]
      /\ log' = log /\ windowStart' = windowStart /\ now' = now /\ gap' = GapAfter(s)
  BY <1>2 DEF StepWith
<1> HIDE DEF r
<1>4. TypeOK'
  BY <1>1, <1>2, <1>3, GapStays DEF IInv, TypeOK, Call, Guidance
<1>5. (SampleChain /\ HistoryMatches)'
  BY <1>2, <1>3 DEF IInv, SampleChain, HistoryMatches
<1>6. (IntegratorWindow /\ ArmedHasSample /\ GapAhead)'
  BY <1>1, <1>2, <1>3, GapStays DEF IntegratorWindow, ArmedHasSample, GapAhead
<1> QED
  BY <1>4, <1>5, <1>6 DEF IInv

\* A recorded sample extends the run by one consecutive entry; the window of
\* the controller grows by the interval, or opens with it.
LEMMA RecordedIInv == IInv /\ StepRecorded => IInv'
<1> SUFFICES ASSUME IInv, NEW s \in Offered, NEW g \in Guidance,
                    NEW active \in SUBSET EnabledAiding,
                    NEW answer \in LibraryAnswer(active),
                    Admission(core, s, now) = "OK", StepWith(s, g, active, answer)
             PROVE  IInv'
  BY DEF StepRecorded
<1> DEFINE r == FlightStep(core, s, g, active, answer, now)
           e == [seq |-> s.seq, ts |-> s.ts]
           dt == Dt(core, s)
<1>1. core \in Core /\ now \in Nat /\ log \in Seq(Entry) /\ windowStart \in Int
      /\ s \in Sample
  BY OfferedAreSamples DEF IInv, TypeOK
<1>2. RecordedOutcome(core, s, g, r)
  BY <1>1, RecordedReturns
<1>3. /\ r.core \in Core /\ r.out \in FlightOutput
      /\ r.core.hasSample = TRUE
      /\ r.core.lastSeq = s.seq /\ r.core.lastTs = s.ts
      /\ \/ r.core.state # "ARMED" /\ r.core.integrated = 0
         \/ /\ r.core.state # "ARMED" /\ core.state = "FAILSAFE"
            /\ r.core.integrated = core.integrated
         \/ r.core.state = "ARMED" /\ r.core.integrated = Integrated(core, dt)
  BY <1>2 DEF RecordedOutcome
<1>4. /\ core' = r.core /\ out' = r.out /\ last' = [op |-> "step", arm |-> g.arm]
      /\ log' = Append(log, e) /\ now' = now
      /\ windowStart' = IF r.core.state = "ARMED" /\ core.state # "ARMED"
                        THEN s.ts - dt ELSE windowStart
      /\ gap' = 0
  BY <1>1, GapStays DEF StepWith
<1>5. s.seq \in Nat /\ s.ts \in Nat
  BY <1>1 DEF Sample
<1>6. /\ dt \in MinDt..MaxDt
      /\ core.hasSample => core.lastSeq < s.seq /\ dt = s.ts - core.lastTs
  BY <1>1, AdmissionMeans
<1> HIDE DEF r, dt
<1>7. TypeOK'
  <2>1. windowStart' \in Int
    BY <1>1, <1>4, <1>5, <1>6
  <2>2. log' \in Seq(Entry)
    BY <1>1, <1>4, <1>5 DEF Entry
  <2> QED
    BY <1>1, <1>3, <1>4, <2>1, <2>2 DEF TypeOK, Call, Guidance
<1>8. SampleChain'
  <2> SUFFICES ASSUME NEW i \in 1..(Len(log') - 1)
               PROVE  Consecutive(log'[i], log'[i + 1])
    BY DEF SampleChain
  <2>1. Len(log') = Len(log) + 1 /\ Len(log) \in Nat
    BY <1>1, <1>4
  <2>2. CASE i < Len(log)
    <3>1. log'[i] = log[i] /\ log'[i + 1] = log[i + 1] /\ i \in 1..(Len(log) - 1)
      BY <1>1, <1>4, <2>1, <2>2
    <3> QED
      BY <3>1 DEF IInv, SampleChain
  <2>3. CASE i = Len(log)
    <3>1. log'[i] = log[Len(log)] /\ log'[i + 1] = e
      BY <1>1, <1>4, <2>1, <2>3
    <3>2. log # <<>>
      BY <2>1, <2>3
    <3>3. core.hasSample
          /\ log[Len(log)] = [seq |-> core.lastSeq, ts |-> core.lastTs]
      BY <3>2 DEF IInv, HistoryMatches
    <3> QED
      BY <1>6, <3>1, <3>3 DEF Consecutive
  <2> QED
    BY <2>1, <2>2, <2>3
<1>9. HistoryMatches'
  <2>1. log' # <<>> /\ log'[Len(log')] = e
    BY <1>1, <1>4
  <2> QED
    BY <1>3, <1>4, <2>1 DEF HistoryMatches
<1>10. IntegratorWindow'
  <2>1. core.integrated =
          IF core.state = "ARMED" THEN core.lastTs - windowStart ELSE 0
    BY DEF IInv, IntegratorWindow
  <2>2. CASE r.core.state # "ARMED"
    BY <1>3, <1>4, <2>1, <2>2 DEF IntegratorWindow
  <2>3. CASE r.core.state = "ARMED" /\ core.state # "ARMED"
    BY <1>3, <1>4, <1>5, <1>6, <2>3 DEF IntegratorWindow, Integrated
  <2>4. CASE r.core.state = "ARMED" /\ core.state = "ARMED"
    <3>1. dt = s.ts - core.lastTs
      BY <1>6, <2>4 DEF IInv, ArmedHasSample
    <3>2. core.lastTs \in Nat
      BY <1>1 DEF Core
    <3> QED
      BY <1>1, <1>3, <1>4, <1>5, <2>1, <2>4, <3>1, <3>2
      DEF IntegratorWindow, Integrated
  <2> QED
    BY <2>2, <2>3, <2>4
<1>11. (ArmedHasSample /\ GapAhead)'
  BY <1>3, <1>4 DEF ArmedHasSample, GapAhead
<1> QED
  BY <1>7, <1>8, <1>9, <1>10, <1>11 DEF IInv

LEMMA NextIInv == IInv /\ [Next]_vars => IInv'
<1> SUFFICES ASSUME IInv, [Next]_vars PROVE IInv'
  OBVIOUS
<1>1. CASE Reinitialise
  BY <1>1, ForgetIInv, InitialCoreTyped DEF Reinitialise, Call
<1>2. CASE DisarmCall
  <2>1. core \in Core
    BY DEF IInv, TypeOK
  <2> QED
    BY <1>2, <2>1, ForgetIInv, DisarmReturns DEF DisarmCall, Call
<1>3. CASE StepRefused
  BY <1>3, RefusedIInv
<1>4. CASE StepRecorded
  BY <1>4, RecordedIInv
<1>5. CASE Tick
  BY <1>5 DEF Tick, IInv, TypeOK, SampleChain, HistoryMatches, IntegratorWindow,
              ArmedHasSample, GapAhead
<1>6. CASE UNCHANGED vars
  BY <1>6 DEF vars, IInv, TypeOK, SampleChain, HistoryMatches, IntegratorWindow,
              ArmedHasSample, GapAhead
<1> QED
  BY <1>1, <1>2, <1>3, <1>4, <1>5, <1>6 DEF Next

-----------------------------------------------------------------------------
(* The theorems *)

LEMMA Invariance == Spec => []IInv
<1> QED
  BY InitIInv, NextIInv, PTL DEF Spec

\* Every reachable state is well typed.
THEOREM TypeCorrect == Spec => []TypeOK
<1>1. IInv => TypeOK
  BY DEF IInv
<1> QED
  BY <1>1, Invariance, PTL

\* What the core has recorded since its last disarm or init is always one
\* unbroken run of the sensor, and the core remembers its end: no sample is
\* recorded twice, out of order or across a gap longer than MaxDt.
THEOREM SampleChainHolds == Spec => [](SampleChain /\ HistoryMatches)
<1>1. IInv => SampleChain /\ HistoryMatches
  BY DEF IInv
<1> QED
  BY <1>1, Invariance, PTL

\* The controller always holds exactly the sensor time of the present flight.
THEOREM IntegratorWindowHolds == Spec => []IntegratorWindow
<1>1. IInv => IntegratorWindow
  BY DEF IInv
<1> QED
  BY <1>1, Invariance, PTL

\* A step out of FAILSAFE goes to DISARMED, by an explicit disarm or init or
\* by a recorded sample with a low arm request that does not lie behind a gap.
THEOREM LatchHoldsAlways == Spec => LatchHolds
<1> DEFINE Release ==
      core.state = "FAILSAFE" /\ core'.state # "FAILSAFE" =>
         /\ core'.state = "DISARMED"
         /\ \/ last'.op \in {"init", "disarm"}
            \/ /\ last'.op = "step" /\ ~last'.arm
               /\ Len(log') = Len(log) + 1
               /\ gap # 0 => log'[Len(log')].ts < gap
<1>1. IInv /\ [Next]_vars => [Release]_vars
  <2> SUFFICES ASSUME IInv, [Next]_vars PROVE Release \/ UNCHANGED vars
    OBVIOUS
  <2>0. core \in Core /\ now \in Nat /\ log \in Seq(Entry)
    BY DEF IInv, TypeOK
  <2>1. CASE Reinitialise
    BY <2>1, InitialCoreTyped DEF Reinitialise
  <2>2. CASE DisarmCall
    BY <2>0, <2>2, DisarmReturns DEF DisarmCall
  <2>3. CASE StepRefused
    <3> SUFFICES ASSUME NEW s \in Offered, NEW g \in Guidance,
                        Admission(core, s, now) # "OK", StepWith(s, g, {}, "Idle")
                 PROVE  Release
      BY <2>3 DEF StepRefused
    <3>1. core'.state = "FAILSAFE"
      BY <2>0, OfferedAreSamples, RefusedReturns DEF StepWith
    <3> QED
      BY <3>1
  <2>4. CASE StepRecorded
    <3> SUFFICES ASSUME NEW s \in Offered, NEW g \in Guidance,
                        NEW active \in SUBSET EnabledAiding,
                        NEW answer \in LibraryAnswer(active),
                        Admission(core, s, now) = "OK", StepWith(s, g, active, answer)
                 PROVE  Release
      BY <2>4 DEF StepRecorded
    <3> DEFINE r == FlightStep(core, s, g, active, answer, now)
    <3>1. RecordedOutcome(core, s, g, r)
      BY <2>0, OfferedAreSamples, RecordedReturns
    <3>2. /\ core' = r.core /\ last' = [op |-> "step", arm |-> g.arm]
          /\ log' = Append(log, [seq |-> s.seq, ts |-> s.ts])
      BY DEF StepWith
    <3>3. Len(log') = Len(log) + 1 /\ log'[Len(log')].ts = s.ts
      BY <2>0, <3>2, OfferedAreSamples DEF Entry, Sample
    <3>4. gap # 0 => s.ts < gap
      BY OfferedAreSamples, GapStays
    <3> HIDE DEF r
    <3> QED
      BY <3>1, <3>2, <3>3, <3>4 DEF RecordedOutcome
  <2>5. CASE Tick
    BY <2>5 DEF Tick
  <2> QED
    BY <2>1, <2>2, <2>3, <2>4, <2>5 DEF Next
<1> QED
  BY <1>1, Invariance, PTL DEF Spec, LatchHolds

\* The core implements the interlock: whatever its inputs, its motor requests
\* are live only while armed and a fault silences them until two steps later.
THEOREM Refinement == Spec => ImplementsInterlock
<1>1. Init => IL!Init
  BY DEF Init, IL!Init, InitialCore, SafeOutput
<1>2. IInv /\ [Next]_vars => [IL!Next]_<<core.state, out.motors # "Zero">>
  <2> SUFFICES ASSUME IInv, [Next]_vars
               PROVE  IL!Next \/ UNCHANGED <<core.state, out.motors # "Zero">>
    OBVIOUS
  <2> USE DEF IL!Next, IL!Engage, IL!Trip, IL!StandDown, IL!Reset
  <2>0. core \in Core /\ now \in Nat /\ core.state \in FlightState
    BY DEF IInv, TypeOK, Core
  <2>1. CASE Reinitialise
    BY <2>1, InitialCoreTyped DEF Reinitialise
  <2>2. CASE DisarmCall
    BY <2>0, <2>2, DisarmReturns DEF DisarmCall
  <2>3. CASE StepRefused
    <3> SUFFICES ASSUME NEW s \in Offered, NEW g \in Guidance,
                        Admission(core, s, now) # "OK", StepWith(s, g, {}, "Idle")
                 PROVE  IL!Trip
      BY <2>3 DEF StepRefused
    <3> QED
      BY <2>0, OfferedAreSamples, RefusedReturns DEF StepWith
  <2>4. CASE StepRecorded
    <3> SUFFICES ASSUME NEW s \in Offered, NEW g \in Guidance,
                        NEW active \in SUBSET EnabledAiding,
                        NEW answer \in LibraryAnswer(active),
                        Admission(core, s, now) = "OK", StepWith(s, g, active, answer)
                 PROVE  IL!Next
      BY <2>4 DEF StepRecorded
    <3> DEFINE r == FlightStep(core, s, g, active, answer, now)
    <3>1. RecordedOutcome(core, s, g, r)
      BY <2>0, OfferedAreSamples, RecordedReturns
    <3>2. core' = r.core /\ out' = r.out
      BY DEF StepWith
    <3> HIDE DEF r
    <3> QED
      BY <2>0, <3>1, <3>2 DEF RecordedOutcome, FlightState
  <2>5. CASE Tick
    BY <2>5 DEF Tick
  <2>6. CASE UNCHANGED vars
    BY <2>6 DEF vars
  <2> QED
    BY <2>1, <2>2, <2>3, <2>4, <2>5, <2>6 DEF Next
<1> QED
  BY <1>1, <1>2, Invariance, PTL DEF Spec, ImplementsInterlock, IL!Spec

=============================================================================
