------------------------------ MODULE CevaProbe -------------------------------
(***************************************************************************)
(* The live flight probe (ceva_flight_probe/src/main.c): rotation and gyro *)
(* reports of the CEVA hub come to sensor_event, which updates the adapter *)
(* of CevaAdapter.tla and steps the flight core of FlightCore.tla with     *)
(* each complete sample.  The probe asks to arm from the first sample on   *)
(* and never takes the request back.                                       *)
(*                                                                         *)
(* The hub and its library are not in src/.  Left alone the hub sends each *)
(* kind of report once a period, in the order of the time stamps; the      *)
(* phase between the two is anything.  A fault is a report that is lost,   *)
(* late, repeated, unsound or unreliable, a probe that is held up, or a    *)
(* controller that fails.                                                  *)
(***************************************************************************)
EXTENDS FlightCore, CevaAdapter

CONSTANTS
    Period,    \* SENSOR_PERIOD_US
    MaxTime,   \* where the sensor stops
    MaxFaults  \* how often something goes wrong

\* What the constants of the probe satisfy.
ASSUME ProbeAssumption ==
    /\ Period \in MinDt..MaxDt /\ Period <= 2 * MaxSkew
    /\ Period <= MaxAge /\ MaxAge <= SensorTimeout
    /\ MaxTime \in Nat /\ MaxFaults \in Nat

VARIABLES
    adapter,
    core,
    guided,   \* guidance_initialized; the request to arm comes with it
    rejected, \* rejected_reports
    clock,    \* the host's clock, set to the sensor's when the probe starts
    due,      \* the time stamp of the next report of each kind
    late,     \* reports that are held up on their way
    faults,   \* how often something has gone wrong
    sample,   \* history: the last sample the core was stepped with
    parts     \* history: the time stamps of the two reports in it

vars == <<adapter, core, guided, rejected, clock, due, late, faults, sample, parts>>

Taken == [seq : Nat, ts : Nat, recv : Nat, reliable : BOOLEAN, attitude : Attitude]

TypeOK ==
    /\ adapter \in Adapter
    /\ core \in Core
    /\ guided \in BOOLEAN
    /\ rejected \in Nat
    /\ clock \in Nat
    /\ due \in [Kind -> Nat]
    /\ late \subseteq [kind : Kind, ts : Nat]
    /\ faults \in 0..MaxFaults
    /\ sample \in Taken
    /\ parts \in [Kind -> Nat]

\* The first gyro report may come well after the first rotation.
Init ==
    /\ adapter = InitialAdapter
    /\ core = InitialCore
    /\ guided = FALSE
    /\ rejected = 0
    /\ clock = 1
    /\ \E first \in 1..(2 * Period) :
          due = [k \in Kind |-> IF k = "gyro" THEN first ELSE 1]
    /\ late = {}
    /\ faults = 0
    /\ sample = [seq |-> 0, ts |-> 0, recv |-> 0, reliable |-> FALSE, attitude |-> 0]
    /\ parts = [k \in Kind |-> 0]

-----------------------------------------------------------------------------
(* The probe *)

SampleFor(t) == [seq |-> t.seq, ts |-> t.ts, recv |-> t.recv, usable |-> t.reliable]

\* The setpoint is the first attitude, and stays.
ProbeGuidance == [arm |-> TRUE, valid |-> TRUE]

\* Mutation: a sample is only looked for after a gyro report.
ReadyAfterGyro(a, kind, now) == kind = "gyro" /\ Verdict(a, now) = "OK"

\* Whatever kind the report was.
Ready(a, kind, now) == Verdict(a, now) = "OK"

\* process_complete_sample on an adapter that yields one
StepCore(a, answer, now) ==
    LET t == TakenSample(a) IN
    /\ adapter' = Emit(a)
    /\ core' = FlightStep(core, SampleFor(t), ProbeGuidance, {}, answer, now).core
    /\ guided' = TRUE
    /\ sample' = t
    /\ parts' = [k \in Kind |-> a[k].ts]

\* sensor_event at time "at"; it comes to the sample "pause" later.
SensorEvent(kind, r, sound, at, pause, answer) ==
    LET accepted == Accepts(adapter, kind, r, sound)
        a == Update(adapter, kind, r)
    IN
    /\ clock' = at + pause
    /\ rejected' = IF accepted THEN rejected ELSE rejected + 1
    /\ IF accepted /\ Ready(a, kind, at + pause)
       THEN StepCore(a, answer, at + pause)
       ELSE /\ adapter' = IF accepted THEN a ELSE adapter
            /\ UNCHANGED <<core, guided, sample, parts>>

-----------------------------------------------------------------------------
(* The hub *)

Next1(kind) == \A k \in Kind : due[kind] <= due[k]

Advance(kind) == due' = [due EXCEPT ![kind] = @ + Period]

Works == {"Idle", "Drive", "Above", "Negative"}

\* A report of this time stamp comes in; "well" when nothing is wrong.
Incoming(kind, ts, well) ==
    LET at == Later(clock, ts) IN
    \E attitude \in Attitude, reliable, sound \in BOOLEAN,
       pause \in {0, MaxAge + 1}, answer \in LibraryAnswer({}) :
        /\ well => reliable /\ sound /\ pause = 0 /\ answer \in Works
        /\ kind = "gyro" => attitude = 0 /\ reliable
        /\ SensorEvent(kind, [ts |-> ts, recv |-> at, attitude |-> attitude,
                              reliable |-> reliable], sound, at, pause, answer)

Arrive ==
    \E kind \in Kind :
        /\ Next1(kind) /\ due[kind] <= MaxTime
        /\ Advance(kind)
        /\ Incoming(kind, due[kind], TRUE)
        /\ UNCHANGED <<late, faults>>

\* It arrives, but something is wrong with it or with the probe.
ArriveBadly ==
    /\ faults < MaxFaults /\ faults' = faults + 1
    /\ \E kind \in Kind :
        /\ Next1(kind) /\ due[kind] <= MaxTime
        /\ Advance(kind)
        /\ Incoming(kind, due[kind], FALSE)
        /\ UNCHANGED late

\* It does not arrive, or not now.
HoldUp ==
    /\ faults < MaxFaults /\ faults' = faults + 1
    /\ \E kind \in Kind :
        /\ Next1(kind) /\ due[kind] <= MaxTime
        /\ Advance(kind)
        /\ late' = late \cup {[kind |-> kind, ts |-> due[kind]]}
        /\ UNCHANGED <<adapter, core, guided, rejected, clock, sample, parts>>

ArriveLate ==
    \E r \in late :
        /\ late' = late \ {r}
        /\ Incoming(r.kind, r.ts, TRUE)
        /\ UNCHANGED <<due, faults>>

\* The newest report of a kind once more.
Repeat ==
    /\ faults < MaxFaults /\ faults' = faults + 1
    /\ \E kind \in Kind :
        /\ adapter[kind] # NoReport
        /\ Incoming(kind, adapter[kind].ts, TRUE)
        /\ UNCHANGED <<due, late>>

\* The sensor has stopped.
Finished ==
    /\ \A kind \in Kind : due[kind] > MaxTime
    /\ UNCHANGED vars

Next == Arrive \/ ArriveBadly \/ HoldUp \/ ArriveLate \/ Repeat \/ Finished

Spec == Init /\ [][Next]_vars

-----------------------------------------------------------------------------
(* Properties *)

\* A sample that the adapter lets through is fresh and in order for the
\* core: the core refuses it only for its accuracy or for a gap before it.
RefusedOnlyForCause ==
    [][sample' # sample =>
         Admission(core, SampleFor(sample'), clock') \in
            IF sample'.reliable THEN {"OK", "TIMING_INVALID"} ELSE {"SENSOR_INVALID"}]_vars

\* Each sample is built from two reports that no earlier sample used, and its
\* attitude continues that of the sample before it, whatever signs the hub
\* chose and however many samples were refused in between.
SamplesFollow ==
    [][sample' # sample =>
         /\ \A k \in Kind : parts'[k] > parts[k]
         /\ sample.seq # 0 => ~Obtuse(sample'.attitude, sample.attitude)]_vars

\* With a hub left alone the probe flies, whatever the phase between the two
\* reports: no sample is refused, ...
UndisturbedFlies == faults = 0 => core.state # "FAILSAFE"

\* ... and each report leaves a sample behind that is at most a period old;
\* only in the first two periods there may be none yet.
FlowsSteadily ==
    faults = 0 =>
        clock - core.lastTs <= IF core.hasSample THEN Period ELSE 2 * Period

\* A fault of the core is final: docs/nrf5340-live-ceva-probe-2026-08-26.md
\* calls it latched, and no request of the probe releases it.
FailsafeIsFinal == [][core.state = "FAILSAFE" => core'.state = "FAILSAFE"]_vars

\* docs/nrf5340-live-ceva-probe-2026-08-26.md, "Next gate": "Inject stale,
\* repeated, skewed, and invalid reports on hardware.  Confirm that each
\* fault produces a latched safe state."  So a complete sample that comes
\* after a report was rejected finds the core latched, or latches it.
RejectedIsLatched ==
    [][sample' # sample /\ rejected > 0 => core'.state = "FAILSAFE"]_vars

=============================================================================
