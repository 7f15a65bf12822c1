------------------------------ MODULE FlightCore ------------------------------
(***************************************************************************)
(* The flight core, application/flight/flight_core.c: the arming and       *)
(* failsafe interlock around the attitude controller and the mixer.  The C *)
(* functions take the core by pointer and are called by several programs,  *)
(* so each is an operator here that maps a core and its arguments to the   *)
(* new core (and, for a step, to what it returns).  FlightSystem and       *)
(* HilEndpoint build their actions from them.                              *)
(*                                                                         *)
(* Data: a sample's reports are reduced to whether they pass the validity  *)
(* test, a motor vector to the class of its worst channel, the controller  *)
(* to the sensor time it has integrated since its last reset.  The         *)
(* configuration is one that asr_fc_flight_init accepts.                   *)
(***************************************************************************)
EXTENDS Integers

CONSTANTS
    MinDt,          \* config.min_dt_s, in ticks of the sensor clock
    MaxDt,          \* config.max_dt_s
    SensorTimeout,  \* config.sensor_timeout_us, in ticks of the host clock
    EnabledAiding   \* config.enabled_aiding_mask, as the set of its sources

ASSUME ConfigAssumption ==
    /\ MinDt \in Nat \ {0} /\ MaxDt \in Nat /\ MinDt <= MaxDt
    /\ SensorTimeout \in Nat \ {0}

FlightState == {"DISARMED", "ARMED", "FAILSAFE"}

StepResult ==
    {"OK", "SENSOR_INVALID", "SENSOR_STALE", "TIMING_INVALID", "CONTROL_FAILED",
     "MIXER_FAILED", "AIDING_FAILED", "FAILSAFE_LATCHED"}

\* asr_fc_flight_core_t; "integrated" stands for the PID's memory.
Core == [state : FlightState, hasSample : BOOLEAN, lastSeq : Nat, lastTs : Nat,
         integrated : Nat]

-----------------------------------------------------------------------------
(* The libraries the core calls (control system and mixer, not in src/).  *)

\* What cs_mixer_mix asks of the worst of the four rotors.
Demand == {"Idle", "Drive", "Above", "Negative", "NonFinite"}

\* The first library call that fails, or the demand when none does; the
\* aiding callback is called only when an enabled source is valid.
LibraryAnswer(active) ==
    Demand \cup {"ControllerFails", "MixerFails"}
           \cup (IF active = {} THEN {} ELSE {"AidingFails"})

-----------------------------------------------------------------------------
(* Output *)

\* Mutation: without the clamp.
MotorQ15Unclamped(d) ==
    CASE d = "Idle" -> "Zero"
      [] d = "Drive" -> "Scaled"
      [] d = "Above" -> "Overflow"
      [] d = "Negative" -> "Wrapped"

\* The request on the wire: clamped above, and for a negative demand the
\* conversion of lround's result to uint16_t wraps past 32767.
MotorQ15(d) ==
    CASE d = "Idle" -> "Zero"
      [] d = "Drive" -> "Scaled"
      [] d = "Above" -> "Full"
      [] d = "Negative" -> "Wrapped"

Motors == {"Zero", "Scaled", "Full", "Wrapped"}

FlightOutput == [state : FlightState, motors : Motors, aided : SUBSET EnabledAiding]

SafeOutput(state) == [state |-> state, motors |-> "Zero", aided |-> {}]

-----------------------------------------------------------------------------
(* asr_fc_flight_init with an accepted configuration, asr_fc_flight_disarm *)

InitialCore ==
    [state |-> "DISARMED", hasSample |-> FALSE, lastSeq |-> 0, lastTs |-> 0,
     integrated |-> 0]

Disarm(c) == [c EXCEPT !.state = "DISARMED", !.hasSample = FALSE, !.integrated = 0]

-----------------------------------------------------------------------------
(* asr_fc_flight_step *)

\* asr_fc_ceva_sample_t: ts on the sensor clock, recv on the host clock;
\* "usable" when attitude, accuracy and vectors pass the validity test.
Sample == [seq : Nat, ts : Nat, recv : Nat, usable : BOOLEAN]

\* asr_fc_guidance_t: "valid" when quaternion, rate and thrust are in range.
Guidance == [arm : BOOLEAN, valid : BOOLEAN]

Fresh(s, now) == s.recv # 0 /\ s.recv <= now /\ now - s.recv <= SensorTimeout

InOrder(c, s) == c.hasSample => s.seq > c.lastSeq /\ s.ts > c.lastTs

\* The interval handed to the controller; its bounds are only tested when
\* there is an earlier sample.
Dt(c, s) == IF c.hasSample THEN s.ts - c.lastTs ELSE MinDt

\* Mutation: the bounds on dt are not tested.
AdmissionWithoutGapCheck(c, s, now) ==
    IF ~s.usable THEN "SENSOR_INVALID"
    ELSE IF ~Fresh(s, now) THEN "SENSOR_STALE"
    ELSE IF ~InOrder(c, s) THEN "SENSOR_INVALID"
    ELSE "OK"

\* The verdict on the sample, in the order of the early returns.
Admission(c, s, now) ==
    IF ~s.usable THEN "SENSOR_INVALID"
    ELSE IF ~Fresh(s, now) THEN "SENSOR_STALE"
    ELSE IF ~InOrder(c, s) THEN "SENSOR_INVALID"
    ELSE IF Dt(c, s) \notin MinDt..MaxDt THEN "TIMING_INVALID"
    ELSE "OK"

\* The verdict on guidance, aiding, controller and mixer.
Control(g, answer) ==
    CASE ~g.valid \/ answer = "ControllerFails"            -> "CONTROL_FAILED"
      [] g.valid /\ answer = "AidingFails"                 -> "AIDING_FAILED"
      [] g.valid /\ answer \in {"MixerFails", "NonFinite"} -> "MIXER_FAILED"
      [] OTHER                                             -> "OK"

Returned(c, out, result) == [core |-> c, out |-> out, result |-> result]

\* Mutation: the PID is not reset when a step disarms.
EnterDisarmedKeepsController(c) ==
    Returned([c EXCEPT !.state = "DISARMED"], SafeOutput("DISARMED"), "OK")

\* Mutation: the output structure keeps what was computed before the fault.
EnterFailsafeLive(c, result) ==
    Returned([c EXCEPT !.state = "FAILSAFE", !.integrated = 0],
             [state |-> "FAILSAFE", motors |-> "Scaled", aided |-> {}], result)

\* enter_failsafe and enter_disarmed: both reset the controller.
EnterFailsafe(c, result) ==
    Returned([c EXCEPT !.state = "FAILSAFE", !.integrated = 0],
             SafeOutput("FAILSAFE"), result)

EnterDisarmed(c) ==
    Returned([c EXCEPT !.state = "DISARMED", !.integrated = 0],
             SafeOutput("DISARMED"), "OK")

\* Arming from DISARMED resets the controller before its first update.
Integrated(c, dt) == IF c.state = "ARMED" THEN c.integrated + dt ELSE dt

Drive(c, dt, active, answer) ==
    Returned([c EXCEPT !.state = "ARMED", !.integrated = Integrated(c, dt)],
             [state |-> "ARMED", motors |-> MotorQ15(answer), aided |-> active],
             "OK")

Record(c, s) == [c EXCEPT !.lastSeq = s.seq, !.lastTs = s.ts, !.hasSample = TRUE]

\* Mutation: FAILSAFE does not hold back an arm request.
CommandWithoutLatch(n, dt, g, active, answer) ==
    CASE ~g.arm -> EnterDisarmed(n)
      [] g.arm /\ Control(g, answer) # "OK" -> EnterFailsafe(n, Control(g, answer))
      [] OTHER -> Drive(n, dt, active, answer)

\* What a recorded sample n leads to: the latch, the arm request, control.
Command(n, dt, g, active, answer) ==
    CASE ~g.arm -> EnterDisarmed(n)
      [] g.arm /\ n.state = "FAILSAFE" ->
            Returned(n, SafeOutput("FAILSAFE"), "FAILSAFE_LATCHED")
      [] g.arm /\ n.state # "FAILSAFE" /\ Control(g, answer) # "OK" ->
            EnterFailsafe(n, Control(g, answer))
      [] OTHER -> Drive(n, dt, active, answer)

\* Mutation: a sample is recorded before its interval is tested.
FlightStepRecordingFirst(c, s, g, active, answer, now) ==
    CASE Admission(c, s, now) = "TIMING_INVALID" ->
            EnterFailsafe(Record(c, s), "TIMING_INVALID")
      [] Admission(c, s, now) \notin {"OK", "TIMING_INVALID"} ->
            EnterFailsafe(c, Admission(c, s, now))
      [] OTHER -> Command(Record(c, s), Dt(c, s), g, active, answer)

FlightStep(c, s, g, active, answer, now) ==
    IF Admission(c, s, now) # "OK"
    THEN EnterFailsafe(c, Admission(c, s, now))
    ELSE Command(Record(c, s), Dt(c, s), g, active, answer)

=============================================================================
