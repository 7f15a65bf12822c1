----------------------------- MODULE CevaAdapter ------------------------------
(***************************************************************************)
(* The CEVA adapter, application/sensors/ceva_fsm300_adapter.c: it pairs   *)
(* the newest rotation report with the newest gyro report into a sample    *)
(* for the flight core.  Its functions are operators here from an adapter  *)
(* to the new adapter.                                                     *)
(*                                                                         *)
(* Attitudes are points of a circle on which opposite points are the same  *)
(* attitude, as a quaternion and its negative are.  A report is "sound"    *)
(* when its values are finite and, for a rotation, of acceptable norm.     *)
(***************************************************************************)
EXTENDS Integers

CONSTANTS
    MaxAge,    \* config.max_component_age_us, in ticks of the host clock
    MaxSkew,   \* config.max_component_skew_us, in ticks of the sensor clock
    Circle     \* how many points the circle has

ASSUME AdapterAssumption ==
    /\ MaxAge \in Nat \ {0} /\ MaxSkew \in Nat \ {0}
    /\ Circle \in Nat \ {0} /\ Circle % 2 = 0

Kind == {"rotation", "gyro"}

Attitude == 0..(Circle - 1)

\* What the adapter keeps of a report: ts on the sensor clock, recv on the
\* host clock.  The attitude and the accuracy of a gyro report mean nothing.
Report == [ts : Nat, recv : Nat, attitude : Attitude, reliable : BOOLEAN]

\* Time stamp 0 is refused, so it says that there is none (has_quaternion,
\* has_gyro).
NoReport == [ts |-> 0, recv |-> 0, attitude |-> 0, reliable |-> FALSE]

\* asr_fc_ceva_adapter_t; "attitude" is the one emitted last, meaningless
\* before the first sample (has_emitted_quaternion).
Adapter ==
    [rotation : Report, gyro : Report, emitted : [Kind -> Nat],
     attitude : Attitude, sequence : Nat]

\* asr_fc_ceva_adapter_init
InitialAdapter ==
    [rotation |-> NoReport, gyro |-> NoReport, emitted |-> [k \in Kind |-> 0],
     attitude |-> 0, sequence |-> 0]

-----------------------------------------------------------------------------
(* asr_fc_ceva_adapter_update_rotation, asr_fc_ceva_adapter_update_gyro *)

Accepts(a, kind, r, sound) == sound /\ r.recv # 0 /\ r.ts > a[kind].ts

Update(a, kind, r) == [a EXCEPT ![kind] = r]

-----------------------------------------------------------------------------
(* asr_fc_ceva_adapter_take_sample *)

Later(i, j) == IF i >= j THEN i ELSE j

BothNew(a) == \A k \in Kind : a[k].ts > a.emitted[k]

InAge(a, now) == \A k \in Kind : a[k].recv <= now /\ now - a[k].recv <= MaxAge

Skew(a) ==
    IF a.rotation.ts >= a.gyro.ts THEN a.rotation.ts - a.gyro.ts
                                  ELSE a.gyro.ts - a.rotation.ts

\* Mutation: the ages are not looked at.
VerdictWithoutAge(a, now) ==
    IF ~BothNew(a) THEN "INCOMPLETE"
    ELSE IF Skew(a) > MaxSkew THEN "COMPONENT_SKEW"
    ELSE "OK"

Verdict(a, now) ==
    IF ~BothNew(a) THEN "INCOMPLETE"
    ELSE IF ~InAge(a, now) THEN "STALE"
    ELSE IF Skew(a) > MaxSkew THEN "COMPONENT_SKEW"
    ELSE "OK"

\* Mutation: the result leaves the circle.
OppositeOutside(q) == q + Circle \div 2

Opposite(q) == (q + Circle \div 2) % Circle

\* A negative dot product.
Obtuse(p, q) == LET d == (p - q) % Circle IN 4 * d > Circle /\ 4 * d < 3 * Circle

\* The sign that continues what was emitted last.
Continued(a) ==
    IF a.sequence # 0 /\ Obtuse(a.rotation.attitude, a.attitude)
    THEN Opposite(a.rotation.attitude) ELSE a.rotation.attitude

\* Mutation: the attitude is remembered as it was reported.
EmitReported(a) ==
    [a EXCEPT !.emitted = [k \in Kind |-> a[k].ts],
              !.attitude = a.rotation.attitude, !.sequence = @ + 1]

\* Mutation: the gyro report may be used again.
EmitKeepsGyro(a) ==
    [a EXCEPT !.emitted["rotation"] = a.rotation.ts,
              !.attitude = Continued(a), !.sequence = @ + 1]

Emit(a) ==
    [a EXCEPT !.emitted = [k \in Kind |-> a[k].ts],
              !.attitude = Continued(a), !.sequence = @ + 1]

\* asr_fc_ceva_sample_t, with its attitude
TakenSample(a) ==
    [seq |-> a.sequence + 1, ts |-> Later(a.rotation.ts, a.gyro.ts),
     recv |-> Later(a.rotation.recv, a.gyro.recv),
     reliable |-> a.rotation.reliable, attitude |-> Continued(a)]

=============================================================================
