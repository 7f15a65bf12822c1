----------------------------- MODULE FlightSystem -----------------------------
(***************************************************************************)
(* The flight core of FlightCore.tla under any caller.  The callers in     *)
(* src/ (the HIL endpoint, the CEVA probe, the benchmark) step it with     *)
(* samples of a sensor that has its own clock, over a path that loses,     *)
(* repeats, delays and reorders them, against a host clock; they may also  *)
(* disarm or re-initialise it between any two steps.                       *)
(***************************************************************************)
EXTENDS FlightCore, Sequences

CONSTANTS
    MaxSequence,    \* the largest sequence number a sample carries
    MaxSensorTime,  \* where the sensor clock stops
    MaxHostTime     \* where the host clock stops

ASSUME BoundAssumption ==
    MaxSequence \in Nat /\ MaxSensorTime \in Nat /\ MaxHostTime \in Nat

VARIABLES
    core,       \* the core
    out,        \* the output structure of the caller, as the last step left it
    last,       \* the last call: what it was and its arm request
    now,        \* the host's monotonic clock
    log,        \* history: the samples recorded since the last disarm or init
    windowStart,\* history: the sensor time the armed controller integrates from
    gap         \* history: the earliest sensor time refused for coming more
                \* than MaxDt after the last sample recorded, 0 for none

vars == <<core, out, last, now, log, windowStart, gap>>

\* The samples a caller may present: of any age, repeated or out of order,
\* also one received "after" now.
Offered ==
    [seq : 0..MaxSequence, ts : 0..MaxSensorTime, recv : 0..(MaxHostTime + 1),
     usable : BOOLEAN]

Call ==
    [op : {"init", "disarm", "step"}, arm : BOOLEAN]

Entry == [seq : Nat, ts : Nat]

TypeOK ==
    /\ core \in Core
    /\ out \in FlightOutput
    /\ last \in Call
    /\ now \in Nat
    /\ log \in Seq(Entry)
    /\ windowStart \in Int
    /\ gap \in Nat

Init ==
    /\ core = InitialCore
    /\ out = SafeOutput("DISARMED")
    /\ last = [op |-> "init", arm |-> FALSE]
    /\ now = 0
    /\ log = <<>>
    /\ windowStart = 0
    /\ gap = 0

-----------------------------------------------------------------------------

\* asr_fc_flight_init: the caller's output structure is not touched.
Reinitialise ==
    /\ core' = InitialCore
    /\ last' = [op |-> "init", arm |-> FALSE]
    /\ log' = <<>> /\ gap' = 0
    /\ UNCHANGED <<out, now, windowStart>>

\* asr_fc_flight_disarm: neither is it here.
DisarmCall ==
    /\ core' = Disarm(core)
    /\ last' = [op |-> "disarm", arm |-> FALSE]
    /\ log' = <<>> /\ gap' = 0
    /\ UNCHANGED <<out, now, windowStart>>

\* The earliest time refused for its gap counts, until a
\* delayed sample from before it is recorded.
GapAfter(s) ==
    CASE Admission(core, s, now) = "OK" -> IF s.ts < gap THEN 0 ELSE gap
      [] Admission(core, s, now) = "TIMING_INVALID" /\ s.ts > core.lastTs + MaxDt ->
            IF gap # 0 /\ gap < s.ts THEN gap ELSE s.ts
      [] OTHER -> gap

\* asr_fc_flight_step, with the history of what the core recorded.
StepWith(s, g, active, answer) ==
    LET r == FlightStep(core, s, g, active, answer, now)
    IN  /\ core' = r.core
        /\ out' = r.out
        /\ last' = [op |-> "step", arm |-> g.arm]
        /\ log' = IF Admission(core, s, now) = "OK"
                  THEN Append(log, [seq |-> s.seq, ts |-> s.ts]) ELSE log
        /\ windowStart' = IF r.core.state = "ARMED" /\ core.state # "ARMED"
                          THEN s.ts - Dt(core, s) ELSE windowStart
        /\ gap' = GapAfter(s)
        /\ UNCHANGED now

\* The sample is refused: the libraries are not reached.
StepRefused ==
    \E s \in Offered, g \in Guidance :
        /\ Admission(core, s, now) # "OK"
        /\ StepWith(s, g, {}, "Idle")

StepRecorded ==
    \E s \in Offered :
        /\ Admission(core, s, now) = "OK"
        /\ \E g \in Guidance, active \in SUBSET EnabledAiding :
              \E answer \in LibraryAnswer(active) : StepWith(s, g, active, answer)

Tick ==
    /\ now < MaxHostTime
    /\ now' = now + 1
    /\ UNCHANGED <<core, out, last, log, windowStart, gap>>

Next == Reinitialise \/ DisarmCall \/ StepRefused \/ StepRecorded \/ Tick

Spec == Init /\ [][Next]_vars

-----------------------------------------------------------------------------
(* Properties *)

\* The samples the core has recorded since its last disarm or init are one
\* unbroken run of the sensor: sequence numbers and time stamps strictly
\* increase and consecutive samples are MinDt to MaxDt apart.  So no sample
\* counts twice, and after a gap longer than MaxDt none counts at all.
Consecutive(a, b) == a.seq < b.seq /\ b.ts - a.ts \in MinDt..MaxDt

SampleChain ==
    \A i \in 1..(Len(log) - 1) : Consecutive(log[i], log[i + 1])

\* The core remembers exactly the end of that run (FlightSystemProofs proves it).
HistoryMatches ==
    /\ core.hasSample = (log # <<>>)
    /\ core.hasSample =>
          log[Len(log)] = [seq |-> core.lastSeq, ts |-> core.lastTs]

\* While armed the controller has integrated the sensor time from one
\* interval before the arming sample to the last recorded one, without hole
\* or overlap; in every other state it holds nothing, so no flight starts
\* with the integrator of an earlier one.
IntegratorWindow ==
    core.integrated =
        IF core.state = "ARMED" THEN core.lastTs - windowStart ELSE 0

\* FAILSAFE is left for DISARMED only, and only by a disarm, by an init or by
\* a step that asks not to arm and whose sample extends the run of samples.
\* After a gap that is a delayed sample from within it: no sample from behind
\* the gap ever gets the core out, since the last one recorded stays.
LatchHolds ==
    [][core.state = "FAILSAFE" /\ core'.state # "FAILSAFE" =>
         /\ core'.state = "DISARMED"
         /\ \/ last'.op \in {"init", "disarm"}
            \/ /\ last'.op = "step" /\ ~last'.arm
               /\ Len(log') = Len(log) + 1
               /\ gap # 0 => log'[Len(log')].ts < gap]_vars

\* The core implements the interlock of Interlock.tla.
IL == INSTANCE Interlock WITH phase <- core.state, live <- out.motors # "Zero"

ImplementsInterlock == IL!Spec

=============================================================================
