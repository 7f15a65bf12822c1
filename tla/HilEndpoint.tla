----------------------------- MODULE HilEndpoint ------------------------------
(***************************************************************************)
(* The host-HIL flight endpoint, application/hil/flight_endpoint.c, and    *)
(* what the nRF5340 image does with a complete frame                       *)
(* (platforms/nordic/nrf5340/host_hil_endpoint/src/main.c, process_frame): *)
(* decode, follow the session, step the core, encode the answer.           *)
(*                                                                         *)
(* A frame that reaches these functions passed the parser's CRC.  Its body *)
(* is "malformed" when asr_fc_hil_decode_sensor_guidance refuses it (also  *)
(* a frame of the other type).  The decoder tests in float what the core   *)
(* tests again in double, so on the edge the core may still refuse what    *)
(* was decoded: the body is "inaccurate" when the core finds the sample    *)
(* unusable (mostly for an accuracy below its minimum), "unguided" when it *)
(* finds the guidance invalid, and "good" otherwise.                       *)
(***************************************************************************)
EXTENDS FlightCore

Body == {"good", "inaccurate", "unguided", "malformed"}

\* Session 0 and time stamp 0 do not decode; sequence number 0 does.
Frame ==
    [session : Nat \ {0}, seq : Nat, ts : Nat \ {0}, arm : BOOLEAN,
     body : Body]

\* asr_fc_hil_flight_endpoint_t; no frame has session 0.
Endpoint == [core : Core, session : Nat]

\* asr_fc_hil_flight_output_t
Response ==
    [session : Nat, ack : Nat, result : StepResult, state : FlightState,
     motors : Motors]

\* The zeroed structure of a call that does not answer.
NoResponse ==
    [session |-> 0, ack |-> 0, result |-> "OK", state |-> "DISARMED",
     motors |-> "Zero"]

\* asr_fc_hil_flight_endpoint_init
BootEndpoint == [core |-> InitialCore, session |-> 0]

\* The received time is the device's own time of the step.
SampleOf(f, now) ==
    [seq |-> f.seq, ts |-> f.ts, recv |-> now, usable |-> f.body # "inaccurate"]

GuidanceOf(f) == [arm |-> f.arm, valid |-> f.body # "unguided"]

\* Mutation: a new session keeps the core of the old one.
KeepCore(e, f) == e.core

\* A frame of another session re-initialises the core first.
SessionCore(e, f) == IF f.session = e.session THEN e.core ELSE InitialCore

\* asr_fc_hil_flight_endpoint_step on a frame that does not decode
Undecoded(e) ==
    [endpoint |-> [e EXCEPT !.core = Disarm(e.core)], response |-> NoResponse]

\* ... and on one that does
Stepped(e, f, answer, now) ==
    LET r == FlightStep(SessionCore(e, f), SampleOf(f, now), GuidanceOf(f), {},
                        answer, now)
    IN  [endpoint |-> [core |-> r.core, session |-> f.session],
         response |-> [session |-> f.session, ack |-> f.seq, result |-> r.result,
                       state |-> r.out.state, motors |-> r.out.motors]]

EndpointStep(e, f, answer, now) ==
    IF f.body = "malformed" THEN Undecoded(e) ELSE Stepped(e, f, answer, now)

-----------------------------------------------------------------------------
(* process_frame *)

\* What asr_fc_hil_encode_flight_output accepts.  "narrow" is false when a
\* double of the response overflows its float on the wire.
Encodable(response, narrow) ==
    /\ response.ack # 0
    /\ response.motors # "Wrapped"
    /\ response.state = "ARMED" => narrow

\* Mutation: nothing is done about an answer that does not encode.
Unanswered(e) == [endpoint |-> e, response |-> NoResponse]

\* An answer that cannot be sent disarms the core.
Unsent(e) ==
    [endpoint |-> [e EXCEPT !.core = Disarm(e.core)], response |-> NoResponse]

ProcessFrame(e, f, answer, narrow, now) ==
    LET r == EndpointStep(e, f, answer, now)
    IN  IF r.response = NoResponse \/ Encodable(r.response, narrow)
        THEN r
        ELSE Unsent(r.endpoint)

=============================================================================
