------------------------------- MODULE HostHil --------------------------------
(***************************************************************************)
(* The host-HIL system: a host that runs the plant, the nRF5340 image that *)
(* runs one controller step per frame, and the serial line between them.   *)
(*                                                                         *)
(* The device is host_hil_endpoint/src/main.c: one loop that feeds bytes   *)
(* to the parser, disarms the core when the parser reports an error and    *)
(* processes each complete frame.  The line keeps the order but may damage *)
(* what it carries: either the parser notices ("noise"), or the bytes are  *)
(* swallowed without an error, as when the first byte of a frame is hit.   *)
(* The host is not in src/: it is the lockstep peer that the contract      *)
(* describes, which sends a frame, waits for the answer, and on a timeout  *)
(* repeats the frame or goes on with the next one.                         *)
(***************************************************************************)
EXTENDS HilEndpoint, Sequences

CONSTANTS
    MaxSession,   \* how many sessions the host opens
    MaxSequence,  \* how many frames it numbers in one session
    MaxTime,      \* where the simulated time stops
    FrameCapacity,\* how many frames are on the line to the device
    ReplyCapacity \* how many responses are on the line to the host

ASSUME HilBoundAssumption ==
    /\ MaxSession \in Nat /\ MaxSequence \in Nat /\ MaxTime \in Nat
    /\ FrameCapacity \in Nat /\ ReplyCapacity \in Nat

VARIABLES
    endpoint,   \* the device: its flight core and active session
    uptime,     \* 0 in the device's first millisecond, 1 afterwards
    toDevice,   \* the line to the device: frames and noise, in order
    toHost,     \* the line to the host: responses, in order
    host,       \* the host: its session, next sequence number, simulated time
    pending,    \* the frame the host waits on, NoFrame when it does not
    reported,   \* history: the last response the device wrote since it booted
    recorded    \* history: the last frame the core recorded since it booted

vars == <<endpoint, uptime, toDevice, toHost, host, pending, reported, recorded>>

deviceVars == <<endpoint, uptime, reported, recorded>>
hostVars == <<host, pending>>

NoFrame == [session |-> 0, seq |-> 0, ts |-> 0, arm |-> FALSE, body |-> "malformed"]

\* What the parser reports as an error.
Noise == NoFrame

\* On the way back a response carries the frame it answers, as history.
Reply == [response : Response, to : Frame]

TypeOK ==
    /\ endpoint \in Endpoint
    /\ uptime \in {0, 1}
    /\ toDevice \in Seq(Frame \cup {Noise})
    /\ toHost \in Seq(Reply)
    /\ host \in [session : Nat \ {0}, seq : Nat, ts : Nat \ {0}]
    /\ pending \in Frame \cup {NoFrame}
    /\ reported \in Response
    /\ recorded \in Frame \cup {NoFrame}

Init ==
    /\ endpoint = BootEndpoint
    /\ uptime = 0
    /\ toDevice = <<>>
    /\ toHost = <<>>
    /\ host \in [session : {1}, seq : {0, 1}, ts : {1}]
    /\ pending = NoFrame
    /\ reported = NoResponse
    /\ recorded = NoFrame

-----------------------------------------------------------------------------
(* The host *)

\* What a frame may say.  Nothing of a malformed body is read, and of an
\* unguided one only with an arm request.
Content ==
    {c \in [arm : BOOLEAN, body : Body] :
        /\ c.body = "malformed" => ~c.arm
        /\ c.body = "unguided" => c.arm}

\* The next frame: one simulated tick and one sequence number on.
HostSend ==
    /\ pending = NoFrame
    /\ host.seq <= MaxSequence /\ host.ts <= MaxTime
    /\ Len(toDevice) < FrameCapacity
    /\ \E c \in Content :
          LET f == [session |-> host.session, seq |-> host.seq, ts |-> host.ts,
                    arm |-> c.arm, body |-> c.body]
          IN  pending' = f /\ toDevice' = Append(toDevice, f)
    /\ host' = [host EXCEPT !.seq = @ + 1, !.ts = @ + 1]
    /\ UNCHANGED <<deviceVars, toHost>>

\* The answer does not come: the same frame once more, ...
HostRepeat ==
    /\ pending # NoFrame
    /\ Len(toDevice) < FrameCapacity
    /\ toDevice' = Append(toDevice, pending)
    /\ UNCHANGED <<deviceVars, hostVars, toHost>>

\* ... or not at all.
HostGiveUp ==
    /\ pending # NoFrame
    /\ pending' = NoFrame
    /\ UNCHANGED <<deviceVars, host, toDevice, toHost>>

\* A new session restarts the numbering; a host may well start at 0.
HostNewSession ==
    /\ host.session < MaxSession
    /\ \E first \in {0, 1} :
          host' = [host EXCEPT !.session = @ + 1, !.seq = first]
    /\ pending' = NoFrame
    /\ UNCHANGED <<deviceVars, toDevice, toHost>>

\* The host takes the answer to the frame it waits on and drops any other.
Answers(reply, f) ==
    f # NoFrame /\ reply.response.session = f.session /\ reply.response.ack = f.seq

HostReceive ==
    /\ toHost # <<>>
    /\ toHost' = Tail(toHost)
    /\ pending' = IF Answers(Head(toHost), pending) THEN NoFrame ELSE pending
    /\ UNCHANGED <<deviceVars, host, toDevice>>

-----------------------------------------------------------------------------
(* The line *)

\* Damage the parser reports.
Garble ==
    /\ \E i \in 1..Len(toDevice) : toDevice' = [toDevice EXCEPT ![i] = Noise]
    /\ UNCHANGED <<deviceVars, hostVars, toHost>>

\* Damage the parser swallows; what is lost on the way back is just missing.
Without(seq, i) == SubSeq(seq, 1, i - 1) \o SubSeq(seq, i + 1, Len(seq))

LoseFrame ==
    /\ \E i \in 1..Len(toDevice) : toDevice' = Without(toDevice, i)
    /\ UNCHANGED <<deviceVars, hostVars, toHost>>

LoseReply ==
    /\ \E i \in 1..Len(toHost) : toHost' = Without(toHost, i)
    /\ UNCHANGED <<deviceVars, hostVars, toDevice>>

-----------------------------------------------------------------------------
(* The device *)

\* The parser returned an error: main disarms the core.
OnNoise(e) == [e EXCEPT !.core = Disarm(e.core)]

DeviceNoise ==
    /\ toDevice # <<>> /\ Head(toDevice) = Noise
    /\ toDevice' = Tail(toDevice)
    /\ endpoint' = OnNoise(endpoint)
    /\ UNCHANGED <<hostVars, uptime, toHost, reported, recorded>>

\* A complete frame; whether there is an answer is process_frame's decision.
DeviceFrame ==
    /\ toDevice # <<>> /\ Head(toDevice) # Noise
    /\ Len(toHost) < ReplyCapacity
    /\ toDevice' = Tail(toDevice)
    /\ LET f == Head(toDevice) IN
       \E answer \in LibraryAnswer({}), narrow \in BOOLEAN :
          LET r == ProcessFrame(endpoint, f, answer, narrow, uptime) IN
          /\ endpoint' = r.endpoint
          /\ IF r.response = NoResponse
             THEN UNCHANGED <<toHost, reported>>
             ELSE /\ toHost' = Append(toHost, [response |-> r.response, to |-> f])
                  /\ reported' = r.response
          /\ recorded' = IF r.endpoint.core.hasSample
                            /\ Admission(SessionCore(endpoint, f),
                                         SampleOf(f, uptime), uptime) = "OK"
                         THEN f ELSE recorded
    /\ UNCHANGED <<hostVars, uptime>>

\* The first millisecond passes.
DeviceUptime ==
    /\ uptime = 0
    /\ uptime' = 1
    /\ UNCHANGED <<hostVars, endpoint, toDevice, toHost, reported, recorded>>

\* A reset of the board; what was on the line stays there.
DeviceReboot ==
    /\ endpoint' = BootEndpoint
    /\ uptime' = 0
    /\ reported' = NoResponse
    /\ recorded' = NoFrame
    /\ UNCHANGED <<hostVars, toDevice, toHost>>

-----------------------------------------------------------------------------

HostNext ==
    HostSend \/ HostRepeat \/ HostGiveUp \/ HostNewSession \/ HostReceive

LineNext == Garble \/ LoseFrame \/ LoseReply

DeviceNext == DeviceNoise \/ DeviceFrame \/ DeviceUptime \/ DeviceReboot

Next == HostNext \/ LineNext \/ DeviceNext

Spec == Init /\ [][Next]_vars

-----------------------------------------------------------------------------
(* Properties *)

\* An armed core has told the host so: the last response the device wrote
\* acknowledges the very frame the core recorded last, as executed and armed.
\* No frame arms the core silently, and no unsent answer leaves it armed.
ArmedIsReported ==
    endpoint.core.state = "ARMED" =>
        /\ reported.session = endpoint.session
        /\ reported.ack = endpoint.core.lastSeq
        /\ reported.result = "OK" /\ reported.state = "ARMED"

\* The core's history never mixes two sessions.
SessionOwnsHistory ==
    endpoint.core.hasSample =>
        /\ recorded.session = endpoint.session
        /\ recorded.seq = endpoint.core.lastSeq
        /\ recorded.ts = endpoint.core.lastTs

\* Whatever was lost, repeated or restarted, an answer the host accepts
\* answers the frame it waits on, and moves motors only if that frame asked.
AnswerFitsQuestion ==
    \A i \in 1..Len(toHost) :
        Answers(toHost[i], pending) =>
            /\ toHost[i].to = pending
            /\ toHost[i].response.motors # "Zero" =>
                  pending.arm /\ toHost[i].response.result = "OK"

\* docs/host-hil-contract-2026-08-27.md: "Duplicate, corrupt, or invalid
\* input disarms or latches the checked failsafe path."  So the frame that
\* the core recorded last does not leave it armed when it comes once more.
DuplicateDoesNotArm ==
    [][DeviceFrame /\ Head(toDevice) = recorded
         => endpoint'.core.state # "ARMED"]_vars

=============================================================================
