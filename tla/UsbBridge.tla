------------------------------ MODULE UsbBridge -------------------------------
(***************************************************************************)
(* The motor link of the W530 bench: the command source on the nRF5340     *)
(* (hil_command_source/src/main.c), the bridge process on the host         *)
(* (tools/hil_usb_bridge.c) and the motor sink on the KV31F                *)
(* (hil_motor_sink/src/main.c), joined by two serial ports.                *)
(*                                                                         *)
(* The bridge is one thread that polls both ports, reads a chunk from each *)
(* and writes every frame it lets through to the other port, waiting for   *)
(* room as long as it takes.  A frame that the bridge cannot parse or      *)
(* decode is only counted, so a damaged frame is a lost one here.  The     *)
(* source does not read its port and the telemetry frames differ in        *)
(* nothing the bridge looks at: they are counted.                          *)
(***************************************************************************)
EXTENDS Integers, Sequences

CONSTANTS
    Modulus,       \* 2^32, the sequence numbers
    MotorCount,    \* ASR_FC_MOTOR_COUNT
    Session,       \* session identifiers; HilSession is the source's
    HilSession,
    PortCapacity,  \* how many commands the source's port buffers
    SinkCapacity,  \* how many frames the sink's port buffers each way
    MaxFaults,     \* how often a line or a port misbehaves
    MaxReboots     \* how often the source restarts

ASSUME BridgeAssumption ==
    /\ Modulus \in Nat \ {0} /\ Modulus % 2 = 0
    /\ MotorCount \in Nat \ {0} /\ Modulus % MotorCount = 0
    /\ HilSession \in Session
    /\ PortCapacity \in Nat /\ SinkCapacity \in Nat
    /\ MaxFaults \in Nat /\ MaxReboots \in Nat

VARIABLES
    source,    \* the source: its next sequence number and, as history, its boots
    toBridge,  \* commands on the way to the bridge
    bridge,    \* the bridge process
    toSink,    \* commands on the way to the sink
    toHost,    \* how many telemetry frames are on the way to the bridge
    faults,    \* how often a line or a port has misbehaved
    last,      \* history: the last command written in this run of the bridge
    refused    \* history: stale refusals in a row, of one boot's commands

vars == <<source, toBridge, bridge, toSink, toHost, faults, last, refused>>

historyVars == <<last, refused>>

\* asr_fc_motor_command_t with its sequence number; "boot" is history.
Command ==
    [session : Session, seq : 0..(Modulus - 1), armed : BOOLEAN, boot : 0..MaxReboots]

NoCommand == [session |-> HilSession, seq |-> 0, armed |-> TRUE, boot |-> 0]

\* The source numbers the commands of its motors round robin from 1 on.
MotorOf(c) == (c.seq - 1) % MotorCount

SelectedMotor == 0

\* What write_all may be busy with.
Writing == {"nothing", "command", "telemetry"}

TypeOK ==
    /\ source \in [next : 0..(Modulus - 1), boot : 0..MaxReboots]
    /\ toBridge \in Seq(Command) /\ Len(toBridge) <= PortCapacity
    /\ bridge \in [phase : {"poll", "commands", "telemetry", "exited"},
                   running : BOOLEAN, sinkReady : BOOLEAN,
                   input : Seq(Command), telemetry : 0..SinkCapacity,
                   writing : Writing, frame : Command,
                   initialized : BOOLEAN, session : Session, sequence : 0..(Modulus - 1)]
    /\ toSink \in Seq(Command) /\ Len(toSink) <= SinkCapacity
    /\ toHost \in 0..SinkCapacity
    /\ faults \in 0..MaxFaults
    /\ last \in Command
    /\ refused \in [boot : 0..MaxReboots, count : Nat]

\* main, up to its loop
StartedBridge ==
    [phase |-> "poll", running |-> TRUE, sinkReady |-> FALSE,
     input |-> <<>>, telemetry |-> 0, writing |-> "nothing", frame |-> NoCommand,
     initialized |-> FALSE, session |-> HilSession, sequence |-> 0]

Init ==
    /\ source = [next |-> 1, boot |-> 0]
    /\ toBridge = <<>> /\ toSink = <<>> /\ toHost = 0
    /\ bridge = StartedBridge
    /\ faults = 0
    /\ last = NoCommand
    /\ refused = [boot |-> 0, count |-> 0]

-----------------------------------------------------------------------------
(* The order of commands *)

\* Mutation: the comparison does not follow the wrap.
BehindPlain(sequence, latest) == sequence <= latest

\* (int32_t)(sequence - latest) <= 0
Behind(sequence, latest) ==
    LET d == (sequence - latest) % Modulus IN d = 0 \/ d >= Modulus \div 2

\* Mutation: the order of commands is not looked at.
AlwaysNew(b, c) == TRUE

\* sequence_is_new, its verdict ...
IsNew(b, c) ==
    ~b.initialized \/ b.session # c.session \/ ~Behind(c.seq, b.sequence)

\* ... and what it remembers of a new command.
Ordered(b, c) ==
    [b EXCEPT !.initialized = TRUE, !.session = c.session, !.sequence = c.seq]

Stale(b, c) == ~c.armed /\ ~IsNew(b, c)

\* bridge_commands on one decoded command
Consider(b, c) ==
    IF c.armed \/ Stale(b, c) THEN b
    ELSE [Ordered(b, c) EXCEPT !.writing = "command", !.frame = c]

-----------------------------------------------------------------------------
(* The source *)

\* Mutation: the number does not wrap.
FollowingWide(sequence) == sequence + 1

Following(sequence) == (sequence + 1) % Modulus

\* One command of the loop.  Its period is long enough for a bridge that
\* runs to keep room in its port; with no bridge the command vanishes.
SourceSend ==
    /\ IF bridge.phase = "exited" THEN UNCHANGED toBridge
       ELSE /\ Len(toBridge) < PortCapacity
            /\ toBridge' = Append(toBridge,
                  [session |-> HilSession, seq |-> source.next, armed |-> FALSE,
                   boot |-> source.boot])
    /\ source' = [source EXCEPT !.next = Following(@)]
    /\ UNCHANGED <<bridge, toSink, toHost, faults, historyVars>>

\* The numbering restarts, the session does not change.
SourceReboot ==
    /\ source.boot < MaxReboots
    /\ source' = [next |-> 1, boot |-> source.boot + 1]
    /\ UNCHANGED <<toBridge, bridge, toSink, toHost, faults, historyVars>>

-----------------------------------------------------------------------------
(* The bridge *)

ToFirst(n, s) == SubSeq(s, 1, n)
FromNext(n, s) == SubSeq(s, n + 1, Len(s))

\* Mutation: the loop does not look at running.
PollUnstoppable ==
    /\ bridge.phase = "poll"
    /\ toBridge # <<>> \/ toHost > 0
    /\ \E n \in 0..Len(toBridge) :
          /\ toBridge # <<>> => n > 0
          /\ bridge' = [bridge EXCEPT !.phase = "commands", !.sinkReady = toHost > 0,
                                      !.input = ToFirst(n, toBridge)]
          /\ toBridge' = FromNext(n, toBridge)

\* poll() says which ports have input; the chunk of commands is read at once.
Poll ==
    /\ bridge.phase = "poll" /\ bridge.running
    /\ toBridge # <<>> \/ toHost > 0
    /\ \E n \in 0..Len(toBridge) :
          /\ toBridge # <<>> => n > 0
          /\ bridge' = [bridge EXCEPT !.phase = "commands", !.sinkReady = toHost > 0,
                                      !.input = ToFirst(n, toBridge)]
          /\ toBridge' = FromNext(n, toBridge)

BridgePoll == Poll /\ UNCHANGED <<source, toSink, toHost, faults, historyVars>>

\* The end of main: the ports close, and what the source's held is gone.
\* Frames for or from the sink may still be on the wire and arrive later.
Exit ==
    /\ bridge' = [StartedBridge EXCEPT !.phase = "exited", !.running = FALSE]
    /\ toBridge' = <<>>
    /\ last' = NoCommand
    /\ refused' = [boot |-> 0, count |-> 0]
    /\ UNCHANGED <<source, toSink, toHost>>

BridgeStop ==
    /\ bridge.phase = "poll" /\ ~bridge.running
    /\ Exit
    /\ UNCHANGED faults

\* The next command of the chunk.
BridgeCommand ==
    /\ bridge.phase = "commands" /\ bridge.writing = "nothing"
    /\ bridge.input # <<>>
    /\ LET c == Head(bridge.input) IN
       /\ bridge' = [Consider(bridge, c) EXCEPT !.input = Tail(@)]
       /\ refused' = IF ~Stale(bridge, c) THEN [boot |-> c.boot, count |-> 0]
                     ELSE [boot |-> c.boot,
                           count |-> IF c.boot = refused.boot THEN refused.count + 1 ELSE 1]
    /\ UNCHANGED <<source, toBridge, toSink, toHost, faults, last>>

\* Mutation: the port of the sink is never read.
TurnDeaf ==
    bridge' = [bridge EXCEPT !.phase = "poll"] /\ UNCHANGED toHost

\* After the commands the telemetry, if poll() saw any.
Turn ==
    IF bridge.sinkReady
    THEN \E n \in 1..toHost :
            /\ bridge' = [bridge EXCEPT !.phase = "telemetry", !.telemetry = n]
            /\ toHost' = toHost - n
    ELSE /\ bridge' = [bridge EXCEPT !.phase = "poll"]
         /\ UNCHANGED toHost

BridgeTurn ==
    /\ bridge.phase = "commands" /\ bridge.writing = "nothing"
    /\ bridge.input = <<>>
    /\ Turn
    /\ UNCHANGED <<source, toBridge, toSink, faults, historyVars>>

\* The next telemetry frame of the chunk, or the end of the round.
BridgeTelemetry ==
    /\ bridge.phase = "telemetry" /\ bridge.writing = "nothing"
    /\ bridge' = IF bridge.telemetry > 0
                 THEN [bridge EXCEPT !.telemetry = @ - 1, !.writing = "telemetry"]
                 ELSE [bridge EXCEPT !.phase = "poll"]
    /\ UNCHANGED <<source, toBridge, toSink, toHost, faults, historyVars>>

\* write_all comes to its end: for the sink's port, once there is room.
BridgeWrite ==
    /\ bridge.phase # "exited" /\ bridge.writing # "nothing"
    /\ bridge' = [bridge EXCEPT !.writing = "nothing", !.frame = NoCommand]
    /\ IF bridge.writing = "command"
       THEN /\ Len(toSink) < SinkCapacity
            /\ toSink' = Append(toSink, bridge.frame)
            /\ last' = bridge.frame
       ELSE UNCHANGED <<toSink, last>>
    /\ UNCHANGED <<source, toBridge, toHost, faults, refused>>

\* SIGINT or SIGTERM
BridgeSignal ==
    /\ bridge.phase # "exited" /\ bridge.running
    /\ bridge' = [bridge EXCEPT !.running = FALSE]
    /\ UNCHANGED <<source, toBridge, toSink, toHost, faults, historyVars>>

\* An error or a hang-up of a port ends the loop.
BridgeFail ==
    /\ faults < MaxFaults
    /\ faults' = faults + 1
    /\ bridge.phase # "exited"
    /\ Exit

\* A new run flushes the sink's port.
BridgeStart ==
    /\ bridge.phase = "exited"
    /\ bridge' = StartedBridge
    /\ toSink' \in {<<>>, toSink}
    /\ toHost' \in 0..toHost
    /\ UNCHANGED <<source, toBridge, faults, historyVars>>

-----------------------------------------------------------------------------
(* The sink and the lines *)

\* A telemetry frame for each command of the selected motor; the sink does
\* not wait for the host to read it.
SinkReceive ==
    /\ toSink # <<>>
    /\ toSink' = Tail(toSink)
    /\ toHost' = IF MotorOf(Head(toSink)) = SelectedMotor /\ toHost < SinkCapacity
                 THEN toHost + 1 ELSE toHost
    /\ UNCHANGED <<source, toBridge, bridge, faults, historyVars>>

Without(s, i) == SubSeq(s, 1, i - 1) \o SubSeq(s, i + 1, Len(s))

\* A command is damaged or lost, repeated, or joined by one of another sender
\* that is armed.
LineFault ==
    /\ faults < MaxFaults
    /\ faults' = faults + 1
    /\ \/ /\ \E i \in 1..Len(toBridge) : toBridge' = Without(toBridge, i)
          /\ UNCHANGED toSink
       \/ /\ \E i \in 1..Len(toSink) : toSink' = Without(toSink, i)
          /\ UNCHANGED toBridge
       \/ /\ Len(toBridge) < PortCapacity
          /\ \E i \in 1..Len(toBridge) :
                toBridge' = ToFirst(i, toBridge) \o FromNext(i - 1, toBridge)
          /\ UNCHANGED toSink
       \/ /\ bridge.phase # "exited" /\ Len(toBridge) < PortCapacity
          /\ \E s \in Session, seq \in 0..(Modulus - 1) :
                toBridge' = Append(toBridge, [session |-> s, seq |-> seq, armed |-> TRUE,
                                              boot |-> source.boot])
          /\ UNCHANGED toSink
    /\ UNCHANGED <<source, bridge, toHost, historyVars>>

\* The telemetry frame the bridge comes to does not parse or decode.
TelemetryFault ==
    /\ faults < MaxFaults
    /\ faults' = faults + 1
    /\ bridge.phase = "telemetry" /\ bridge.writing = "nothing" /\ bridge.telemetry > 0
    /\ bridge' = [bridge EXCEPT !.telemetry = @ - 1]
    /\ UNCHANGED <<source, toBridge, toSink, toHost, historyVars>>

-----------------------------------------------------------------------------

BridgeStep == BridgePoll \/ BridgeStop \/ BridgeCommand \/ BridgeTurn
                \/ BridgeTelemetry \/ BridgeWrite

Next ==
    \/ SourceSend \/ SourceReboot
    \/ BridgeStep \/ BridgeSignal \/ BridgeFail \/ BridgeStart
    \/ SinkReceive \/ LineFault \/ TelemetryFault

\* The loops of the three programs go on; write_all gets room because the
\* sink's port always drains.  Nobody has to restart a bridge.
Fairness == WF_vars(SourceSend) /\ WF_vars(BridgeStep) /\ WF_vars(SinkReceive)

Spec == Init /\ [][Next]_vars /\ Fairness

-----------------------------------------------------------------------------
(* Properties *)

\* docs/architecture.md: the bridge refuses armed or stale commands.  Within
\* a run it writes commands in the order they were issued, none twice and
\* none armed, and as long as the source does not restart it leaves out no
\* more of them than the line did.
ForwardsInOrder ==
    [][BridgeWrite /\ bridge.writing = "command" =>
         LET c == bridge.frame IN
         /\ ~c.armed
         /\ last # NoCommand =>
              \/ c.boot > last.boot
              \/ /\ c.boot = last.boot
                 /\ (c.seq - last.seq) % Modulus \in 1..(1 + MaxFaults)]_vars

\* The line loses fewer commands than half of the number space.
FewFaults == MaxFaults + 1 < Modulus \div 2

\* A restarted source numbers from 1 again in the same session and is refused
\* until it has passed the old numbers: for at most half of them and one and
\* the repeats, whatever the old number was.  Where the line could lose half
\* of the numbers, a gap in the new ones may lead into the refused half again.
OutageBounded == FewFaults => refused.count <= Modulus \div 2 + 1 + MaxFaults

\* While the bridge stays up, telemetry for new commands keeps coming back,
\* also across the wrap of the sequence numbers and after a restart of the
\* source.
Up == bridge.running /\ bridge.phase # "exited"

KeepsFlowing == <>[]Up => []<>(bridge.writing = "telemetry")

\* A bridge that is told to stop exits, whatever it is doing.
StopsWhenAsked == ~bridge.running ~> bridge.phase = "exited"

=============================================================================
