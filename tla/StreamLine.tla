------------------------------ MODULE StreamLine ------------------------------
(***************************************************************************)
(* A parser of StreamParser.tla at the end of a serial line.  The sender   *)
(* writes whole frames; the line loses or damages bytes and brings noise   *)
(* between the frames.  The receiver is the loop of host_hil_endpoint's    *)
(* main: an error disarms the core, a complete frame decides anew whether  *)
(* it is armed.                                                            *)
(***************************************************************************)
EXTENDS StreamParser

CONSTANT Frames  \* the frames the sender writes

ASSUME FramesAssumption == \A f \in Frames : Wellformed(f)

VARIABLES
    parser,
    status,   \* what the last push returned
    frame,    \* the frame it delivered, <<>> when there was none
    armed,    \* the core is armed
    whole,    \* the frame being sent, <<>> between frames
    sent,     \* how many of its bytes have left
    fate,     \* history: what became of it so far
    arrived,  \* history: the last bytes that arrived since the last delivery
    lost      \* history: plain frames in a row that arrived undamaged in vain

vars == <<parser, status, frame, armed, whole, sent, fate, arrived, lost>>

\* "synced" found the parser outside any frame, "late" did not; "hit" was
\* synced and had a byte damaged, "cut" lost a byte or was hit when late.
Fate == {"synced", "late", "hit", "cut"}

\* An open buffer holds both magic bytes, so it waits for at most MaxFrame - 2
\* more; a frame is lost when at least one byte of it is among these.
LossBound == (MaxFrame - 3) \div (HeaderSize + CrcSize) + 1

TypeOK ==
    /\ parser \in [buffer : Seq(Byte), expected : Nat]
    /\ Len(parser.buffer) < MaxFrame
    /\ status \in Status
    /\ frame \in Seq(Byte) /\ Len(frame) <= Capacity
    /\ armed \in BOOLEAN
    /\ whole \in Frames \cup {<<>>} /\ sent \in 0..Len(whole)
    /\ fate \in Fate
    /\ arrived \in Seq(Byte) /\ Len(arrived) <= MaxFrame
    /\ lost \in Nat

Init ==
    /\ parser = Empty
    /\ status = "OK" /\ frame = <<>>
    /\ armed = FALSE
    /\ whole = <<>> /\ sent = 0
    /\ fate = "synced"
    /\ arrived = <<>>
    /\ lost = 0

LastBytes(s) == IF Len(s) <= MaxFrame THEN s ELSE Tail(s)

\* The loop of main for one byte.
Receive(byte) ==
    LET r == Push(parser, byte) IN
    /\ parser' = r.parser
    /\ status' = r.status
    /\ frame' = r.frame
    /\ armed' \in IF r.status # "OK" THEN {FALSE}
                  ELSE IF r.frame # <<>> THEN BOOLEAN ELSE {armed}
    /\ arrived' = IF r.frame # <<>> THEN <<>> ELSE LastBytes(Append(arrived, byte))

LastByte == sent + 1 = Len(whole)

\* Behind its first byte a frame may hold the first magic byte anywhere, as
\* the session id 0x41535231 of every command does, and even both magic bytes,
\* when the header they seem to begin ends within the frame and is refused.
Plain(f) ==
    \A i \in 2..(Len(f) - 1) :
        f[i] = Magic0 /\ f[i + 1] = Magic1 =>
            LET last == i + HeaderSize - 1
            IN  last <= Len(f) /\ HeaderStatus(SubSeq(f, i, last)) # "OK"

\* One more byte of the frame has left the sender.
Proceed ==
    IF LastByte THEN whole' = <<>> /\ sent' = 0
                ELSE whole' = whole /\ sent' = sent + 1

Begin ==
    /\ whole = <<>>
    /\ whole' \in Frames
    /\ sent' = 0
    /\ fate' = IF Len(parser.buffer) <= 1 THEN "synced" ELSE "late"
    /\ lost' = IF Plain(whole') THEN lost ELSE 0
    /\ UNCHANGED <<parser, status, frame, armed, arrived>>

Arrive ==
    /\ whole # <<>>
    /\ Receive(whole[sent + 1])
    /\ Proceed
    /\ lost' = IF ~LastByte \/ fate \in {"hit", "cut"} \/ ~Plain(whole) THEN lost
               ELSE IF frame' = whole \/ Len(whole) > Capacity THEN 0 ELSE lost + 1
    /\ UNCHANGED fate

Damage ==
    /\ whole # <<>>
    /\ \E byte \in Byte \ {whole[sent + 1]} : Receive(byte)
    /\ Proceed
    /\ fate' = IF fate = "synced" THEN "hit" ELSE "cut"
    /\ lost' = 0

Drop ==
    /\ whole # <<>>
    /\ Proceed
    /\ fate' = "cut"
    /\ lost' = 0
    /\ UNCHANGED <<parser, status, frame, armed, arrived>>

Noise ==
    /\ whole = <<>>
    /\ \E byte \in Byte : Receive(byte)
    /\ lost' = 0
    /\ UNCHANGED <<whole, sent, fate>>

Next == Begin \/ Arrive \/ Damage \/ Drop \/ Noise

Spec == Init /\ [][Next]_vars

-----------------------------------------------------------------------------
(* Properties *)

\* The buffer never fills: before each byte there is room for it, so the
\* parser's own guard for a full buffer is never taken.
BufferBounded ==
    IF parser.expected = 0
    THEN Len(parser.buffer) < HeaderSize
    ELSE /\ parser.expected <= MaxFrame
         /\ Len(parser.buffer) \in HeaderSize..(parser.expected - 1)

\* docs/architecture.md: a frame is exposed only when it is complete and its
\* version, length and CRC pass.
FramesWellformed == frame # <<>> => Wellformed(frame)

\* The bytes of a delivered frame arrived one after the other, and none of
\* them belongs to an earlier delivery.
IsSuffix(f, s) ==
    /\ Len(f) <= Len(s)
    /\ f = SubSeq(s, Len(s) - Len(f) + 1, Len(s))

DeliversWhatArrived ==
    [][\A byte \in Byte :
         Receive(byte) /\ frame' # <<>> =>
            IsSuffix(frame', LastBytes(Append(arrived, byte)))]_vars

\* A frame that meets a parser outside any frame and arrives undamaged
\* raises no error and is delivered with its last byte, whatever the noise
\* before it looked like.
IntactIsDelivered ==
    [][Arrive /\ fate = "synced" =>
         IF ~LastByte THEN status' = "OK" /\ frame' = <<>>
         ELSE IF Len(whole) <= Capacity THEN frame' = whole
         ELSE status' = "BUFFER_TOO_SMALL"]_vars

\* After noise or damage, frames that arrive undamaged one after the other are
\* lost only as long as one open buffer can swallow them.  A frame that itself
\* looks like the beginning of another one, which is not plain, starts the
\* count anew as noise does: the parser may take up its inside.
Recovers == lost <= LossBound

\* host_hil_endpoint/README.md: "Duplicate, stale, corrupt, or invalid frames
\* cannot retain an armed state."  So when the last byte of a frame that had
\* a byte damaged has arrived and the parser is done with it, holding no part
\* of it and delivering nothing, the core is not armed.
CorruptFrameDisarms ==
    [][(Arrive \/ Damage) /\ LastByte /\ fate' = "hit"
        /\ parser' = Empty /\ frame' = <<>> => ~armed']_vars

=============================================================================
