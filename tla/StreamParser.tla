----------------------------- MODULE StreamParser -----------------------------
(***************************************************************************)
(* The byte-stream parser of both links, asr_fc_hil_parser_push in         *)
(* application/protocol/hil_link.c and asr_fc_motor_link_parser_push in    *)
(* motor_link.c: the same function up to the second magic byte, the types  *)
(* and the sizes, which are constants here.  A frame is a header (two      *)
(* magic bytes, version, type, payload length, then the sequence number),  *)
(* the payload and the CRC.  The fields that are two bytes wide on the     *)
(* wire, the length and the CRC, are one byte here.                        *)
(***************************************************************************)
EXTENDS Integers, Sequences

CONSTANTS
    Byte,            \* what a byte may be
    Magic0, Magic1,  \* the first two bytes of a frame
    Version,
    Types,           \* the frame types of the link
    HeaderSize,
    MaxPayload,
    Capacity,        \* the size of the caller's frame buffer
    Crc(_)           \* the CRC of a sequence of bytes

ASSUME LayoutAssumption ==
    /\ Byte \subseteq Nat
    /\ Magic0 \in Byte /\ Magic1 \in Byte /\ Magic0 # Magic1
    /\ HeaderSize \in Nat /\ HeaderSize >= 5
    /\ MaxPayload \in Nat /\ Capacity \in Nat

CrcSize == 1
MaxFrame == HeaderSize + MaxPayload + CrcSize

Status == {"OK", "VERSION_MISMATCH", "INVALID_FRAME", "CRC_FAILURE", "BUFFER_TOO_SMALL"}

\* What encode_header and finish_frame put together.
Wellformed(f) ==
    /\ f \in Seq(Byte) /\ Len(f) > HeaderSize
    /\ f[1] = Magic0 /\ f[2] = Magic1 /\ f[3] = Version /\ f[4] \in Types
    /\ f[5] <= MaxPayload /\ Len(f) = HeaderSize + f[5] + CrcSize
    /\ f[Len(f)] = Crc(SubSeq(f, 1, Len(f) - 1))

\* The parser: the bytes it holds and, once it has seen a header, the size
\* of the frame (0 before).
Empty == [buffer |-> <<>>, expected |-> 0]

\* Mutation: no byte is looked at again.
ForgetByte(byte) == Empty

\* parser_resync
Resync(byte) ==
    [buffer |-> IF byte = Magic0 THEN <<byte>> ELSE <<>>, expected |-> 0]

\* What a push returns: a status and, when a frame is ready, the frame.
Silent(p) == [parser |-> p, status |-> "OK", frame |-> <<>>]

Refused(byte, status) == [parser |-> Resync(byte), status |-> status, frame |-> <<>>]

\* Mutation: the length in the header is not checked.
HeaderWithoutLength(buffer) ==
    IF buffer[3] # Version THEN "VERSION_MISMATCH"
    ELSE IF buffer[4] \notin Types THEN "INVALID_FRAME"
    ELSE "OK"

HeaderStatus(buffer) ==
    IF buffer[3] # Version THEN "VERSION_MISMATCH"
    ELSE IF buffer[5] > MaxPayload \/ buffer[4] \notin Types THEN "INVALID_FRAME"
    ELSE "OK"

\* Mutation: after a delivery the last byte may begin the next frame.
CompleteResyncing(buffer, byte) ==
    IF buffer[Len(buffer)] # Crc(SubSeq(buffer, 1, Len(buffer) - 1))
    THEN Refused(byte, "CRC_FAILURE")
    ELSE [parser |-> Resync(byte), status |-> "OK", frame |-> buffer]

\* Mutation: the size of the caller's buffer is not looked at.
CompleteOverflowing(buffer, byte) ==
    IF buffer[Len(buffer)] # Crc(SubSeq(buffer, 1, Len(buffer) - 1))
    THEN Refused(byte, "CRC_FAILURE")
    ELSE [parser |-> Empty, status |-> "OK", frame |-> buffer]

\* Mutation: the CRC is not compared.
CompleteUnchecked(buffer, byte) ==
    [parser |-> Empty, status |-> "OK", frame |-> buffer]

\* The last byte of the expected size has come.
Complete(buffer, byte) ==
    IF buffer[Len(buffer)] # Crc(SubSeq(buffer, 1, Len(buffer) - 1))
    THEN Refused(byte, "CRC_FAILURE")
    ELSE IF Capacity < Len(buffer)
    THEN [parser |-> Empty, status |-> "BUFFER_TOO_SMALL", frame |-> <<>>]
    ELSE [parser |-> Empty, status |-> "OK", frame |-> buffer]

\* From the third byte on: buffer already holds the new byte.
Extended(expected, buffer, byte) ==
    IF Len(buffer) = HeaderSize
    THEN IF HeaderStatus(buffer) # "OK"
         THEN Refused(byte, HeaderStatus(buffer))
         ELSE Silent([buffer |-> buffer, expected |-> HeaderSize + buffer[5] + CrcSize])
    ELSE IF expected = 0 \/ Len(buffer) < expected
         THEN Silent([buffer |-> buffer, expected |-> expected])
         ELSE Complete(buffer, byte)

\* Mutation: a second first magic byte in a row is dropped.
PushForgetful(p, byte) ==
    IF p.buffer = <<>> THEN Silent(Resync(byte))
    ELSE IF Len(p.buffer) = 1 /\ byte # Magic1 THEN Silent(Empty)
    ELSE IF Len(p.buffer) = 1 THEN Silent([p EXCEPT !.buffer = Append(@, byte)])
    ELSE Extended(p.expected, Append(p.buffer, byte), byte)

Push(p, byte) ==
    IF p.buffer = <<>> THEN Silent(Resync(byte))
    ELSE IF Len(p.buffer) = 1
    THEN IF byte # Magic1 THEN Silent(Resync(byte))
         ELSE Silent([p EXCEPT !.buffer = Append(@, byte)])
    ELSE IF Len(p.buffer) >= MaxFrame THEN Refused(byte, "INVALID_FRAME")
    ELSE Extended(p.expected, Append(p.buffer, byte), byte)

=============================================================================
