------------------------------ MODULE CodecLine -------------------------------
(***************************************************************************)
(* A sender, a line that damages bits and a receiver, with the codecs of   *)
(* LinkCodec.  The line hands on whole frames: the parsers that cut the    *)
(* stream are StreamParser's.  A foreign sender, the host's tools or       *)
(* another version of the image, packs what no encoder of this code lets   *)
(* out, and the receiver may be one for another kind of frame.             *)
(***************************************************************************)
EXTENDS LinkCodec, FiniteSets

CONSTANTS
    Messages,   \* what is sent: records of a kind, a sequence number and values
    Damaged,    \* the messages among them that the line may damage
    Capacity,   \* the sizes of the buffers that encoders are given
    MaxHits,    \* how many bits of a frame the line flips at most
    Span        \* and how far they are apart

ASSUME CodecAssumption ==
    /\ \A m \in Messages :
          m.kind \in Kind /\ m.seq \in Word(4) /\ WellTyped(m.kind, m.values)
    /\ Damaged \subseteq Messages
    /\ Capacity \subseteq Nat /\ MaxHits \in Nat /\ Span \in Nat

VARIABLES
    sent,     \* the message, or NoMessage
    frame,    \* the frame on the line
    hits,     \* history: the bits of it that were flipped
    answer    \* what the encoder or the decoder has returned

codecVars == <<sent, frame, hits, answer>>

NoMessage == [kind |-> "none"]
NoAnswer == [by |-> "none", status |-> "OK"]

CodecInit ==
    /\ sent = NoMessage
    /\ frame = <<>> /\ hits = {}
    /\ answer = NoAnswer

\* Its Booleans are Booleans.
Proper(m) ==
    \A f \in {"armed", "arm_requested"} \cap DOMAIN m.values : m.values[f][1] \in {0, 1}

EncodeMessage(m, capacity) ==
    /\ sent = NoMessage
    /\ Proper(m)
    /\ \E result \in {Encode(m.kind, m.seq, m.values, capacity)} :
          /\ frame' = result.frame
          /\ answer' = [by |-> "encoder", status |-> result.status]
    /\ sent' = m
    /\ UNCHANGED hits

\* A well-formed frame whose payload no encoder would have written.
ForeignMessage(m) ==
    /\ sent = NoMessage
    /\ ~(Proper(m) /\ Encodable(m.kind, m.values))
    /\ frame' = Pack(m.kind, m.seq, m.values)
    /\ sent' = m
    /\ UNCHANGED <<hits, answer>>

Flipped(f, bit) ==
    [f EXCEPT ![PlaceOf(bit)] =
        IF BitOf(f, bit) = 1 THEN @ - WeightOf(bit) ELSE @ + WeightOf(bit)]

OnTheLine == frame # <<>> /\ answer.by \in {"none", "encoder"}

Damage(bit) ==
    /\ OnTheLine /\ sent \in Damaged
    /\ Cardinality(hits) < MaxHits
    /\ \A hit \in hits : bit - hit \in 1..Span
    /\ frame' = Flipped(frame, bit)
    /\ hits' = hits \cup {bit}
    /\ UNCHANGED <<sent, answer>>

DecodeMessage(kind) ==
    /\ OnTheLine
    /\ \E result \in {Decode(kind, frame)} :
          answer' = [by |-> kind, status |-> result.status, seq |-> result.seq,
                     values |-> result.values]
    /\ UNCHANGED <<sent, frame, hits>>

\* The next message, after an answer of the decoder or a refusal to encode.
Finish ==
    /\ \/ answer.by \in Kind
       \/ answer.by = "encoder" /\ answer.status # "OK"
    /\ sent' = NoMessage
    /\ frame' = <<>> /\ hits' = {}
    /\ answer' = NoAnswer

CodecNext ==
    \/ \E m \in Messages : (\E c \in Capacity : EncodeMessage(m, c)) \/ ForeignMessage(m)
    \/ \E bit \in 1..(8 * Len(frame)) : Damage(bit)
    \/ \E kind \in Kind : DecodeMessage(kind)
    \/ Finish

CodecSpec == CodecInit /\ [][CodecNext]_codecVars

-----------------------------------------------------------------------------
(* Property *)

\* tests/test_motor_link.c and test_hil_link.c, for every field, its edges and
\* every place that can be hit: a decoder accepts exactly the undamaged frames
\* of its own kind that an encoder would have written, whoever wrote them, and
\* hands out what was sent.  So no answer of a device is lost because the two
\* ends disagree on a limit, no foreign frame commands what this code could
\* not, and damage to header, payload or CRC is never taken for a message;
\* what is refused leaves nothing in the caller's structure.
DecodesWhatWasSent ==
    answer.by \in Kind =>
        IF /\ hits = {} /\ answer.by = sent.kind
           /\ Proper(sent) /\ Encodable(sent.kind, sent.values)
        THEN /\ answer.status = "OK"
             /\ answer.seq = sent.seq /\ answer.values = sent.values
        ELSE answer.status # "OK" /\ answer.values = Zeroed(answer.by)

=============================================================================
