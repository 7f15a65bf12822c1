--------------------------- MODULE StreamLineProofs ---------------------------
(***************************************************************************)
(* Theorems about the stream parser, for every byte alphabet, header and   *)
(* payload size, CRC and set of frames.  IInv is about the parser and the  *)
(* frame it may be in; LineInv adds the history of the line and how many   *)
(* frames the buffer has swallowed.                                        *)
(***************************************************************************)
EXTENDS StreamLine, SequenceTheorems, TLAPS

USE LayoutAssumption

-----------------------------------------------------------------------------
(* One push *)

\* What the parser knows of the bytes it holds.
Sound(p) ==
    /\ p \in [buffer : Seq(Byte), expected : Nat]
    /\ Len(p.buffer) >= 1 => p.buffer[1] = Magic0
    /\ Len(p.buffer) >= 2 => p.buffer[2] = Magic1
    /\ \/ p.expected = 0 /\ Len(p.buffer) < HeaderSize
       \/ /\ p.buffer[3] = Version /\ p.buffer[4] \in Types
          /\ p.buffer[5] <= MaxPayload
          /\ p.expected = HeaderSize + p.buffer[5] + CrcSize
          /\ HeaderSize <= Len(p.buffer) /\ Len(p.buffer) < p.expected

PushOutcome(r) ==
    /\ Sound(r.parser)
    /\ r.status \in Status
    /\ (r.frame = <<>>) \/ (Wellformed(r.frame) /\ Len(r.frame) <= Capacity)

LEMMA EmptySound == Sound(Empty)
BY DEF Empty, Sound

LEMMA ResyncSound == ASSUME NEW byte \in Byte PROVE Sound(Resync(byte))
<1>1. CASE byte = Magic0
  BY <1>1 DEF Resync, Sound
<1>2. CASE byte # Magic0
  BY <1>2 DEF Resync, Sound
<1> QED
  BY <1>1, <1>2

LEMMA RefusedReturns ==
    ASSUME NEW byte \in Byte, NEW s \in Status PROVE PushOutcome(Refused(byte, s))
BY ResyncSound DEF Refused, PushOutcome

LEMMA SilentReturns == ASSUME NEW p, Sound(p) PROVE PushOutcome(Silent(p))
BY DEF Silent, PushOutcome, Status

LEMMA CompleteReturns ==
    ASSUME NEW byte \in Byte, NEW b \in Seq(Byte), Len(b) > HeaderSize,
           b[1] = Magic0, b[2] = Magic1, b[3] = Version, b[4] \in Types,
           b[5] <= MaxPayload, Len(b) = HeaderSize + b[5] + CrcSize
    PROVE  PushOutcome(Complete(b, byte))
<1>1. CASE b[Len(b)] # Crc(SubSeq(b, 1, Len(b) - 1))
  BY <1>1, RefusedReturns DEF Complete, Status
<1>2. CASE b[Len(b)] = Crc(SubSeq(b, 1, Len(b) - 1)) /\ Capacity < Len(b)
  BY <1>2, EmptySound DEF Complete, PushOutcome, Status
<1>3. CASE b[Len(b)] = Crc(SubSeq(b, 1, Len(b) - 1)) /\ ~(Capacity < Len(b))
  <2>1. Wellformed(b)
    BY <1>3 DEF Wellformed
  <2>2. Complete(b, byte) = [parser |-> Empty, status |-> "OK", frame |-> b]
    BY <1>3 DEF Complete
  <2>3. Len(b) \in Nat
    OBVIOUS
  <2> QED
    BY <1>3, <2>1, <2>2, <2>3, EmptySound DEF PushOutcome, Status
<1> QED
  BY <1>1, <1>2, <1>3

\* The branches of a push, each with its own condition.
LEMMA PushBranches ==
    ASSUME NEW p, NEW byte, p.buffer \in Seq(Byte)
    PROVE  LET n == Len(p.buffer)
               r == Push(p, byte)
               b == Append(p.buffer, byte)
           IN  /\ n \in Nat
               /\ n = 0 => r = Silent(Resync(byte))
               /\ n = 1 /\ byte # Magic1 => r = Silent(Resync(byte))
               /\ n = 1 /\ byte = Magic1 => r = Silent([p EXCEPT !.buffer = b])
               /\ n > 1 /\ n >= MaxFrame => r = Refused(byte, "INVALID_FRAME")
               /\ n > 1 /\ ~(n >= MaxFrame) => r = Extended(p.expected, b, byte)
<1> DEFINE n == Len(p.buffer)  r == Push(p, byte)  b == Append(p.buffer, byte)
<1>1. n \in Nat
  OBVIOUS
<1>2. (p.buffer = <<>> => n = 0) /\ (p.buffer # <<>> => n \in Nat \ {0})
  BY EmptySeq
<1>3. /\ p.buffer = <<>> => r = Silent(Resync(byte))
      /\ p.buffer # <<>> /\ n = 1 /\ byte = Magic1
           => r = Silent([p EXCEPT !.buffer = b])
      /\ p.buffer # <<>> /\ n = 1 /\ byte # Magic1 => r = Silent(Resync(byte))
      /\ p.buffer # <<>> /\ n # 1 /\ n >= MaxFrame => r = Refused(byte, "INVALID_FRAME")
      /\ p.buffer # <<>> /\ n # 1 /\ ~(n >= MaxFrame) => r = Extended(p.expected, b, byte)
  BY DEF Push
<1> HIDE DEF n, r, b
<1>4. n = 0 => p.buffer = <<>>
  BY <1>2
<1>5. n = 1 => p.buffer # <<>>
  BY <1>2
<1>6. n > 1 => p.buffer # <<>> /\ n # 1
  BY <1>1, <1>2
<1>7. /\ n = 0 => r = Silent(Resync(byte))
      /\ n = 1 /\ byte # Magic1 => r = Silent(Resync(byte))
      /\ n = 1 /\ byte = Magic1 => r = Silent([p EXCEPT !.buffer = b])
      /\ n > 1 /\ n >= MaxFrame => r = Refused(byte, "INVALID_FRAME")
      /\ n > 1 /\ ~(n >= MaxFrame) => r = Extended(p.expected, b, byte)
  BY <1>3, <1>4, <1>5, <1>6
<1> QED
  BY <1>1, <1>7 DEF n, r, b

\* Every push keeps the parser sound; so it keeps room for a byte, and what
\* it delivers is a well-formed frame that fits the caller's buffer.
LEMMA PushReturns ==
    ASSUME NEW p, Sound(p), NEW byte \in Byte PROVE PushOutcome(Push(p, byte))
<1> DEFINE b == Append(p.buffer, byte)  n == Len(p.buffer)  r == Push(p, byte)
<1>1. p.buffer \in Seq(Byte) /\ p.expected \in Nat /\ n \in Nat
  BY DEF Sound
<1>2. /\ b \in Seq(Byte) /\ Len(b) = n + 1 /\ b[n + 1] = byte
      /\ \A i \in 1..n : b[i] = p.buffer[i]
  BY <1>1
<1>3. /\ n = 0 => r = Silent(Resync(byte))
      /\ n = 1 /\ byte # Magic1 => r = Silent(Resync(byte))
      /\ n = 1 /\ byte = Magic1 => r = Silent([p EXCEPT !.buffer = b])
      /\ n > 1 /\ n >= MaxFrame => r = Refused(byte, "INVALID_FRAME")
      /\ n > 1 /\ ~(n >= MaxFrame) => r = Extended(p.expected, b, byte)
  BY <1>1, PushBranches
<1>4. /\ n >= 1 => p.buffer[1] = Magic0
      /\ n >= 2 => p.buffer[2] = Magic1
      /\ \/ p.expected = 0 /\ n < HeaderSize
         \/ /\ p.buffer[3] = Version /\ p.buffer[4] \in Types
            /\ p.buffer[5] <= MaxPayload
            /\ p.expected = HeaderSize + p.buffer[5] + CrcSize
            /\ HeaderSize <= n /\ n < p.expected
  BY DEF Sound
<1>5. p = [buffer |-> p.buffer, expected |-> p.expected]
  BY DEF Sound
<1> HIDE DEF b, n, r
<1>6. n = 0 \/ n = 1 \/ n > 1
  BY <1>1
<1>7. CASE n = 0
  BY <1>7, <1>3, ResyncSound, SilentReturns DEF r
<1>8. CASE n = 1 /\ byte # Magic1
  BY <1>8, <1>3, ResyncSound, SilentReturns DEF r
<1>9. CASE n = 1 /\ byte = Magic1
  <2>1. Push(p, byte) = Silent([p EXCEPT !.buffer = b])
    BY <1>9, <1>3 DEF r
  <2> DEFINE q == [p EXCEPT !.buffer = b]
  <2>2. p.expected = 0
    BY <1>9, <1>4
  <2>3. b[1] = Magic0 /\ b[2] = Magic1 /\ Len(b) = 2
    BY <1>2, <1>9, <1>4
  <2>4. q = [buffer |-> b, expected |-> 0]
    BY <1>5, <2>2
  <2>5. b \in Seq(Byte) /\ 0 \in Nat /\ 2 < HeaderSize
    BY <1>2
  <2>6. Sound([buffer |-> b, expected |-> 0])
    BY <2>3, <2>5 DEF Sound
  <2> QED
    BY <2>1, <2>4, <2>6, SilentReturns
<1>10. CASE n > 1 /\ n >= MaxFrame
  BY <1>10, <1>3, RefusedReturns DEF r, Status
<1>11. CASE n > 1 /\ ~(n >= MaxFrame)
  <2>1. Push(p, byte) = Extended(p.expected, b, byte)
    BY <1>11, <1>3 DEF r
  <2>2. b[1] = Magic0 /\ b[2] = Magic1
    <3>1. 1 \in 1..n /\ 2 \in 1..n
      BY <1>1, <1>11
    <3> QED
      BY <1>1, <1>2, <1>11, <1>4, <3>1
  <2>3. CASE Len(b) = HeaderSize /\ HeaderStatus(b) # "OK"
    BY <2>1, <2>3, RefusedReturns DEF Extended, HeaderStatus, Status
  <2>4. CASE Len(b) = HeaderSize /\ HeaderStatus(b) = "OK"
    <3> DEFINE q == [buffer |-> b, expected |-> HeaderSize + b[5] + CrcSize]
    <3>1. Push(p, byte) = Silent(q)
      BY <2>1, <2>4 DEF Extended
    <3>2. b[3] = Version /\ ~(b[5] > MaxPayload) /\ b[4] \in Types
      BY <2>4 DEF HeaderStatus
    <3>3. b[5] \in Nat
      <4>1. 5 \in 1..Len(b)
        BY <1>1, <1>2, <2>4
      <4> QED
        BY <1>2, <4>1, ElementOfSeq
    <3>4. Sound(q)
      BY <1>2, <2>2, <2>4, <3>2, <3>3 DEF Sound, CrcSize
    <3> QED
      BY <3>1, <3>4, SilentReturns
  <2>5. CASE Len(b) # HeaderSize /\ p.expected = 0
    <3> DEFINE q == [buffer |-> b, expected |-> 0]
    <3>1. Push(p, byte) = Silent(q)
      BY <2>1, <2>5 DEF Extended
    <3>2. n < HeaderSize
      BY <1>1, <1>4, <2>5
    <3>3. Sound(q)
      BY <1>1, <1>2, <2>2, <2>5, <3>2 DEF Sound
    <3> QED
      BY <3>1, <3>3, SilentReturns
  <2>6. CASE p.expected # 0
    <3>1. /\ p.buffer[3] = Version /\ p.buffer[4] \in Types
          /\ p.buffer[5] <= MaxPayload
          /\ p.expected = HeaderSize + p.buffer[5] + CrcSize
          /\ HeaderSize <= n /\ n < p.expected
      BY <1>4, <2>6
    <3>2. b[3] = Version /\ b[4] \in Types /\ b[5] <= MaxPayload /\ b[5] = p.buffer[5]
      <4>1. 3 \in 1..n /\ 4 \in 1..n /\ 5 \in 1..n
        BY <1>1, <3>1
      <4>2. b[3] = p.buffer[3] /\ b[4] = p.buffer[4] /\ b[5] = p.buffer[5]
        BY <1>2, <4>1
      <4> QED
        BY <3>1, <4>2
    <3>3. Len(b) # HeaderSize
      BY <1>1, <1>2, <3>1
    <3>4. CASE Len(b) < p.expected
      <4> DEFINE q == [buffer |-> b, expected |-> p.expected]
      <4>1. Push(p, byte) = Silent(q)
        BY <2>1, <3>3, <3>4 DEF Extended
      <4>2. Sound(q)
        BY <1>1, <1>2, <2>2, <3>1, <3>2, <3>4 DEF Sound
      <4> QED
        BY <4>1, <4>2, SilentReturns
    <3>5. CASE ~(Len(b) < p.expected)
      <4>1. Push(p, byte) = Complete(b, byte)
        BY <2>1, <2>6, <3>3, <3>5 DEF Extended
      <4>2. Len(b) = HeaderSize + b[5] + CrcSize /\ Len(b) > HeaderSize
        BY <1>1, <1>2, <3>1, <3>2, <3>5
      <4> QED
        BY <1>2, <2>2, <3>2, <4>1, <4>2, CompleteReturns
    <3> QED
      BY <3>4, <3>5
  <2> QED
    BY <2>3, <2>4, <2>5, <2>6
<1> QED
  BY <1>6, <1>7, <1>8, <1>9, <1>10, <1>11

-----------------------------------------------------------------------------
(* The line *)

\* The parser holds exactly the first k bytes of w.  Before the first byte it
\* may still hold a first magic byte of something else.
Holds(p, w, k) ==
    \/ k = 0 /\ Len(p.buffer) <= 1
    \/ /\ k # 0 /\ p.buffer = SubSeq(w, 1, k)
       /\ p.expected = IF k < HeaderSize THEN 0 ELSE Len(w)

\* What a push returns within w and with its last byte.
HoldsOn(r, w, k) == r.status = "OK" /\ r.frame = <<>> /\ Holds(r.parser, w, k)

Delivers(r, w) ==
    IF Len(w) <= Capacity THEN r.frame = w ELSE r.status = "BUFFER_TOO_SMALL"

\* A frame that found the parser outside any frame and was not disturbed.
Tracks == whole # <<>> /\ fate = "synced" => Holds(parser, whole, sent)

IInv ==
    /\ Sound(parser)
    /\ whole \in Frames \cup {<<>>}
    /\ whole # <<>> => sent \in Nat /\ sent < Len(whole)
    /\ FramesWellformed
    /\ Tracks

LEMMA PrefixReturns ==
    ASSUME NEW S, NEW w \in Seq(S), NEW k \in 0..Len(w)
    PROVE  /\ SubSeq(w, 1, k) \in Seq(S) /\ Len(SubSeq(w, 1, k)) = k
           /\ \A i \in 1..k : SubSeq(w, 1, k)[i] = w[i]
<1>1. \A i \in 1..k : w[i] \in S
  BY ElementOfSeq
<1>2. 1 \in Int /\ k \in Int
  OBVIOUS
<1> QED
  BY <1>1, <1>2, SubSeqProperties

LEMMA PrefixExtends ==
    ASSUME NEW S, NEW w \in Seq(S), NEW k \in Nat, k < Len(w)
    PROVE  Append(SubSeq(w, 1, k), w[k + 1]) = SubSeq(w, 1, k + 1)
OBVIOUS

\* The fields of a frame, without the CRC.
LEMMA FrameFields ==
    ASSUME NEW w, Wellformed(w)
    PROVE  /\ w \in Seq(Byte) /\ Len(w) \in Nat /\ Len(w) > HeaderSize
           /\ w[1] = Magic0 /\ w[2] = Magic1 /\ w[3] = Version /\ w[4] \in Types
           /\ w[5] \in Nat /\ w[5] <= MaxPayload /\ Len(w) = HeaderSize + w[5] + CrcSize
           /\ MaxFrame \in Nat /\ Len(w) <= MaxFrame
<1> DEFINE c == w[5]  n == Len(w)
<1>1. /\ w \in Seq(Byte) /\ n > HeaderSize
      /\ w[1] = Magic0 /\ w[2] = Magic1 /\ w[3] = Version /\ w[4] \in Types
      /\ c <= MaxPayload /\ n = HeaderSize + c + CrcSize
  BY DEF Wellformed
<1>2. n \in Nat
  BY <1>1
<1>3. c \in Nat
  <2>1. 5 \in 1..n
    BY <1>1, <1>2
  <2> QED
    BY <1>1, <2>1, ElementOfSeq
<1> HIDE DEF c, n
<1>4. MaxFrame \in Nat /\ n <= MaxFrame
  BY <1>1, <1>2, <1>3 DEF MaxFrame, CrcSize
<1> QED
  BY <1>1, <1>2, <1>3, <1>4 DEF c, n

LEMMA ParserFields ==
    ASSUME NEW p, Sound(p)
    PROVE  /\ p.buffer \in Seq(Byte) /\ Len(p.buffer) \in Nat
           /\ p = [buffer |-> p.buffer, expected |-> p.expected]
<1>1. p \in [buffer : Seq(Byte), expected : Nat]
  BY DEF Sound
<1> QED
  BY <1>1

\* What the parser does with the next byte of a frame it holds the first k
\* bytes of.
LEMMA PushNext ==
    ASSUME NEW p, Sound(p), NEW w, Wellformed(w), NEW k \in Nat, k < Len(w),
           Holds(p, w, k)
    PROVE  /\ k + 1 < Len(w) => HoldsOn(Push(p, w[k + 1]), w, k + 1)
           /\ k + 1 = Len(w) => Delivers(Push(p, w[k + 1]), w)
<1> DEFINE n == k + 1  b == SubSeq(w, 1, n)  r == Push(p, w[n])  h == Len(p.buffer)
           size == Len(w)
<1>1. /\ w \in Seq(Byte) /\ size \in Nat /\ size > HeaderSize
      /\ w[1] = Magic0 /\ w[2] = Magic1 /\ w[3] = Version /\ w[4] \in Types
      /\ w[5] \in Nat /\ w[5] <= MaxPayload /\ size = HeaderSize + w[5] + CrcSize
      /\ MaxFrame \in Nat /\ size <= MaxFrame
  BY FrameFields
<1>2. k < size /\ n = k + 1 /\ n \in 1..size /\ n \in Nat
  BY <1>1
<1>3. /\ b \in Seq(Byte) /\ Len(b) = n
      /\ \A i \in 1..n : b[i] = w[i]
  <2>1. n \in 0..Len(w)
    BY <1>1, <1>2
  <2> HIDE DEF n
  <2> QED
    BY <1>1, <2>1, PrefixReturns
<1>4. k # 0 => Append(p.buffer, w[n]) = b
  BY <1>1, PrefixExtends DEF Holds
<1>5. n = size => b = w
  BY <1>1, SubSeqFull
<1>6. k # 0 => p.expected = IF k < HeaderSize THEN 0 ELSE size
  BY DEF Holds
<1>7. p = [buffer |-> p.buffer, expected |-> p.expected]
  BY ParserFields
<1>8. h \in Nat /\ (k = 0 => h <= 1) /\ (k # 0 => h = k)
  <2>1. h \in Nat
    BY ParserFields
  <2>2. k # 0 => Len(SubSeq(w, 1, k)) = k
    BY <1>1, <1>2, PrefixReturns
  <2> QED
    BY <2>1, <2>2 DEF Holds
<1>9. /\ h = 0 => r = Silent(Resync(w[n]))
      /\ h = 1 /\ w[n] # Magic1 => r = Silent(Resync(w[n]))
      /\ h = 1 /\ w[n] = Magic1 => r = Silent([p EXCEPT !.buffer = Append(p.buffer, w[n])])
      /\ h > 1 /\ ~(h >= MaxFrame) => r = Extended(p.expected, Append(p.buffer, w[n]), w[n])
  BY PushBranches DEF Sound
<1>10. SUFFICES /\ n < size => HoldsOn(r, w, n)
                /\ n = size => Delivers(r, w)
  OBVIOUS
<1>11. /\ n < size /\ n < HeaderSize /\ r = Silent([buffer |-> b, expected |-> 0])
             => HoldsOn(r, w, n) /\ n # size
       /\ n < size /\ ~(n < HeaderSize) /\ r = Silent([buffer |-> b, expected |-> size])
             => HoldsOn(r, w, n) /\ n # size
  <2>1. n # 0 /\ (n < size => n # size)
    BY <1>1, <1>2
  <2> HIDE DEF r, n, size
  <2> QED
    BY <2>1 DEF HoldsOn, Holds, Silent, b, size
<1>12. /\ n \in Nat /\ n = k + 1 /\ size \in Nat /\ n <= size /\ HeaderSize < size
       /\ Len(b) = n
  BY <1>1, <1>2, <1>3
<1> HIDE DEF n, b, h, r, size
<1>13. CASE k = 0
  <2>1. n = 1 /\ w[n] = Magic0 /\ w[n] # Magic1
    BY <1>1, <1>2, <1>13
  <2>2. b = <<Magic0>>
    BY <1>1, <1>3, <2>1
  <2>3. r = Silent(Resync(w[n]))
    BY <1>8, <1>9, <1>13, <2>1
  <2>4. n < HeaderSize /\ n < size
    BY <1>1, <2>1
  <2>5. r = Silent([buffer |-> b, expected |-> 0])
    BY <2>1, <2>2, <2>3 DEF Resync
  <2> QED
    BY <1>1, <1>11, <2>4, <2>5
<1>14. CASE k = 1
  <2>1. n = 2 /\ n < HeaderSize /\ n < size /\ w[n] = Magic1
    BY <1>1, <1>2, <1>14
  <2>2. p.expected = 0
    BY <1>6, <1>14
  <2>3. h = 1 /\ Append(p.buffer, w[n]) = b
    BY <1>4, <1>8, <1>14
  <2>4. r = Silent([p EXCEPT !.buffer = b])
    BY <1>9, <2>1, <2>3
  <2>5. [p EXCEPT !.buffer = b] = [buffer |-> b, expected |-> 0]
    BY <1>7, <2>2
  <2> QED
    BY <1>1, <1>11, <2>1, <2>4, <2>5
<1>15. CASE k > 1
  <2>1. h > 1 /\ ~(h >= MaxFrame) /\ k # 0
    BY <1>1, <1>2, <1>8, <1>15
  <2>2. r = Extended(p.expected, b, w[n])
    BY <1>4, <1>9, <2>1
  <2>3. CASE n < HeaderSize
    <3>1. p.expected = 0 /\ n < size /\ Len(b) # HeaderSize
      BY <1>6, <1>12, <1>15, <2>3
    <3>2. r = Silent([buffer |-> b, expected |-> 0])
      BY <2>2, <3>1 DEF Extended
    <3> QED
      BY <1>1, <1>11, <2>3, <3>1, <3>2
  <2>4. CASE n = HeaderSize
    <3>1. b[3] = w[3] /\ b[4] = w[4] /\ b[5] = w[5]
      <4>1. 3 \in 1..n /\ 4 \in 1..n /\ 5 \in 1..n
        BY <1>2, <2>4
      <4> QED
        BY <1>3, <4>1
    <3>2. HeaderStatus(b) = "OK"
      BY <1>1, <3>1 DEF HeaderStatus
    <3>3. r = Silent([buffer |-> b, expected |-> HeaderSize + b[5] + CrcSize])
      BY <1>3, <2>2, <2>4, <3>2 DEF Extended
    <3>4. HeaderSize + b[5] + CrcSize = size /\ n < size /\ ~(n < HeaderSize)
      BY <1>1, <2>4, <3>1
    <3>5. r = Silent([buffer |-> b, expected |-> size])
      BY <3>3, <3>4
    <3> QED
      BY <1>11, <3>4, <3>5
  <2>5. CASE n > HeaderSize /\ n < size
    <3>1. p.expected = size /\ Len(b) # HeaderSize /\ ~(n < HeaderSize)
      BY <1>6, <1>12, <1>15, <2>5
    <3>2. size # 0 /\ Len(b) < size
      BY <1>12, <2>5
    <3>3. r = Extended(size, b, w[n])
      BY <2>2, <3>1
    <3>4. r = Silent([buffer |-> b, expected |-> size])
      BY <3>1, <3>2, <3>3 DEF Extended
    <3> QED
      BY <1>11, <2>5, <3>1, <3>4
  <2>6. CASE n = size
    <3>1. p.expected = size /\ b = w /\ Len(b) = size
      <4>1. k # 0 /\ ~(k < HeaderSize)
        BY <1>12, <1>15, <2>6
      <4> QED
        BY <1>5, <1>6, <1>12, <2>6, <4>1
    <3>2. size # HeaderSize /\ size # 0 /\ ~(size < size)
      BY <1>12
    <3>3. r = Complete(w, w[n])
      BY <2>2, <3>1, <3>2 DEF Extended
    <3>4. w[size] = Crc(SubSeq(w, 1, size - 1))
      BY DEF Wellformed, size
    <3>5. IF size <= Capacity THEN r.frame = w ELSE r.status = "BUFFER_TOO_SMALL"
      BY <1>1, <3>3, <3>4 DEF Complete, size
    <3>6. Delivers(r, w) /\ ~(n < size)
      BY <2>6, <3>2, <3>5 DEF Delivers, size
    <3> QED
      BY <3>6
  <2>7. n < HeaderSize \/ n = HeaderSize \/ (n > HeaderSize /\ n < size) \/ n = size
    BY <1>12
  <2> QED
    BY <2>3, <2>4, <2>5, <2>6, <2>7
<1>16. k = 0 \/ k = 1 \/ k > 1
  OBVIOUS
<1> QED
  BY <1>13, <1>14, <1>15, <1>16

LEMMA InitEstablishes == Init => IInv
BY EmptySound DEF Init, IInv, FramesWellformed, Tracks

\* A byte of the frame arrives as it was sent.
LEMMA ArrivePreserves == IInv /\ Arrive => IInv'
<1> SUFFICES ASSUME IInv, Arrive PROVE IInv'
  OBVIOUS
<1> DEFINE byte == whole[sent + 1]  r == Push(parser, byte)  size == Len(whole)
<1>1. /\ whole # <<>> /\ whole \in Frames /\ Wellformed(whole)
      /\ sent \in Nat /\ sent < size
  BY FramesAssumption DEF IInv, Arrive
<1>2. whole \in Seq(Byte) /\ size \in Nat
  BY <1>1, FrameFields
<1>3. byte \in Byte
  BY <1>1, <1>2, ElementOfSeq
<1>4. PushOutcome(r)
  BY <1>3, PushReturns DEF IInv
<1>5. parser' = r.parser /\ frame' = r.frame /\ fate' = fate
  BY DEF Arrive, Receive
<1>6. Sound(parser)' /\ FramesWellformed'
  BY <1>4, <1>5 DEF PushOutcome, Sound, FramesWellformed, Wellformed
<1>7. CASE LastByte
  <2>1. whole' = <<>>
    BY <1>7 DEF Arrive, Proceed
  <2> QED
    BY <1>6, <2>1 DEF IInv, Tracks
<1>8. CASE ~LastByte
  <2>1. whole' = whole /\ sent' = sent + 1
    BY <1>8 DEF Arrive, Proceed
  <2>2. sent + 1 < size
    BY <1>1, <1>2, <1>8 DEF LastByte
  <2>3. fate = "synced" => HoldsOn(r, whole, sent + 1)
    BY <1>1, <2>2, PushNext DEF IInv, Tracks
  <2>4. Tracks'
    BY <1>1, <1>5, <2>1, <2>3 DEF Tracks, HoldsOn, Holds
  <2>5. whole' \in Frames \cup {<<>>} /\ sent' \in Nat /\ sent' < Len(whole')
    BY <1>1, <2>1, <2>2
  <2> QED
    BY <1>6, <2>4, <2>5 DEF IInv
<1> QED
  BY <1>7, <1>8

\* Any other byte: nothing is promised of the frame it may belong to.
LEMMA OtherBytePreserves ==
    ASSUME IInv, NEW byte \in Byte, Receive(byte),
           \/ UNCHANGED <<whole, sent>> /\ whole = <<>>
           \/ Proceed /\ whole # <<>> /\ fate' # "synced"
    PROVE  IInv'
<1>1. PushOutcome(Push(parser, byte))
  BY PushReturns DEF IInv
<1>2. Sound(parser)' /\ FramesWellformed'
  BY <1>1 DEF Receive, PushOutcome, Sound, FramesWellformed, Wellformed
<1>3. CASE UNCHANGED <<whole, sent>> /\ whole = <<>>
  BY <1>2, <1>3 DEF IInv, Tracks
<1>4. CASE Proceed /\ whole # <<>> /\ fate' # "synced"
  <2>1. whole \in Frames /\ Wellformed(whole) /\ sent \in Nat /\ Len(whole) \in Nat
        /\ sent < Len(whole)
    BY <1>4, FramesAssumption, FrameFields DEF IInv
  <2> QED
    BY <1>2, <1>4, <2>1 DEF IInv, Tracks, Proceed, LastByte
<1> QED
  BY <1>3, <1>4

LEMMA NextPreserves == IInv /\ [Next]_vars => IInv'
<1> SUFFICES ASSUME IInv, [Next]_vars PROVE IInv'
  OBVIOUS
<1>1. CASE Begin
  <2>1. whole' \in Frames /\ Wellformed(whole') /\ Len(whole') \in Nat /\ Len(whole') > 0
    BY <1>1, FramesAssumption, FrameFields DEF Begin
  <2>2. sent' = 0 /\ parser' = parser /\ frame' = frame
    BY <1>1 DEF Begin
  <2>3. fate' = "synced" => Len(parser.buffer) <= 1
    BY <1>1 DEF Begin
  <2>4. Sound(parser)' /\ FramesWellformed'
    BY <2>2 DEF IInv, Sound, FramesWellformed, Wellformed
  <2>5. Tracks'
    BY <2>2, <2>3 DEF Tracks, Holds
  <2> QED
    BY <2>1, <2>2, <2>4, <2>5 DEF IInv
<1>2. CASE Arrive
  BY <1>2, ArrivePreserves
<1>3. CASE Damage
  <2>1. PICK byte \in Byte : Receive(byte)
    BY <1>3 DEF Damage
  <2>2. whole # <<>> /\ Proceed /\ fate' # "synced"
    BY <1>3 DEF Damage
  <2> QED
    BY <2>1, <2>2, OtherBytePreserves
<1>4. CASE Drop
  <2>1. whole \in Frames /\ Wellformed(whole) /\ sent \in Nat /\ Len(whole) \in Nat
        /\ sent < Len(whole)
    BY <1>4, FramesAssumption, FrameFields DEF IInv, Drop
  <2>2. parser' = parser /\ frame' = frame /\ fate' = "cut" /\ Proceed
    BY <1>4 DEF Drop
  <2>3. Sound(parser)' /\ FramesWellformed'
    BY <2>2 DEF IInv, Sound, FramesWellformed, Wellformed
  <2>4. Tracks'
    BY <2>2 DEF Tracks
  <2>5. /\ whole' \in Frames \cup {<<>>}
        /\ whole' # <<>> => sent' \in Nat /\ sent' < Len(whole')
    BY <2>1, <2>2 DEF Proceed, LastByte
  <2> QED
    BY <2>3, <2>4, <2>5 DEF IInv
<1>5. CASE Noise
  <2>1. PICK byte \in Byte : Receive(byte)
    BY <1>5 DEF Noise
  <2> QED
    BY <1>5, <2>1, OtherBytePreserves DEF Noise
<1>6. CASE UNCHANGED vars
  BY <1>6 DEF vars, IInv, Tracks, Holds, Sound, FramesWellformed, Wellformed
<1> QED
  BY <1>1, <1>2, <1>3, <1>4, <1>5, <1>6 DEF Next

LEMMA Invariance == Spec => []IInv
BY InitEstablishes, NextPreserves, PTL DEF Spec

-----------------------------------------------------------------------------
(* The bytes that arrived *)

LEMMA SuffixByIndex ==
    ASSUME NEW f \in Seq(Byte), NEW s \in Seq(Byte), Len(f) <= Len(s)
    PROVE  IsSuffix(f, s)
              <=> \A i \in 1..Len(f) : f[i] = s[Len(s) - Len(f) + i]
<1> DEFINE m == Len(s) - Len(f) + 1
           g == SubSeq(s, m, Len(s))
<1>1. Len(s) \in Nat /\ Len(f) \in Nat /\ m \in 1..(Len(s) + 1)
  OBVIOUS
<1>2. \A i \in m..Len(s) : s[i] \in Byte
  BY <1>1, ElementOfSeq
<1>3. /\ g \in Seq(Byte) /\ Len(g) = Len(f)
      /\ \A i \in 1..Len(f) : g[i] = s[m + i - 1]
  BY <1>1, <1>2, SubSeqProperties
<1>4. \A i \in 1..Len(f) : m + i - 1 = Len(s) - Len(f) + i
  BY <1>1
<1> HIDE DEF m, g
<1>5. f = g <=> \A i \in 1..Len(f) : f[i] = g[i]
  BY <1>3, SeqEqual
<1> QED
  BY <1>3, <1>4, <1>5 DEF IsSuffix, g, m

\* One more byte at the end of both; the history forgets its first byte when
\* it is full.
LEMMA SuffixAppends ==
    ASSUME NEW f \in Seq(Byte), NEW s \in Seq(Byte), NEW byte \in Byte,
           IsSuffix(f, s), Len(s) <= MaxFrame, Len(f) < MaxFrame, MaxFrame \in Nat
    PROVE  /\ LastBytes(Append(s, byte)) \in Seq(Byte)
           /\ Len(LastBytes(Append(s, byte))) <= MaxFrame
           /\ IsSuffix(Append(f, byte), LastBytes(Append(s, byte)))
           /\ IsSuffix(<<byte>>, LastBytes(Append(s, byte)))
           /\ IsSuffix(<<>>, LastBytes(Append(s, byte)))
<1> DEFINE g == Append(f, byte)
           a == Append(s, byte)
           l == LastBytes(a)
           n == Len(s)
           k == Len(f)
<1>1. n \in Nat /\ k \in Nat /\ k <= n /\ n <= MaxFrame /\ k < MaxFrame
  BY DEF IsSuffix
<1>2. \A i \in 1..k : f[i] = s[n - k + i]
  BY <1>1, SuffixByIndex
<1>3. /\ a \in Seq(Byte) /\ Len(a) = n + 1 /\ a[n + 1] = byte
      /\ \A i \in 1..n : a[i] = s[i]
  OBVIOUS
<1>4. /\ g \in Seq(Byte) /\ Len(g) = k + 1 /\ g[k + 1] = byte
      /\ \A i \in 1..k : g[i] = f[i]
  OBVIOUS
<1>5. /\ l \in Seq(Byte) /\ Len(l) <= MaxFrame /\ Len(l) >= k + 1
      /\ \A i \in 1..(k + 1) : l[Len(l) - (k + 1) + i] = a[(n + 1) - (k + 1) + i]
  <2> HIDE DEF a
  <2>1. CASE n + 1 <= MaxFrame
    <3>1. l = a
      BY <1>3, <2>1 DEF LastBytes
    <3> QED
      BY <1>1, <1>3, <2>1, <3>1
  <2>2. CASE ~(n + 1 <= MaxFrame)
    <3>1. l = Tail(a) /\ n = MaxFrame
      BY <1>1, <1>3, <2>2 DEF LastBytes
    <3>2. /\ Tail(a) \in Seq(Byte) /\ Len(Tail(a)) = n
          /\ \A i \in 1..n : Tail(a)[i] = a[i + 1]
      BY <1>1, <1>3
    <3>3. \A i \in 1..(k + 1) : n - (k + 1) + i \in 1..n
                                /\ n - (k + 1) + i + 1 = (n + 1) - (k + 1) + i
      BY <1>1, <3>1
    <3> HIDE DEF l, n, k
    <3>4. l \in Seq(Byte) /\ Len(l) = n /\ k + 1 <= n
      BY <1>1, <3>1, <3>2
    <3>5. \A i \in 1..(k + 1) : l[n - (k + 1) + i] = a[(n + 1) - (k + 1) + i]
      <4> TAKE i \in 1..(k + 1)
      <4> DEFINE h == n - (k + 1) + i
      <4>1. h \in 1..n /\ h + 1 = (n + 1) - (k + 1) + i
        BY <3>3
      <4> HIDE DEF h
      <4>2. l[h] = a[h + 1]
        BY <3>1, <3>2, <4>1
      <4> QED
        BY <4>1, <4>2 DEF h
    <3> QED
      BY <1>1, <3>1, <3>4, <3>5
  <2> QED
    BY <2>1, <2>2
<1> HIDE DEF a, g, l, n, k
<1>6. IsSuffix(g, l)
  <2>1. \A i \in 1..(k + 1) : g[i] = a[(n + 1) - (k + 1) + i]
    <3>1. \A i \in 1..k : g[i] = a[(n + 1) - (k + 1) + i]
      <4>1. \A i \in 1..k : n - k + i \in 1..n /\ n - k + i = (n + 1) - (k + 1) + i
        BY <1>1
      <4> QED
        BY <1>2, <1>3, <1>4, <4>1
    <3> QED
      BY <1>1, <1>3, <1>4, <3>1
  <2> QED
    BY <1>1, <1>4, <1>5, <2>1, SuffixByIndex
<1>7. <<byte>> \in Seq(Byte) /\ Len(<<byte>>) = 1 /\ <<byte>>[1] = byte
  OBVIOUS
<1>8. Len(l) \in Nat /\ l[Len(l)] = byte
  <2>1. k + 1 \in 1..(k + 1)
    BY <1>1
  <2>2. l[Len(l) - (k + 1) + (k + 1)] = a[(n + 1) - (k + 1) + (k + 1)]
    BY <1>5, <2>1
  <2>3. Len(l) \in Nat
    BY <1>5
  <2> QED
    BY <1>1, <1>3, <2>2, <2>3
<1>9. IsSuffix(<<byte>>, l)
  <2> DEFINE o == <<byte>>
  <2> HIDE DEF o
  <2>1. \A i \in 1..1 : Len(l) - 1 + i = Len(l)
    BY <1>8
  <2>2. Len(l) >= 1
    BY <1>1, <1>5, <1>8
  <2>3. \A i \in 1..1 : o[i] = l[Len(l) - 1 + i]
    BY <1>7, <1>8, <2>1 DEF o
  <2> QED
    BY <1>5, <1>7, <2>2, <2>3, SuffixByIndex DEF o
<1>10. IsSuffix(<<>>, l)
  <2>1. <<>> \in Seq(Byte) /\ Len(<<>>) = 0 /\ Len(l) \in Nat
    BY <1>5
  <2>2. SubSeq(l, Len(l) - 0 + 1, Len(l)) = <<>>
    BY <1>5, <2>1
  <2> QED
    BY <2>1, <2>2 DEF IsSuffix
<1> QED
  BY <1>5, <1>6, <1>9, <1>10 DEF l, a, g

\* The bytes a parser holds after a push, and those it delivers.
LEMMA PushBytes ==
    ASSUME NEW p, Sound(p), NEW byte \in Byte
    PROVE  LET r == Push(p, byte)
               b == Append(p.buffer, byte)
           IN  /\ r.parser.buffer \in {<<>>, <<byte>>, b}
               /\ r.frame \in {<<>>, b}
               /\ r.frame # <<>> => r.parser = Empty /\ r.status = "OK"
<1> DEFINE b == Append(p.buffer, byte)
           Bytes(r) == /\ r.parser.buffer \in {<<>>, <<byte>>, b}
                       /\ r.frame \in {<<>>, b}
                       /\ r.frame # <<>> => r.parser = Empty /\ r.status = "OK"
<1>1. p = [buffer |-> p.buffer, expected |-> p.expected]
  BY ParserFields
<1> HIDE DEF b
<1>2. \A s : Bytes(Refused(byte, s))
  BY DEF Refused, Resync
<1>3. \A q : q.buffer \in {<<>>, <<byte>>, b} => Bytes(Silent(q))
  BY DEF Silent
<1>4. Resync(byte).buffer \in {<<>>, <<byte>>}
  BY DEF Resync
<1>5. Bytes(Complete(b, byte))
  <2>1. \/ Complete(b, byte) = Refused(byte, "CRC_FAILURE")
        \/ Complete(b, byte) = [parser |-> Empty, status |-> "BUFFER_TOO_SMALL", frame |-> <<>>]
        \/ Complete(b, byte) = [parser |-> Empty, status |-> "OK", frame |-> b]
    BY DEF Complete
  <2> QED
    BY <1>2, <2>1 DEF Empty
<1>6. \A e : Bytes(Extended(e, b, byte))
  <2> TAKE e
  <2>1. \/ Extended(e, b, byte) = Refused(byte, HeaderStatus(b))
        \/ Extended(e, b, byte)
             = Silent([buffer |-> b, expected |-> HeaderSize + b[5] + CrcSize])
        \/ Extended(e, b, byte) = Silent([buffer |-> b, expected |-> e])
        \/ Extended(e, b, byte) = Complete(b, byte)
    BY DEF Extended
  <2> QED
    BY <1>2, <1>3, <1>5, <2>1
<1>7. [p EXCEPT !.buffer = b] = [buffer |-> b, expected |-> p.expected]
  BY <1>1
<1>8. \/ Push(p, byte) = Silent(Resync(byte))
      \/ Push(p, byte) = Silent([p EXCEPT !.buffer = b])
      \/ Push(p, byte) = Refused(byte, "INVALID_FRAME")
      \/ Push(p, byte) = Extended(p.expected, b, byte)
  BY <1>7 DEF Push, b
<1>9. Bytes(Push(p, byte))
  BY <1>2, <1>3, <1>4, <1>6, <1>7, <1>8
<1> QED
  BY <1>9 DEF b

\* A sound parser has room for another byte.
LEMMA SoundHasRoom ==
    ASSUME NEW p, Sound(p) PROVE MaxFrame \in Nat /\ Len(p.buffer) < MaxFrame
<1> DEFINE b == p.buffer  n == Len(b)  c == b[5]
<1>1. b \in Seq(Byte) /\ n \in Nat
  BY DEF Sound
<1>2. \/ n < HeaderSize
      \/ c <= MaxPayload /\ HeaderSize <= n /\ n < HeaderSize + c + CrcSize
  BY DEF Sound
<1>3. HeaderSize <= n => c \in Nat
  <2>1. SUFFICES ASSUME HeaderSize <= n PROVE c \in Nat
    OBVIOUS
  <2>2. 5 \in 1..n
    BY <1>1, <2>1
  <2> QED
    BY <1>1, <2>2, ElementOfSeq
<1> HIDE DEF c, n
<1> QED
  BY <1>1, <1>2, <1>3 DEF MaxFrame, CrcSize, n

-----------------------------------------------------------------------------
(* The line and its history *)

\* The shortest frame has no payload.
Shortest == HeaderSize + CrcSize

\* The parser holds nothing, or bytes of w from behind the first one up to the
\* k-th in which it has not seen a header.
Within(p, w, k) ==
    \/ p.buffer = <<>>
    \/ \E i \in 2..k : p.buffer = SubSeq(w, i, k) /\ p.expected = 0

\* What a late frame has become of so far: the old buffer swallows it, was
\* given up in the middle of it, or on its first byte.
Swallowed == Len(parser.buffer) >= 2 + lost * Shortest + sent

GivenUp == sent >= 1 /\ Within(parser, whole, sent)

CaughtUp == sent >= 1 /\ Holds(parser, whole, sent)

\* The frames lost so far are in the buffer, or the buffer is done with them.
Catching ==
    /\ lost <= LossBound
    /\ whole = <<>> => \/ Len(parser.buffer) <= 1
                       \/ Len(parser.buffer) >= 2 + lost * Shortest
    /\ whole # <<>> /\ (fate \in {"hit", "cut"} \/ ~Plain(whole)) => lost = 0
    /\ whole # <<>> /\ fate = "late" /\ Plain(whole) =>
          lost + 1 <= LossBound /\ (Swallowed \/ GivenUp \/ CaughtUp)

\* The buffer is the end of what has arrived since the last delivery.
History ==
    /\ arrived \in Seq(Byte) /\ Len(arrived) <= MaxFrame
    /\ IsSuffix(parser.buffer, arrived)

LineInv == IInv /\ TypeOK /\ History /\ Catching

\* What a byte leads to.
ByteOutcome(byte) ==
    /\ Sound(parser') /\ MaxFrame \in Nat /\ Len(parser'.buffer) < MaxFrame
    /\ parser'.buffer \in {<<>>, <<byte>>, Append(parser.buffer, byte)}
    /\ status' \in Status
    /\ frame' \in Seq(Byte) /\ Len(frame') <= Capacity
    /\ armed' \in BOOLEAN
    /\ History'
    /\ frame' # <<>> => IsSuffix(frame', LastBytes(Append(arrived, byte)))

LEMMA ReceiveReturns ==
    ASSUME LineInv, NEW byte \in Byte, Receive(byte) PROVE ByteOutcome(byte)
<1> DEFINE r == Push(parser, byte)
           b == Append(parser.buffer, byte)
           l == LastBytes(Append(arrived, byte))
<1>1. PushOutcome(r)
  BY PushReturns DEF LineInv, IInv
<1>2. /\ r.parser.buffer \in {<<>>, <<byte>>, b}
      /\ r.frame \in {<<>>, b}
      /\ r.frame # <<>> => r.parser = Empty
  BY PushBytes DEF LineInv, IInv
<1>3. parser' = r.parser /\ status' = r.status /\ frame' = r.frame
      /\ arrived' = IF r.frame # <<>> THEN <<>> ELSE l
  BY DEF Receive
<1>4. MaxFrame \in Nat /\ Len(parser.buffer) < MaxFrame /\ Len(r.parser.buffer) < MaxFrame
  BY <1>1, SoundHasRoom DEF PushOutcome, LineInv, IInv
<1>5. /\ l \in Seq(Byte) /\ Len(l) <= MaxFrame
      /\ IsSuffix(b, l) /\ IsSuffix(<<byte>>, l) /\ IsSuffix(<<>>, l)
  BY <1>4, SuffixAppends, ParserFields DEF LineInv, IInv, History
<1>6. frame' \in Seq(Byte) /\ Len(frame') <= Capacity
  <2>1. <<>> \in Seq(Byte) /\ Len(<<>>) <= Capacity
    OBVIOUS
  <2>2. Wellformed(r.frame) => r.frame \in Seq(Byte)
    BY DEF Wellformed
  <2> QED
    BY <1>1, <1>3, <2>1, <2>2 DEF PushOutcome
<1>7. armed' \in BOOLEAN
  BY DEF Receive, LineInv, TypeOK
<1> HIDE DEF r, b, l
<1>8. History'
  <2>1. CASE r.frame = <<>>
    BY <1>2, <1>3, <1>5, <2>1 DEF History
  <2>2. CASE r.frame # <<>>
    <3>1. arrived' = <<>> /\ parser'.buffer = <<>>
      BY <1>2, <1>3, <2>2 DEF Empty
    <3>2. IsSuffix(<<>>, <<>>)
      BY DEF IsSuffix
    <3> QED
      BY <1>4, <3>1, <3>2 DEF History
  <2> QED
    BY <2>1, <2>2
<1>9. frame' # <<>> => IsSuffix(frame', l)
  BY <1>2, <1>3, <1>5
<1> QED
  BY <1>1, <1>2, <1>3, <1>4, <1>6, <1>7, <1>8, <1>9 DEF ByteOutcome, PushOutcome, b, l

\* Where the sender is after a byte.
LEMMA ProceedTyped ==
    ASSUME LineInv, whole # <<>>, Proceed
    PROVE  whole' \in Frames \cup {<<>>} /\ sent' \in 0..Len(whole')
<1>1. whole \in Frames /\ Len(whole) \in Nat /\ sent \in Nat /\ sent < Len(whole)
  BY FramesAssumption, FrameFields DEF LineInv, IInv
<1>2. CASE LastByte
  BY <1>2 DEF Proceed
<1>3. CASE ~LastByte
  BY <1>1, <1>3 DEF Proceed, LastByte
<1> QED
  BY <1>2, <1>3

\* Types and history, for every action.
LEMMA TypesPreserved ==
    ASSUME LineInv, [Next]_vars PROVE TypeOK' /\ History'
<1>1. MaxFrame \in Nat /\ Sound(parser)
  BY SoundHasRoom DEF LineInv, IInv
<1>2. ASSUME NEW byte \in Byte, ByteOutcome(byte), whole' \in Frames \cup {<<>>},
             sent' \in 0..Len(whole'), fate' \in Fate, lost' \in Nat
      PROVE  TypeOK' /\ History'
  <2>1. parser' \in [buffer : Seq(Byte), expected : Nat]
    BY <1>2 DEF ByteOutcome, Sound
  <2>2. /\ parser' \in [buffer : Seq(Byte), expected : Nat]
        /\ Len(parser'.buffer) < MaxFrame
        /\ status' \in Status
        /\ frame' \in Seq(Byte) /\ Len(frame') <= Capacity
        /\ armed' \in BOOLEAN /\ History'
    BY <1>2, <2>1 DEF ByteOutcome
  <2> QED
    BY <1>2, <2>2 DEF TypeOK, History
<1>3. CASE Begin
  <2>1. Len(whole') \in Nat
    BY <1>3, FramesAssumption, FrameFields DEF Begin
  <2> QED
    BY <1>3, <2>1 DEF Begin, LineInv, TypeOK, Fate, History
<1>4. CASE Arrive
  <2>1. whole \in Frames /\ Wellformed(whole) /\ sent \in Nat /\ sent < Len(whole)
    BY <1>4, FramesAssumption DEF LineInv, IInv, Arrive
  <2>2. whole[sent + 1] \in Byte
    BY <2>1, FrameFields, ElementOfSeq
  <2>3. lost' \in Nat /\ fate' \in Fate
    BY <1>4 DEF Arrive, LineInv, TypeOK
  <2> QED
    BY <1>2, <1>4, <2>2, <2>3, ReceiveReturns, ProceedTyped DEF Arrive
<1>5. CASE Damage
  <2>1. PICK byte \in Byte : Receive(byte)
    BY <1>5 DEF Damage
  <2> QED
    BY <1>2, <1>5, <2>1, ReceiveReturns, ProceedTyped DEF Damage, Fate
<1>6. CASE Drop
  BY <1>1, <1>6, ProceedTyped DEF Drop, LineInv, TypeOK, Fate, History
<1>7. CASE Noise
  <2>1. PICK byte \in Byte : Receive(byte)
    BY <1>7 DEF Noise
  <2>2. whole' = whole /\ sent' = sent /\ fate' = fate /\ lost' = 0
    BY <1>7 DEF Noise
  <2> QED
    BY <1>2, <2>1, <2>2, ReceiveReturns DEF LineInv, TypeOK
<1>8. CASE UNCHANGED vars
  BY <1>8 DEF vars, LineInv, TypeOK, History
<1> QED
  BY <1>3, <1>4, <1>5, <1>6, <1>7, <1>8 DEF Next

-----------------------------------------------------------------------------
(* How many frames are lost *)

LEMMA BoundTyped ==
    /\ Shortest \in Nat /\ Shortest >= 6 /\ MaxFrame \in Nat /\ MaxFrame >= Shortest
    /\ LossBound \in Nat
<1>1. Shortest \in Nat /\ Shortest >= 6 /\ MaxFrame \in Nat /\ MaxFrame >= Shortest
  BY DEF Shortest, MaxFrame, CrcSize
<1>2. MaxFrame - 3 \in Nat
  BY <1>1
<1>3. \A m, f \in Nat : f > 0 => m \div f \in Nat
  OBVIOUS
<1>4. (MaxFrame - 3) \div Shortest \in Nat
  BY <1>1, <1>2, <1>3
<1> QED
  BY <1>1, <1>4 DEF LossBound, Shortest

\* A buffer that has swallowed n frames can swallow part of one more.
LEMMA LossRoom ==
    ASSUME NEW n \in Nat, NEW size \in Nat, size < MaxFrame, size >= 2 + n * Shortest
    PROVE  n + 1 <= LossBound
<1>1. /\ Shortest \in Nat /\ Shortest >= 6 /\ MaxFrame \in Nat /\ MaxFrame >= Shortest
  BY BoundTyped
<1>2. \A m, f \in Nat : f > 0 /\ n * f <= m => n <= m \div f
  <2> SUFFICES ASSUME NEW m \in Nat, NEW f \in Nat, f > 0, n * f <= m
               PROVE  n <= m \div f
    OBVIOUS
  <2> DEFINE q == m \div f
  <2>1. q \in Nat /\ m < f * q + f
    OBVIOUS
  <2> HIDE DEF q
  <2>2. SUFFICES ASSUME n > q PROVE FALSE
    BY <2>1 DEF q
  <2>3. PICK d \in Nat : n = q + 1 + d
    <3>1. n - q - 1 \in Nat /\ n = q + 1 + (n - q - 1)
      BY <2>1, <2>2
    <3> QED
      BY <3>1
  <2>4. n * f = f * q + f + d * f
    BY <2>1, <2>3
  <2>5. d * f \in Nat /\ f * q \in Nat
    BY <2>1
  <2> QED
    BY <2>1, <2>4, <2>5
<1>3. n * Shortest \in Nat
  BY <1>1
<1>4. n * Shortest <= MaxFrame - 3 /\ MaxFrame - 3 \in Nat
  BY <1>1, <1>3
<1>5. n <= (MaxFrame - 3) \div Shortest
  BY <1>1, <1>2, <1>4
<1>6. (MaxFrame - 3) \div Shortest \in Nat
  <2>1. \A m, f \in Nat : f > 0 => m \div f \in Nat
    OBVIOUS
  <2> QED
    BY <1>1, <1>4, <2>1
<1>7. LossBound = (MaxFrame - 3) \div Shortest + 1
  BY DEF LossBound, Shortest
<1> QED
  BY <1>5, <1>6, <1>7

\* Noise, damage, loss and a frame that is not plain begin the count anew.
LEMMA CatchingAtZero ==
    ASSUME lost' = 0, Len(parser'.buffer) \in Nat,
           whole' # <<>> => fate' \in {"hit", "cut"} \/ ~Plain(whole')
    PROVE  Catching'
<1>1. \A n \in Nat : n <= 1 \/ n >= 2 + 0 * Shortest
  BY BoundTyped
<1>2. 0 <= LossBound
  BY BoundTyped
<1> QED
  BY <1>1, <1>2 DEF Catching, Shortest

\* A frame found the parser open.
LEMMA BeginCatching == ASSUME LineInv, Begin PROVE Catching'
<1> DEFINE n == Len(parser.buffer)
<1>0. CASE ~Plain(whole')
  <2>1. lost' = 0 /\ parser' = parser
    BY <1>0 DEF Begin
  <2>2. n \in Nat
    BY ParserFields DEF LineInv, IInv
  <2> QED
    BY <1>0, <2>1, <2>2, CatchingAtZero
<1> SUFFICES ASSUME Plain(whole') PROVE Catching'
  BY <1>0
<1>1. /\ whole = <<>> /\ whole' # <<>> /\ sent' = 0 /\ lost' = lost /\ parser' = parser
      /\ fate' = IF n <= 1 THEN "synced" ELSE "late"
  <2>1. whole' # <<>>
    BY FramesAssumption, FrameFields DEF Begin, Wellformed
  <2> QED
    BY <2>1 DEF Begin
<1>2. lost \in Nat /\ lost <= LossBound /\ (n <= 1 \/ n >= 2 + lost * Shortest)
  BY <1>1 DEF LineInv, TypeOK, Catching, Shortest
<1>3. n \in Nat /\ n < MaxFrame
  BY ParserFields, SoundHasRoom DEF LineInv, IInv
<1>4. CASE n <= 1
  BY <1>1, <1>2, <1>4 DEF Catching
<1>5. CASE ~(n <= 1)
  <2>1. n >= 2 + lost * Shortest
    BY <1>2, <1>5
  <2>2. lost + 1 <= LossBound
    BY <1>2, <1>3, <2>1, LossRoom
  <2>3. lost * Shortest \in Nat
    BY <1>2, BoundTyped
  <2>4. Swallowed'
    BY <1>1, <2>1, <2>3 DEF Swallowed, Shortest
  <2> QED
    BY <1>1, <1>2, <1>5, <2>2, <2>4 DEF Catching
<1> QED
  BY <1>4, <1>5

\* Noise, or the inside of a frame, is given up for the byte that ends it.
LEMMA ResyncWithin ==
    ASSUME NEW w \in Seq(Byte), NEW k \in Nat, k >= 1, k < Len(w)
    PROVE  Within(Resync(w[k + 1]), w, k + 1)
<1> DEFINE n == k + 1  b == SubSeq(w, n, n)
<1>1. n \in 2..n /\ n \in 1..Len(w) /\ w[n] \in Byte
  OBVIOUS
<1>2. b = <<w[n]>>
  <2>1. b \in Seq(Byte) /\ Len(b) = 1 /\ b[1] = w[n]
    BY <1>1
  <2> HIDE DEF n, b
  <2> QED
    BY <2>1
<1> HIDE DEF n, b
<1>3. CASE w[n] = Magic0
  <2>1. Resync(w[n]).buffer = b /\ Resync(w[n]).expected = 0
    BY <1>2, <1>3 DEF Resync
  <2> QED
    BY <1>1, <2>1 DEF Within, n, b
<1>4. CASE w[n] # Magic0
  BY <1>4 DEF Resync, Within, n
<1> QED
  BY <1>3, <1>4

LEMMA BufferReplaced ==
    ASSUME NEW p, Sound(p), NEW b
    PROVE  [p EXCEPT !.buffer = b] = [buffer |-> b, expected |-> p.expected]
<1>1. p = [buffer |-> p.buffer, expected |-> p.expected]
  BY ParserFields
<1> QED
  BY <1>1

LEMMA InnerExtends ==
    ASSUME NEW w \in Seq(Byte), NEW k \in Nat, k < Len(w), NEW i \in 2..k
    PROVE  Append(SubSeq(w, i, k), w[k + 1]) = SubSeq(w, i, k + 1)
OBVIOUS

\* What the bytes a parser holds from within a frame say about the frame.
LEMMA WithinFields ==
    ASSUME NEW p, Sound(p), NEW w \in Seq(Byte), NEW k \in Nat, k <= Len(w),
           NEW i \in 2..k, p.buffer = SubSeq(w, i, k), p.expected = 0
    PROVE  /\ Len(p.buffer) = k - i + 1 /\ Len(p.buffer) < HeaderSize
           /\ Len(p.buffer) >= 2 => w[i] = Magic0 /\ w[i + 1] = Magic1
<1>1. Len(p.buffer) = k - i + 1
  OBVIOUS
<1>2. Len(p.buffer) < HeaderSize
  BY <1>1 DEF Sound, CrcSize
<1>3. ASSUME Len(p.buffer) >= 2 PROVE w[i] = Magic0 /\ w[i + 1] = Magic1
  <2>1. p.buffer[1] = Magic0 /\ p.buffer[2] = Magic1
    BY <1>3 DEF Sound
  <2>2. p.buffer[1] = w[i] /\ p.buffer[2] = w[i + 1]
    BY <1>1, <1>3
  <2> QED
    BY <2>1, <2>2
<1> QED
  BY <1>1, <1>2, <1>3

\* A parser within a plain frame stays there: what looks like a header ends
\* before the frame does and is refused.
LEMMA WithinNext ==
    ASSUME NEW p, Sound(p), NEW w \in Seq(Byte), Plain(w),
           NEW k \in Nat, k >= 1, k < Len(w), Within(p, w, k)
    PROVE  Within(Push(p, w[k + 1]).parser, w, k + 1)
<1> DEFINE byte == w[k + 1]  r == Push(p, byte)  h == Len(p.buffer)
           b == Append(p.buffer, byte)  n == k + 1
<1>1. /\ p.buffer \in Seq(Byte) /\ h \in Nat
      /\ p = [buffer |-> p.buffer, expected |-> p.expected]
      /\ MaxFrame \in Nat /\ h < MaxFrame
  BY ParserFields, SoundHasRoom
<1>2. Within(Resync(byte), w, n)
  BY ResyncWithin
<1>3. /\ h = 0 => r = Silent(Resync(byte))
      /\ h = 1 /\ byte # Magic1 => r = Silent(Resync(byte))
      /\ h = 1 /\ byte = Magic1 => r = Silent([p EXCEPT !.buffer = b])
      /\ h > 1 /\ ~(h >= MaxFrame) => r = Extended(p.expected, b, byte)
  BY <1>1, PushBranches
<1> HIDE DEF r
<1>4. r = Silent(Resync(byte)) => Within(r.parser, w, n)
  BY <1>2 DEF Silent
<1> SUFFICES Within(r.parser, w, n)
  BY DEF r
<1>5. CASE h = 0
  BY <1>3, <1>4, <1>5
<1>6. CASE h # 0
  <2>1. PICK i \in 2..k : p.buffer = SubSeq(w, i, k) /\ p.expected = 0
    <3>1. p.buffer # <<>>
      BY <1>6
    <3> QED
      BY <3>1 DEF Within
  <2>2. /\ h = k - i + 1 /\ h < HeaderSize
        /\ h >= 2 => w[i] = Magic0 /\ w[i + 1] = Magic1
    <3>1. k <= Len(w)
      OBVIOUS
    <3> QED
      BY <2>1, <3>1, WithinFields
  <2>3. b = SubSeq(w, i, n) /\ i \in 2..n /\ Len(b) = h + 1
    <3>1. b = SubSeq(w, i, n)
      BY <2>1, InnerExtends
    <3>2. Len(b) = h + 1
      BY <1>1
    <3>3. i \in 2..n
      OBVIOUS
    <3> QED
      BY <3>1, <3>2, <3>3
  <2> HIDE DEF b, h
  <2>4. ASSUME r = Silent([buffer |-> b, expected |-> 0]) PROVE Within(r.parser, w, n)
    <3>1. r.parser.buffer = b /\ r.parser.expected = 0
      BY <2>4 DEF Silent
    <3> HIDE DEF r, b, n
    <3> QED
      BY <2>3, <3>1 DEF Within
  <2>5. CASE h = 1 /\ byte # Magic1
    BY <1>3, <1>4, <2>5
  <2>6. CASE h = 1 /\ byte = Magic1
    <3>1. [p EXCEPT !.buffer = b] = [buffer |-> b, expected |-> 0]
      BY <2>1, BufferReplaced
    <3> QED
      BY <1>3, <2>4, <2>6, <3>1
  <2>7. CASE h > 1
    <3>1. r = Extended(0, b, byte)
      BY <1>1, <1>3, <2>1, <2>7
    <3>2. CASE Len(b) = HeaderSize
      <4>1. n = i + HeaderSize - 1 /\ i \in 2..(Len(w) - 1)
        <5>1. Len(w) \in Nat
          OBVIOUS
        <5> HIDE DEF byte
        <5> QED
          BY <2>2, <2>3, <2>7, <3>2, <5>1
      <4>2. HeaderStatus(b) # "OK"
        <5>1. h >= 2
          BY <1>1, <2>7
        <5>2. HeaderStatus(SubSeq(w, i, i + HeaderSize - 1)) # "OK"
          BY <2>2, <4>1, <5>1 DEF Plain
        <5> HIDE DEF n
        <5> QED
          BY <2>3, <4>1, <5>2
      <4>3. r = Refused(byte, HeaderStatus(b))
        BY <3>1, <3>2, <4>2 DEF Extended
      <4> QED
        BY <1>2, <4>3 DEF Refused
    <3>3. CASE Len(b) # HeaderSize
      <4>1. r = Silent([buffer |-> b, expected |-> 0])
        BY <3>1, <3>3 DEF Extended
      <4> QED
        BY <2>4, <4>1
    <3> QED
      BY <3>2, <3>3
  <2>8. h = 1 \/ h > 1
    BY <1>1, <1>6
  <2> QED
    BY <2>5, <2>6, <2>7, <2>8
<1> QED
  BY <1>5, <1>6

\* At the end of a plain frame it is outside any frame.
LEMMA WithinEnds ==
    ASSUME NEW p, Sound(p), NEW w \in Seq(Byte), Plain(w), Within(p, w, Len(w))
    PROVE  Len(p.buffer) <= 1
<1>1. p.buffer = <<>> => Len(p.buffer) <= 1
  OBVIOUS
<1>2. ASSUME NEW i \in 2..Len(w), p.buffer = SubSeq(w, i, Len(w)), p.expected = 0
      PROVE  Len(p.buffer) <= 1
  <2> DEFINE h == Len(p.buffer)  n == Len(w)
  <2>1. n \in Nat
    OBVIOUS
  <2>2. h = n - i + 1 /\ h < HeaderSize /\ (h >= 2 => w[i] = Magic0 /\ w[i + 1] = Magic1)
    BY <1>2, WithinFields
  <2>3. h >= 2 => i \in 2..(n - 1) /\ i + HeaderSize - 1 <= n
    BY <2>1, <2>2 DEF Plain
  <2> HIDE DEF h, n
  <2>4. h <= 1
    BY <2>1, <2>2, <2>3, i \in Int DEF n
  <2> QED
    BY <2>4 DEF h
<1> QED
  BY <1>1, <1>2 DEF Within

\* The next byte of an undamaged late frame.
LEMMA LateByte ==
    ASSUME LineInv, Arrive, fate = "late", Plain(whole),
           NEW byte \in Byte, byte = whole[sent + 1], ByteOutcome(byte)
    PROVE  LET n == Len(parser'.buffer)
           IN  \/ n >= 2 + lost * Shortest + sent + 1
               \/ Within(parser', whole, sent + 1)
               \/ sent + 1 < Len(whole) /\ Holds(parser', whole, sent + 1)
               \/ sent + 1 = Len(whole) /\ (frame' = whole \/ Len(whole) > Capacity)
<1> DEFINE n == Len(parser.buffer)  size == Len(whole)  k == sent
<1>1. /\ whole # <<>> /\ whole \in Frames /\ Wellformed(whole)
      /\ whole \in Seq(Byte) /\ size \in Nat /\ size > HeaderSize
      /\ k \in Nat /\ k < size
  BY FramesAssumption, FrameFields DEF LineInv, IInv, Arrive
<1>2. parser'.buffer = <<>> => Within(parser', whole, k + 1)
  BY DEF Within
<1>3. lost \in Nat /\ lost * Shortest \in Nat
  BY BoundTyped DEF LineInv, TypeOK
<1>4. parser.buffer \in Seq(Byte) /\ n \in Nat
  BY ParserFields DEF LineInv, IInv
<1>5. Sound(parser') /\ parser'.buffer \in {<<>>, <<byte>>, Append(parser.buffer, byte)}
  BY DEF ByteOutcome
<1>6. parser'.buffer = <<byte>> => byte = Magic0 /\ parser'.expected = 0
  <2>1. Len(<<byte>>) = 1 /\ <<byte>>[1] = byte
    OBVIOUS
  <2> QED
    BY <1>5, <2>1 DEF Sound
<1>7. Swallowed \/ GivenUp \/ CaughtUp
  BY <1>1 DEF LineInv, Catching
<1>8. CASE Swallowed
  <2>1. CASE parser'.buffer = Append(parser.buffer, byte)
    <3>1. Len(parser'.buffer) = n + 1
      BY <1>4, <2>1
    <3>2. n >= 2 + lost * Shortest + k
      BY <1>8 DEF Swallowed, Shortest
    <3> QED
      BY <1>1, <1>3, <1>4, <3>1, <3>2
  <2>2. CASE parser'.buffer = <<byte>>
    <3>1. CASE k = 0
      <4> DEFINE first == SubSeq(whole, 1, 1)
      <4>1. first \in Seq(Byte) /\ Len(first) = 1 /\ first[1] = byte
        <5>1. 1 \in 0..Len(whole) /\ 1 \in 1..1
          BY <1>1
        <5> QED
          BY <1>1, <3>1, <5>1, PrefixReturns
      <4>2. Holds(parser', whole, 1)
        <5> HIDE DEF first
        <5>1. first = <<byte>>
          BY <4>1
        <5>2. 1 < HeaderSize /\ 1 # 0
          OBVIOUS
        <5> QED
          BY <1>6, <2>2, <5>1, <5>2, Zenon DEF Holds, first
      <4> QED
        BY <1>1, <3>1, <4>2
    <3>2. CASE k # 0
      <4>1. Within(Resync(byte), whole, k + 1)
        BY <1>1, <3>2, ResyncWithin
      <4>2. parser'.buffer = Resync(byte).buffer /\ parser'.expected = Resync(byte).expected
        BY <1>6, <2>2 DEF Resync
      <4>3. Within(parser', whole, k + 1)
        BY <4>1, <4>2 DEF Within
      <4> QED
        BY <4>3
    <3> QED
      BY <3>1, <3>2
  <2> QED
    BY <1>2, <1>5, <2>1, <2>2
<1>9. CASE GivenUp
  <2>1. parser' = Push(parser, byte).parser
    BY DEF Arrive, Receive
  <2>2. Within(parser', whole, k + 1)
    BY <1>1, <1>9, <2>1, WithinNext DEF GivenUp, LineInv, IInv
  <2> QED
    BY <2>2
<1>10. CASE CaughtUp
  <2> DEFINE r == Push(parser, byte)
  <2>1. /\ k + 1 < size => HoldsOn(r, whole, k + 1)
        /\ k + 1 = size => Delivers(r, whole)
    BY <1>1, <1>10, PushNext DEF CaughtUp, LineInv, IInv
  <2>2. parser' = r.parser /\ frame' = r.frame
    BY DEF Arrive, Receive
  <2>3. k + 1 < size \/ k + 1 = size
    BY <1>1
  <2> HIDE DEF r
  <2>4. CASE k + 1 < size
    BY <2>1, <2>2, <2>4 DEF HoldsOn
  <2>5. CASE k + 1 = size
    <3>1. Capacity \in Nat
      OBVIOUS
    <3>2. size <= Capacity \/ size > Capacity
      BY <1>1, <3>1
    <3> QED
      BY <2>1, <2>2, <2>5, <3>2 DEF Delivers
  <2> QED
    BY <2>3, <2>4, <2>5
<1> QED
  BY <1>7, <1>8, <1>9, <1>10

\* So the count grows only while the old buffer does, or when it ends.
LEMMA ArriveCatching == ASSUME LineInv, Arrive PROVE Catching'
<1> DEFINE byte == whole[sent + 1]  size == Len(whole)  k == sent
           n == Len(parser'.buffer)
<1>1. /\ whole # <<>> /\ whole \in Frames /\ Wellformed(whole)
      /\ whole \in Seq(Byte) /\ size \in Nat /\ size >= Shortest
      /\ k \in Nat /\ k < size
  <2>1. /\ whole # <<>> /\ whole \in Frames /\ Wellformed(whole)
        /\ k \in Nat /\ k < size
    BY FramesAssumption DEF LineInv, IInv, Arrive
  <2>2. whole \in Seq(Byte) /\ size \in Nat /\ size > HeaderSize
    BY <2>1, FrameFields
  <2> QED
    BY <2>1, <2>2 DEF Shortest, CrcSize
<1>2. byte \in Byte
  BY <1>1, ElementOfSeq
<1>3. ByteOutcome(byte)
  BY <1>2, ReceiveReturns DEF Arrive
<1>4. n \in Nat
  BY <1>3, ParserFields DEF ByteOutcome
<1>5. fate' = fate /\ Proceed
      /\ lost' = IF ~LastByte \/ fate \in {"hit", "cut"} \/ ~Plain(whole) THEN lost
                 ELSE IF frame' = whole \/ Len(whole) > Capacity THEN 0 ELSE lost + 1
  BY DEF Arrive
<1>6. lost \in Nat /\ lost <= LossBound /\ LossBound \in Nat /\ lost * Shortest \in Nat
      /\ (lost + 1) * Shortest = lost * Shortest + Shortest
  BY BoundTyped DEF LineInv, TypeOK, Catching
<1>7. fate = "late" /\ Plain(whole) =>
         /\ lost + 1 <= LossBound
         /\ \/ n >= 2 + lost * Shortest + k + 1
            \/ Within(parser', whole, k + 1)
            \/ k + 1 < size /\ Holds(parser', whole, k + 1)
            \/ k + 1 = size /\ (frame' = whole \/ size > Capacity)
  <2> SUFFICES ASSUME fate = "late", Plain(whole)
               PROVE  /\ lost + 1 <= LossBound
                      /\ \/ n >= 2 + lost * Shortest + k + 1
                         \/ Within(parser', whole, k + 1)
                         \/ k + 1 < size /\ Holds(parser', whole, k + 1)
                         \/ k + 1 = size /\ (frame' = whole \/ size > Capacity)
    OBVIOUS
  <2>1. lost + 1 <= LossBound
    BY <1>1 DEF LineInv, Catching
  <2> QED
    BY <1>2, <1>3, <2>1, LateByte
<1>8. fate \in {"hit", "cut"} \/ ~Plain(whole) => lost = 0
  BY <1>1 DEF LineInv, Catching
<1>9. CASE ~LastByte
  <2>1. whole' = whole /\ sent' = k + 1 /\ lost' = lost /\ k + 1 < size
    BY <1>1, <1>5, <1>9 DEF Proceed, LastByte
  <2>2. fate = "late" /\ Plain(whole) => (Swallowed \/ GivenUp \/ CaughtUp)'
    <3> SUFFICES ASSUME fate = "late", Plain(whole) PROVE (Swallowed \/ GivenUp \/ CaughtUp)'
      OBVIOUS
    <3>1. k + 1 >= 1
      BY <1>1
    <3>2. n >= 2 + lost * Shortest + k + 1 => Swallowed'
      BY <1>1, <1>4, <1>6, <2>1 DEF Swallowed, Shortest
    <3>3. Within(parser', whole, k + 1) => GivenUp'
      BY <2>1, <3>1 DEF GivenUp, Within
    <3>4. Holds(parser', whole, k + 1) => CaughtUp'
      BY <2>1, <3>1 DEF CaughtUp, Holds
    <3>5. k + 1 # size
      BY <1>1, <2>1
    <3> QED
      BY <1>7, <3>2, <3>3, <3>4, <3>5
  <2> QED
    BY <1>1, <1>5, <1>6, <1>7, <1>8, <2>1, <2>2 DEF Catching
<1>10. CASE LastByte
  <2>1. whole' = <<>> /\ k + 1 = size
    BY <1>5, <1>10 DEF Proceed, LastByte
  <2>2. CASE lost' = 0
    BY <1>4, <2>1, <2>2, CatchingAtZero
  <2>3. CASE lost' # 0
    <3>1. lost' = lost + 1 /\ frame' # whole /\ ~(size > Capacity)
          /\ fate \notin {"hit", "cut"} /\ Plain(whole)
      BY <1>5, <1>8, <1>10, <2>3
    <3>2. fate # "synced"
      <4> SUFFICES ASSUME fate = "synced" PROVE FALSE
        OBVIOUS
      <4> DEFINE r == Push(parser, byte)
      <4>1. Holds(parser, whole, sent) /\ Sound(parser)
        BY <1>1 DEF LineInv, IInv, Tracks
      <4>2. Delivers(r, whole)
        BY <1>1, <2>1, <4>1, PushNext
      <4>3. frame' = r.frame
        BY DEF Arrive, Receive
      <4>4. Capacity \in Nat
        OBVIOUS
      <4> HIDE DEF r
      <4>5. size <= Capacity
        BY <1>1, <3>1, <4>4
      <4> QED
        BY <3>1, <4>2, <4>3, <4>5 DEF Delivers
    <3>3. fate = "late"
      BY <3>1, <3>2 DEF LineInv, TypeOK, Fate
    <3>4. n >= 2 + lost * Shortest + size \/ Within(parser', whole, size)
      BY <1>1, <1>6, <1>7, <2>1, <3>1, <3>3
    <3>5. n <= 1 \/ n >= 2 + lost' * Shortest
      <4>1. Within(parser', whole, size) => n <= 1
        BY <1>1, <1>3, <3>1, WithinEnds DEF ByteOutcome
      <4> HIDE DEF n, size
      <4> QED
        BY <1>1, <1>4, <1>6, <3>1, <3>4, <4>1, BoundTyped
    <3>6. lost' <= LossBound
      BY <1>7, <3>1, <3>3
    <3> QED
      BY <2>1, <3>5, <3>6 DEF Catching, Shortest
  <2> QED
    BY <2>2, <2>3
<1> QED
  BY <1>9, <1>10

LEMMA NextCatching == ASSUME LineInv, [Next]_vars PROVE Catching'
<1>1. \A byte \in Byte : Receive(byte) => Len(parser'.buffer) \in Nat
  BY ReceiveReturns, ParserFields DEF ByteOutcome
<1>2. CASE Begin
  BY <1>2, BeginCatching
<1>3. CASE Arrive
  BY <1>3, ArriveCatching
<1>4. CASE Damage
  <2>1. lost' = 0 /\ fate' \in {"hit", "cut"}
    BY <1>4 DEF Damage
  <2> QED
    BY <1>1, <1>4, <2>1, CatchingAtZero DEF Damage
<1>5. CASE Drop
  <2>1. lost' = 0 /\ fate' = "cut" /\ parser' = parser
    BY <1>5 DEF Drop
  <2>2. Len(parser.buffer) \in Nat
    BY ParserFields DEF LineInv, IInv
  <2> QED
    BY <2>1, <2>2, CatchingAtZero
<1>6. CASE Noise
  <2>1. lost' = 0 /\ whole' = <<>>
    BY <1>6 DEF Noise
  <2> QED
    BY <1>1, <1>6, <2>1, CatchingAtZero DEF Noise
<1>7. CASE UNCHANGED vars
  BY <1>7 DEF vars, LineInv, Catching, Swallowed, GivenUp, CaughtUp, Holds, Within
<1> QED
  BY <1>2, <1>3, <1>4, <1>5, <1>6, <1>7 DEF Next

LEMMA InitLine == Init => LineInv
<1> SUFFICES ASSUME Init PROVE LineInv
  OBVIOUS
<1>1. parser = Empty /\ whole = <<>> /\ sent = 0 /\ lost = 0 /\ arrived = <<>>
      /\ frame = <<>> /\ status = "OK" /\ armed = FALSE /\ fate = "synced"
  BY DEF Init
<1>2. parser.buffer = <<>> /\ parser \in [buffer : Seq(Byte), expected : Nat]
  BY <1>1 DEF Empty
<1>3. MaxFrame \in Nat /\ MaxFrame >= 6 /\ LossBound \in Nat
  BY BoundTyped
<1>4. TypeOK
  <2>1. <<>> \in Seq(Byte) /\ Len(<<>>) = 0 /\ 0 \in 0..0 /\ Capacity \in Nat
    OBVIOUS
  <2>2. Len(parser.buffer) < MaxFrame /\ Len(frame) <= Capacity /\ Len(arrived) <= MaxFrame
    BY <1>1, <1>2, <1>3, <2>1
  <2>3. sent \in 0..Len(whole) /\ whole \in Frames \cup {<<>>}
    BY <1>1, <2>1
  <2> QED
    BY <1>1, <1>2, <2>1, <2>2, <2>3 DEF TypeOK, Status, Fate
<1>5. History
  BY <1>1, <1>2, <1>3 DEF History, IsSuffix
<1>6. Catching
  BY <1>1, <1>2, <1>3 DEF Catching
<1> QED
  BY <1>4, <1>5, <1>6, InitEstablishes DEF LineInv

LEMMA LineInvHolds == Spec => []LineInv
<1>1. LineInv /\ [Next]_vars => LineInv'
  BY NextPreserves, TypesPreserved, NextCatching DEF LineInv
<1> QED
  BY InitLine, <1>1, PTL DEF Spec

-----------------------------------------------------------------------------
(* Theorems *)

\* parser->size stays below the size of its buffer, so the write of the next
\* byte is always in bounds and the guard for a full buffer is never taken.
THEOREM BufferNeverFull == Spec => []BufferBounded
<1>1. IInv => BufferBounded
  <2> SUFFICES ASSUME IInv PROVE BufferBounded
    OBVIOUS
  <2> DEFINE b == parser.buffer  n == Len(b)  c == b[5]
  <2>1. b \in Seq(Byte) /\ n \in Nat /\ parser.expected \in Nat
    BY DEF IInv, Sound
  <2>2. \/ parser.expected = 0 /\ n < HeaderSize
        \/ /\ c <= MaxPayload /\ parser.expected = HeaderSize + c + CrcSize
           /\ HeaderSize <= n /\ n < parser.expected
    BY DEF IInv, Sound
  <2>3. HeaderSize <= n => c \in Nat
    <3>1. SUFFICES ASSUME HeaderSize <= n PROVE c \in Nat
      OBVIOUS
    <3>2. 5 \in 1..n
      BY <2>1, <3>1
    <3> QED
      BY <2>1, <3>2, ElementOfSeq
  <2> HIDE DEF c, n
  <2> QED
    BY <2>1, <2>2, <2>3 DEF BufferBounded, MaxFrame, CrcSize, n
<1> QED
  BY Invariance, <1>1, PTL

\* The receiver sees complete, checked frames only.
THEOREM OnlyWellformedFrames == Spec => []FramesWellformed
<1>1. IInv => FramesWellformed
  BY DEF IInv
<1> QED
  BY Invariance, <1>1, PTL

\* Whatever noise came before, a frame that meets the parser outside any
\* frame and arrives undamaged is delivered with its last byte and raises
\* no error on the way.
THEOREM IntactAlwaysDelivered == Spec => IntactIsDelivered
<1>1. ASSUME IInv, [Next]_vars
      PROVE  [Arrive /\ fate = "synced" =>
                IF ~LastByte THEN status' = "OK" /\ frame' = <<>>
                ELSE IF Len(whole) <= Capacity THEN frame' = whole
                ELSE status' = "BUFFER_TOO_SMALL"]_vars
  <2> SUFFICES ASSUME Arrive, fate = "synced"
               PROVE  IF ~LastByte THEN status' = "OK" /\ frame' = <<>>
                      ELSE IF Len(whole) <= Capacity THEN frame' = whole
                      ELSE status' = "BUFFER_TOO_SMALL"
    OBVIOUS
  <2> DEFINE r == Push(parser, whole[sent + 1])
  <2>1. /\ whole # <<>> /\ Wellformed(whole) /\ sent \in Nat /\ sent < Len(whole)
        /\ Len(whole) \in Nat
    BY <1>1, FramesAssumption, FrameFields DEF IInv, Arrive
  <2>2. Holds(parser, whole, sent)
    BY <1>1, <2>1 DEF IInv, Tracks
  <2>3. /\ sent + 1 < Len(whole) => HoldsOn(r, whole, sent + 1)
        /\ sent + 1 = Len(whole) => Delivers(r, whole)
    BY <1>1, <2>1, <2>2, PushNext DEF IInv
  <2>4. status' = r.status /\ frame' = r.frame
    BY DEF Arrive, Receive
  <2>5. sent + 1 < Len(whole) \/ sent + 1 = Len(whole)
    BY <2>1
  <2> HIDE DEF r
  <2> QED
    BY <2>1, <2>3, <2>4, <2>5 DEF LastByte, HoldsOn, Delivers
<1> QED
  BY <1>1, Invariance, PTL DEF Spec, IntactIsDelivered

\* Parser, line and histories stay well-typed.
THEOREM TypeCorrect == Spec => []TypeOK
<1>1. LineInv => TypeOK
  BY DEF LineInv
<1> QED
  BY LineInvHolds, <1>1, PTL

\* However bytes are lost, damaged and brought in by noise, the bytes of a
\* delivered frame arrived one after the other and belong to no earlier one.
THEOREM AlwaysDeliversWhatArrived == Spec => DeliversWhatArrived
<1>1. ASSUME LineInv, [Next]_vars
      PROVE  [\A byte \in Byte :
                Receive(byte) /\ frame' # <<>> =>
                   IsSuffix(frame', LastBytes(Append(arrived, byte)))]_vars
  BY <1>1, ReceiveReturns DEF ByteOutcome
<1> QED
  BY LineInvHolds, <1>1, PTL DEF Spec, DeliversWhatArrived

\* For every size of header and payload and every set of frames, whatever first
\* magic bytes they hold: a parser left open by noise or damage is outside
\* again after LossBound undamaged plain frames, and the next one is delivered.
THEOREM AlwaysRecovers == Spec => []Recovers
<1>1. LineInv => Recovers
  BY DEF LineInv, Catching, Recovers
<1> QED
  BY LineInvHolds, <1>1, PTL

=============================================================================
