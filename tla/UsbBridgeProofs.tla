---------------------------- MODULE UsbBridgeProofs ---------------------------
(***************************************************************************)
(* Theorems about the W530 bridge, for every number space, every capacity  *)
(* of the ports and any number of faults and restarts: what it writes to   *)
(* the sink is never armed and never behind what it wrote before; within   *)
(* one boot of the source it leaves out no more than the line lost; and    *)
(* how long it can refuse a source that has restarted.                     *)
(*                                                                         *)
(* The last two need the whole line: Regular says that the commands from   *)
(* the one the bridge remembers to the one the source sends next carry     *)
(* tallies of what was lost and what was repeated before each, and that    *)
(* the tallies account for every gap in the numbers of one boot.           *)
(***************************************************************************)
EXTENDS UsbBridge, SequenceTheorems, TLAPS

USE BridgeAssumption

-----------------------------------------------------------------------------
(* Pieces of the commands in a port *)

\* The element of a sequence that element i without, or with twice, element k is.
Past(k, i) == IF i < k THEN i ELSE i + 1
Back(k, i) == IF i <= k THEN i ELSE i - 1

LEMMA FirstOf ==
    ASSUME NEW S, NEW s \in Seq(S), NEW n \in 0..Len(s)
    PROVE  /\ ToFirst(n, s) \in Seq(S) /\ Len(ToFirst(n, s)) = n
           /\ \A j \in 1..n : ToFirst(n, s)[j] = s[j]
<1>1. Len(s) \in Nat /\ \A j \in 1..Len(s) : s[j] \in S
    BY LenProperties, ElementOfSeq
<1>2. \A j \in 1..n : s[j] \in S
    BY <1>1
<1>3. /\ SubSeq(s, 1, n) \in Seq(S)
      /\ Len(SubSeq(s, 1, n)) = IF 1 <= n THEN n - 1 + 1 ELSE 0
      /\ \A j \in 1..(n - 1 + 1) : SubSeq(s, 1, n)[j] = s[1 + j - 1]
    BY <1>1, <1>2, SubSeqProperties
<1> QED
    BY <1>1, <1>3 DEF ToFirst

LEMMA RestOf ==
    ASSUME NEW S, NEW s \in Seq(S), NEW n \in 0..Len(s)
    PROVE  /\ FromNext(n, s) \in Seq(S) /\ Len(FromNext(n, s)) = Len(s) - n
           /\ \A j \in 1..(Len(s) - n) : FromNext(n, s)[j] = s[n + j]
<1>1. Len(s) \in Nat /\ \A j \in 1..Len(s) : s[j] \in S
    BY LenProperties, ElementOfSeq
<1>2. \A j \in (n + 1)..Len(s) : s[j] \in S
    BY <1>1
<1>3. /\ SubSeq(s, n + 1, Len(s)) \in Seq(S)
      /\ Len(SubSeq(s, n + 1, Len(s))) =
            IF n + 1 <= Len(s) THEN Len(s) - (n + 1) + 1 ELSE 0
      /\ \A j \in 1..(Len(s) - (n + 1) + 1) :
            SubSeq(s, n + 1, Len(s))[j] = s[(n + 1) + j - 1]
    BY <1>1, <1>2, SubSeqProperties
<1>4. \A j \in 1..(Len(s) - n) : (n + 1) + j - 1 = n + j
    BY <1>1
<1> QED
    BY <1>1, <1>3, <1>4 DEF FromNext

LEMMA LossOf ==
    ASSUME NEW S, NEW s \in Seq(S), NEW i \in 1..Len(s)
    PROVE  /\ Without(s, i) \in Seq(S) /\ Len(Without(s, i)) = Len(s) - 1
           /\ \A j \in 1..(Len(s) - 1) : Without(s, i)[j] = s[Past(i, j)]
<1> DEFINE front == ToFirst(i - 1, s)
           back == FromNext(i, s)
<1>1. Len(s) \in Nat
    BY LenProperties
<1>2. Without(s, i) = front \o back
    BY DEF Without, ToFirst, FromNext
<1>3. i - 1 \in 0..Len(s) /\ i \in 0..Len(s)
    BY <1>1
<1>4. /\ front \in Seq(S) /\ Len(front) = i - 1
      /\ back \in Seq(S) /\ Len(back) = Len(s) - i
      /\ \A j \in 1..(i - 1) : front[j] = s[j]
      /\ \A j \in 1..(Len(s) - i) : back[j] = s[i + j]
    <2>1. front \in Seq(S) /\ Len(front) = i - 1 /\ \A j \in 1..(i - 1) : front[j] = s[j]
        BY <1>3, FirstOf, Zenon
    <2>2. /\ back \in Seq(S) /\ Len(back) = Len(s) - i
          /\ \A j \in 1..(Len(s) - i) : back[j] = s[i + j]
        BY <1>3, RestOf, Zenon
    <2> QED
        BY <2>1, <2>2, Zenon
<1> HIDE DEF front, back
<1>5. /\ front \o back \in Seq(S) /\ Len(front \o back) = Len(front) + Len(back)
      /\ \A j \in 1..(Len(front) + Len(back)) :
            (front \o back)[j] = IF j <= Len(front) THEN front[j] ELSE back[j - Len(front)]
    <2>1. front \in Seq(S) /\ back \in Seq(S)
        BY <1>4
    <2> QED
        BY <2>1, ConcatProperties
<1>6. ASSUME NEW j \in 1..(Len(s) - 1)
      PROVE  (front \o back)[j] = s[Past(i, j)]
    <2>1. (front \o back)[j] = IF j <= i - 1 THEN front[j] ELSE back[j - (i - 1)]
        BY <1>1, <1>4, <1>5
    <2>2. j <= i - 1 => front[j] = s[j]
        BY <1>1, <1>4
    <2>3. ~(j <= i - 1) => back[j - (i - 1)] = s[j + 1]
        <3>1. ~(j <= i - 1) => j - (i - 1) \in 1..(Len(s) - i) /\ i + (j - (i - 1)) = j + 1
            BY <1>1
        <3> QED
            BY <1>4, <3>1
    <2> QED
        BY <1>1, <2>1, <2>2, <2>3 DEF Past
<1> QED
    BY <1>1, <1>2, <1>4, <1>5, <1>6

LEMMA RepeatOf ==
    ASSUME NEW S, NEW s \in Seq(S), NEW i \in 1..Len(s)
    PROVE  /\ ToFirst(i, s) \o FromNext(i - 1, s) \in Seq(S)
           /\ Len(ToFirst(i, s) \o FromNext(i - 1, s)) = Len(s) + 1
           /\ \A j \in 1..(Len(s) + 1) : (ToFirst(i, s) \o FromNext(i - 1, s))[j] = s[Back(i, j)]
<1> DEFINE front == ToFirst(i, s)
           back == FromNext(i - 1, s)
<1>1. Len(s) \in Nat
    BY LenProperties
<1>2. i - 1 \in 0..Len(s) /\ i \in 0..Len(s)
    BY <1>1
<1>3. /\ front \in Seq(S) /\ Len(front) = i
      /\ back \in Seq(S) /\ Len(back) = Len(s) - (i - 1)
      /\ \A j \in 1..i : front[j] = s[j]
      /\ \A j \in 1..(Len(s) - (i - 1)) : back[j] = s[(i - 1) + j]
    <2>1. front \in Seq(S) /\ Len(front) = i /\ \A j \in 1..i : front[j] = s[j]
        BY <1>2, FirstOf, Zenon
    <2>2. /\ back \in Seq(S) /\ Len(back) = Len(s) - (i - 1)
          /\ \A j \in 1..(Len(s) - (i - 1)) : back[j] = s[(i - 1) + j]
        <3>1. ASSUME NEW n \in 0..Len(s), n = i - 1
              PROVE  /\ FromNext(n, s) \in Seq(S) /\ Len(FromNext(n, s)) = Len(s) - n
                     /\ \A j \in 1..(Len(s) - n) : FromNext(n, s)[j] = s[n + j]
            BY RestOf, Zenon
        <3> QED
            BY <1>2, <3>1, Zenon
    <2> QED
        BY <2>1, <2>2, Zenon
<1> HIDE DEF front, back
<1>4. /\ front \o back \in Seq(S) /\ Len(front \o back) = Len(front) + Len(back)
      /\ \A j \in 1..(Len(front) + Len(back)) :
            (front \o back)[j] = IF j <= Len(front) THEN front[j] ELSE back[j - Len(front)]
    <2>1. front \in Seq(S) /\ back \in Seq(S)
        BY <1>3
    <2> QED
        BY <2>1, ConcatProperties
<1>5. ASSUME NEW j \in 1..(Len(s) + 1)
      PROVE  (front \o back)[j] = s[Back(i, j)]
    <2>1. (front \o back)[j] = IF j <= i THEN front[j] ELSE back[j - i]
        BY <1>1, <1>3, <1>4
    <2>2. j <= i => front[j] = s[j]
        BY <1>1, <1>3
    <2>3. ~(j <= i) => back[j - i] = s[j - 1]
        <3>1. ~(j <= i) => j - i \in 1..(Len(s) - (i - 1)) /\ (i - 1) + (j - i) = j - 1
            BY <1>1
        <3> QED
            BY <1>3, <3>1
    <2> QED
        BY <1>1, <2>1, <2>2, <2>3 DEF Back
<1> QED
    BY <1>1, <1>3, <1>4, <1>5 DEF front, back

-----------------------------------------------------------------------------
(* Sequence numbers *)

LEMMA ModulusPositive == Modulus \in Nat /\ Modulus >= 2 /\ Modulus \div 2 \in 1..(Modulus - 1)
<1>1. Modulus # 1
    <2>1. 1 % 2 = 1
        OBVIOUS
    <2> QED
        BY <2>1
<1> QED
    BY <1>1

LEMMA FollowingTyped ==
    ASSUME NEW n \in 0..(Modulus - 1) PROVE Following(n) \in 0..(Modulus - 1)
BY DEF Following

LEMMA ModOnce ==
    ASSUME NEW m \in Nat, m > 0, NEW x \in 0..(m - 1)
    PROVE  x % m = x /\ (x + m) % m = x /\ (x - m) % m = x
OBVIOUS

\* The comparison of the bridge follows the wrap: a number is behind another
\* exactly when it is the same or at least half of the number space ahead.
THEOREM OrderFollowsWrap ==
    ASSUME NEW latest \in 0..(Modulus - 1), NEW k \in 0..(Modulus - 1)
    PROVE  Behind((latest + k) % Modulus, latest) <=> k = 0 \/ k >= Modulus \div 2
<1>1. Modulus \in Nat /\ Modulus >= 2 /\ Modulus \div 2 \in 1..(Modulus - 1)
    BY ModulusPositive
<1>2. (((latest + k) % Modulus) - latest) % Modulus = k
    <2>1. CASE latest + k < Modulus
        <3>1. (latest + k) % Modulus = latest + k
            BY <1>1, <2>1, ModOnce
        <3>2. k % Modulus = k
            BY <1>1, ModOnce
        <3> QED
            BY <1>1, <3>1, <3>2
    <2>2. CASE latest + k >= Modulus
        <3>1. latest + k - Modulus \in 0..(Modulus - 1)
            BY <1>1, <2>2
        <3>2. ((latest + k - Modulus) + Modulus) % Modulus = latest + k - Modulus
            BY <1>1, <3>1, ModOnce
        <3>3. (latest + k) % Modulus = latest + k - Modulus
            BY <1>1, <3>2
        <3>4. (k - Modulus) % Modulus = k
            BY <1>1, ModOnce
        <3> QED
            BY <1>1, <3>3, <3>4
    <2> QED
        BY <1>1, <2>1, <2>2
<1> QED
    BY <1>1, <1>2 DEF Behind

-----------------------------------------------------------------------------
(* What the bridge writes *)

\* A command is not behind another one: of another session, or a new number.
Ahead(c, earlier) == c.session # earlier.session \/ ~Behind(c.seq, earlier.seq)

\* The command in write_all is unarmed, remembered, and ahead of the last one.
Ready ==
    /\ ~bridge.frame.armed
    /\ bridge.initialized
    /\ bridge.session = bridge.frame.session /\ bridge.sequence = bridge.frame.seq
    /\ last # NoCommand => Ahead(bridge.frame, last)

\* Otherwise the last command written is the one remembered.
Settled ==
    last # NoCommand =>
        bridge.initialized /\ bridge.session = last.session /\ bridge.sequence = last.seq

Unarmed == {c \in Command : ~c.armed}

BridgeInv ==
    /\ toSink \in Seq(Unarmed)
    /\ bridge.writing = "command" => Ready
    /\ bridge.writing # "command" => Settled
    /\ bridge.phase = "exited" => last = NoCommand /\ bridge.writing = "nothing"

IInv == TypeOK /\ BridgeInv

Bridge ==
    [phase : {"poll", "commands", "telemetry", "exited"},
     running : BOOLEAN, sinkReady : BOOLEAN,
     input : Seq(Command), telemetry : 0..SinkCapacity,
     writing : Writing, frame : Command,
     initialized : BOOLEAN, session : Session, sequence : 0..(Modulus - 1)]

LEMMA NoCommandTyped == NoCommand \in Command
BY ModulusPositive DEF NoCommand, Command

LEMMA StartedTyped ==
    /\ StartedBridge \in Bridge
    /\ [StartedBridge EXCEPT !.phase = "exited", !.running = FALSE] \in Bridge
<1>1. <<>> \in Seq(Command)
    BY EmptySeq
<1>2. 0 \in 0..SinkCapacity /\ 0 \in 0..(Modulus - 1)
    BY ModulusPositive
<1>3. StartedBridge \in Bridge
    BY <1>1, <1>2, NoCommandTyped DEF StartedBridge, Bridge, Writing
<1>4. ASSUME NEW b \in Bridge
      PROVE  [b EXCEPT !.phase = "exited", !.running = FALSE] \in Bridge
    BY DEF Bridge
<1> QED
    BY <1>3, <1>4

LEMMA InitIInv == Init => IInv
<1> SUFFICES ASSUME Init PROVE IInv
    OBVIOUS
<1>1. TypeOK
    BY StartedTyped, NoCommandTyped, ModulusPositive, EmptySeq
    DEF Init, TypeOK, Bridge
<1>2. BridgeInv
    BY EmptySeq DEF Init, BridgeInv, Settled, StartedBridge
<1> QED
    BY <1>1, <1>2 DEF IInv

\* The source, the sink and the lines leave bridge and last alone.
LEMMA Aside ==
    ASSUME IInv, UNCHANGED <<bridge, last>>, toSink' \in Seq(Unarmed)
    PROVE  BridgeInv'
BY DEF IInv, BridgeInv, Ready, Settled, Ahead, Behind

LEMMA UnarmedTyped == ASSUME NEW s \in Seq(Unarmed) PROVE s \in Seq(Command)
BY DEF Unarmed

LEMMA SendKeeps == ASSUME IInv, SourceSend \/ SourceReboot PROVE IInv'
<1> USE DEF IInv, TypeOK
<1>1. CASE SourceSend
    <2>1. source' \in [next : 0..(Modulus - 1), boot : 0..MaxReboots]
        BY <1>1, FollowingTyped DEF SourceSend
    <2>2. toBridge' \in Seq(Command) /\ Len(toBridge') <= PortCapacity
        <3>1. CASE bridge.phase = "exited"
            BY <1>1, <3>1 DEF SourceSend
        <3>2. CASE bridge.phase # "exited"
            <4> DEFINE c == [session |-> HilSession, seq |-> source.next, armed |-> FALSE,
                             boot |-> source.boot]
            <4>1. c \in Command
                BY DEF Command
            <4>2. toBridge' = Append(toBridge, c) /\ Len(toBridge) < PortCapacity
                BY <1>1, <3>2 DEF SourceSend
            <4> HIDE DEF c
            <4>3. Append(toBridge, c) \in Seq(Command)
                  /\ Len(Append(toBridge, c)) = Len(toBridge) + 1 /\ Len(toBridge) \in Nat
                BY <4>1, AppendProperties, LenProperties
            <4> QED
                BY <4>2, <4>3
        <3> QED
            BY <3>1, <3>2
    <2>3. UNCHANGED <<bridge, toSink, toHost, faults, last, refused>>
        BY <1>1 DEF SourceSend, historyVars
    <2>4. BridgeInv'
        BY <2>3, Aside DEF BridgeInv
    <2> QED
        BY <2>1, <2>2, <2>3, <2>4
<1>2. CASE SourceReboot
    <2>1. source' \in [next : 0..(Modulus - 1), boot : 0..MaxReboots]
        BY <1>2, ModulusPositive DEF SourceReboot
    <2>2. UNCHANGED <<toBridge, bridge, toSink, toHost, faults, last, refused>>
        BY <1>2 DEF SourceReboot, historyVars
    <2>3. BridgeInv'
        BY <2>2, Aside DEF BridgeInv
    <2> QED
        BY <2>1, <2>2, <2>3
<1> QED
    BY <1>1, <1>2

LEMMA PollKeeps == ASSUME IInv, BridgePoll PROVE IInv'
<1>1. /\ bridge \in Bridge /\ toBridge \in Seq(Command) /\ Len(toBridge) <= PortCapacity
      /\ BridgeInv
    BY DEF IInv, TypeOK, Bridge
<1>2. PICK n \in 0..Len(toBridge) :
         /\ bridge' = [bridge EXCEPT !.phase = "commands", !.sinkReady = toHost > 0,
                                     !.input = ToFirst(n, toBridge)]
         /\ toBridge' = FromNext(n, toBridge)
    BY DEF BridgePoll, Poll
<1>3. /\ ToFirst(n, toBridge) \in Seq(Command) /\ FromNext(n, toBridge) \in Seq(Command)
      /\ Len(FromNext(n, toBridge)) = Len(toBridge) - n /\ Len(toBridge) \in Nat
    BY <1>1, FirstOf, RestOf, LenProperties
<1>4. UNCHANGED <<source, toSink, toHost, faults, last, refused>>
    BY DEF BridgePoll, historyVars
<1>5. bridge' \in Bridge /\ toBridge' \in Seq(Command) /\ Len(toBridge') <= PortCapacity
    <2>1. ASSUME NEW b \in Bridge, NEW ready \in BOOLEAN, NEW input \in Seq(Command)
          PROVE  [b EXCEPT !.phase = "commands", !.sinkReady = ready, !.input = input]
                    \in Bridge
        BY DEF Bridge
    <2>2. (toHost > 0) \in BOOLEAN
        OBVIOUS
    <2>3. bridge' \in Bridge
        BY <1>1, <1>2, <1>3, <2>1, <2>2, Zenon
    <2> QED
        BY <1>1, <1>2, <1>3, <2>3
<1>6. TypeOK'
    BY <1>4, <1>5 DEF IInv, TypeOK, Bridge
<1>7. BridgeInv'
    BY <1>1, <1>2, <1>4 DEF Bridge, BridgeInv, Ready, Settled, Ahead, Behind
<1> QED
    BY <1>6, <1>7 DEF IInv

\* The end of a bridge forgets what it remembered.
LEMMA ExitKeeps == ASSUME IInv, Exit, faults' \in 0..MaxFaults PROVE IInv'
<1>1. /\ bridge' \in Bridge /\ toBridge' = <<>> /\ last' = NoCommand
      /\ refused' = [boot |-> 0, count |-> 0] /\ UNCHANGED <<source, toSink, toHost>>
    BY StartedTyped DEF Exit
<1>2. TypeOK'
    <2>1. toBridge' \in Seq(Command) /\ Len(toBridge') <= PortCapacity
        BY <1>1, EmptySeq
    <2>2. refused' \in [boot : 0..MaxReboots, count : Nat]
        BY <1>1
    <2> QED
        BY <1>1, <2>1, <2>2, NoCommandTyped DEF IInv, TypeOK, Bridge
<1>3. bridge'.phase = "exited" /\ bridge'.writing = "nothing"
    BY DEF Exit, StartedBridge
<1>4. BridgeInv'
    BY <1>1, <1>3 DEF IInv, BridgeInv, Settled
<1> QED
    BY <1>2, <1>4 DEF IInv

LEMMA CommandKeeps == ASSUME IInv, BridgeCommand PROVE IInv'
<1> DEFINE c == Head(bridge.input)
           b == Consider(bridge, c)
           rest == Tail(b.input)
<1>1. /\ bridge \in Bridge /\ BridgeInv /\ bridge.writing = "nothing"
      /\ bridge.phase = "commands" /\ bridge.input # <<>>
    BY DEF IInv, TypeOK, Bridge, BridgeCommand
<1>2. /\ c \in Command /\ Tail(bridge.input) \in Seq(Command)
    BY <1>1, HeadTailProperties DEF Bridge
<1>3. /\ bridge' = [b EXCEPT !.input = rest]
      /\ UNCHANGED <<source, toBridge, toSink, toHost, faults, last>>
      /\ refused' = IF ~Stale(bridge, c) THEN [boot |-> c.boot, count |-> 0]
                    ELSE [boot |-> c.boot,
                          count |-> IF c.boot = refused.boot THEN refused.count + 1 ELSE 1]
    BY DEF BridgeCommand
<1> HIDE DEF c
<1>4. /\ b \in Bridge /\ b.phase = "commands" /\ b.input = bridge.input
      /\ b = bridge \/ /\ ~c.armed /\ IsNew(bridge, c)
                       /\ b.writing = "command" /\ b.frame = c /\ b.initialized
                       /\ b.session = c.session /\ b.sequence = c.seq
    BY <1>1, <1>2 DEF Consider, Stale, Ordered, Bridge, Command, Writing
<1>9. rest \in Seq(Command)
    BY <1>2, <1>4
<1> HIDE DEF b, rest
<1>5. /\ bridge' \in Bridge /\ bridge'.phase = b.phase /\ bridge'.writing = b.writing
      /\ bridge'.frame = b.frame /\ bridge'.initialized = b.initialized
      /\ bridge'.session = b.session /\ bridge'.sequence = b.sequence
    BY <1>3, <1>4, <1>9 DEF Bridge
<1>6. refused' \in [boot : 0..MaxReboots, count : Nat]
    <2>1. c.boot \in 0..MaxReboots /\ refused.count \in Nat
        BY <1>2 DEF Command, IInv, TypeOK
    <2> QED
        BY <1>3, <2>1
<1>7. TypeOK'
    BY <1>3, <1>5, <1>6 DEF IInv, TypeOK, Bridge
<1>8. BridgeInv'
    <2>1. CASE b = bridge
        BY <1>1, <1>3, <1>5, <2>1 DEF BridgeInv, Settled
    <2>2. CASE b # bridge
        <3>1. last # NoCommand => Ahead(c, last)
            BY <1>1, <1>4, <2>2 DEF BridgeInv, Settled, IsNew, Ahead
        <3>2. Ready'
            BY <1>3, <1>4, <1>5, <2>2, <3>1 DEF Ready, Ahead, Behind
        <3> QED
            BY <1>1, <1>3, <1>4, <1>5, <2>2, <3>2 DEF BridgeInv
    <2> QED
        BY <2>1, <2>2
<1> QED
    BY <1>7, <1>8 DEF IInv

LEMMA TurnKeeps == ASSUME IInv, BridgeTurn PROVE IInv'
<1>1. bridge \in Bridge /\ BridgeInv /\ toHost \in 0..SinkCapacity
      /\ bridge.writing = "nothing" /\ bridge.phase = "commands"
    BY DEF IInv, TypeOK, Bridge, BridgeTurn
<1>2. UNCHANGED <<source, toBridge, toSink, faults, last, refused>> /\ Turn
    BY DEF BridgeTurn, historyVars
<1>3. /\ toHost' \in 0..SinkCapacity
      /\ bridge' \in Bridge /\ bridge'.phase # "exited"
      /\ bridge'.writing = bridge.writing /\ bridge'.initialized = bridge.initialized
      /\ bridge'.session = bridge.session /\ bridge'.sequence = bridge.sequence
    <2>1. CASE bridge.sinkReady
        <3>1. PICK n \in 1..toHost :
                 /\ bridge' = [bridge EXCEPT !.phase = "telemetry", !.telemetry = n]
                 /\ toHost' = toHost - n
            BY <1>2, <2>1 DEF Turn
        <3>2. n \in 0..SinkCapacity /\ toHost - n \in 0..SinkCapacity
            BY <1>1
        <3> QED
            BY <1>1, <3>1, <3>2 DEF Bridge
    <2>2. CASE ~bridge.sinkReady
        <3>1. bridge' = [bridge EXCEPT !.phase = "poll"] /\ toHost' = toHost
            BY <1>2, <2>2 DEF Turn
        <3> QED
            BY <1>1, <3>1 DEF Bridge
    <2> QED
        BY <2>1, <2>2
<1>5. TypeOK'
    BY <1>2, <1>3 DEF IInv, TypeOK, Bridge
<1>6. BridgeInv'
    BY <1>1, <1>2, <1>3 DEF BridgeInv, Settled
<1> QED
    BY <1>5, <1>6 DEF IInv

LEMMA TelemetryKeeps ==
    ASSUME IInv, BridgeTelemetry \/ TelemetryFault PROVE IInv'
<1>1. /\ bridge \in Bridge /\ BridgeInv /\ bridge.telemetry \in 0..SinkCapacity
      /\ bridge.writing = "nothing" /\ bridge.phase = "telemetry"
    BY DEF IInv, TypeOK, Bridge, BridgeTelemetry, TelemetryFault
<1>2. /\ UNCHANGED <<source, toBridge, toSink, toHost, last, refused>>
      /\ faults' \in 0..MaxFaults
    <2>1. faults \in 0..MaxFaults
        BY DEF IInv, TypeOK
    <2>2. CASE BridgeTelemetry
        BY <2>1, <2>2 DEF BridgeTelemetry, historyVars
    <2>3. CASE TelemetryFault
        BY <2>1, <2>3 DEF TelemetryFault, historyVars
    <2> QED
        BY <2>2, <2>3
<1>3. \/ /\ bridge.telemetry > 0
         /\ \/ bridge' = [bridge EXCEPT !.telemetry = @ - 1, !.writing = "telemetry"]
            \/ bridge' = [bridge EXCEPT !.telemetry = @ - 1]
      \/ bridge' = [bridge EXCEPT !.phase = "poll"]
    BY DEF BridgeTelemetry, TelemetryFault
<1>4. /\ bridge' \in Bridge /\ bridge'.phase # "exited"
      /\ bridge'.writing # "command" /\ bridge'.initialized = bridge.initialized
      /\ bridge'.session = bridge.session /\ bridge'.sequence = bridge.sequence
    <2>1. bridge.telemetry > 0 => bridge.telemetry - 1 \in 0..SinkCapacity
        BY <1>1
    <2> QED
        BY <1>1, <1>3, <2>1 DEF Bridge, Writing
<1>5. TypeOK'
    BY <1>2, <1>4 DEF IInv, TypeOK, Bridge
<1>6. BridgeInv'
    BY <1>1, <1>2, <1>4 DEF BridgeInv, Settled
<1> QED
    BY <1>5, <1>6 DEF IInv

LEMMA WriteKeeps == ASSUME IInv, BridgeWrite PROVE IInv'
<1>1. /\ bridge \in Bridge /\ BridgeInv /\ toSink \in Seq(Command)
      /\ Len(toSink) <= SinkCapacity /\ last \in Command
      /\ bridge.phase # "exited" /\ bridge.writing # "nothing"
    BY DEF IInv, TypeOK, Bridge, BridgeWrite
<1>2. /\ bridge' = [bridge EXCEPT !.writing = "nothing", !.frame = NoCommand]
      /\ UNCHANGED <<source, toBridge, toHost, faults, refused>>
    BY DEF BridgeWrite
<1>3. /\ bridge' \in Bridge /\ bridge'.phase = bridge.phase /\ bridge'.writing = "nothing"
      /\ bridge'.initialized = bridge.initialized
      /\ bridge'.session = bridge.session /\ bridge'.sequence = bridge.sequence
    BY <1>1, <1>2, NoCommandTyped DEF Bridge, Writing
<1>4. CASE bridge.writing = "command"
    <2>1. /\ Len(toSink) < SinkCapacity /\ toSink' = Append(toSink, bridge.frame)
          /\ last' = bridge.frame /\ Ready /\ toSink \in Seq(Unarmed)
        BY <1>1, <1>4 DEF BridgeWrite, BridgeInv
    <2>2. bridge.frame \in Command /\ bridge.frame \in Unarmed
        BY <1>1, <2>1 DEF Bridge, Ready, Unarmed
    <2>3. /\ toSink' \in Seq(Command) /\ toSink' \in Seq(Unarmed)
          /\ Len(toSink') = Len(toSink) + 1 /\ Len(toSink) \in Nat
        BY <1>1, <2>1, <2>2, AppendProperties, LenProperties
    <2>4. last' \in Command /\ Len(toSink') <= SinkCapacity
        BY <2>1, <2>2, <2>3
    <2>5. TypeOK'
        BY <1>2, <1>3, <2>3, <2>4 DEF IInv, TypeOK, Bridge
    <2>6. BridgeInv'
        BY <1>1, <1>3, <2>1, <2>3 DEF BridgeInv, Ready, Settled
    <2> QED
        BY <2>5, <2>6 DEF IInv
<1>5. CASE bridge.writing # "command"
    <2>1. UNCHANGED <<toSink, last>>
        BY <1>5 DEF BridgeWrite
    <2>2. TypeOK'
        BY <1>2, <1>3, <2>1 DEF IInv, TypeOK, Bridge
    <2>3. BridgeInv'
        BY <1>1, <1>3, <1>5, <2>1 DEF BridgeInv, Settled
    <2> QED
        BY <2>2, <2>3 DEF IInv
<1> QED
    BY <1>4, <1>5

LEMMA SignalKeeps == ASSUME IInv, BridgeSignal PROVE IInv'
<1>1. /\ bridge \in Bridge /\ BridgeInv
      /\ bridge' = [bridge EXCEPT !.running = FALSE]
      /\ UNCHANGED <<source, toBridge, toSink, toHost, faults, last, refused>>
    BY DEF IInv, TypeOK, Bridge, BridgeSignal, historyVars
<1>2. TypeOK'
    BY <1>1 DEF IInv, TypeOK, Bridge
<1>3. BridgeInv'
    BY <1>1 DEF Bridge, BridgeInv, Ready, Settled, Ahead, Behind
<1> QED
    BY <1>2, <1>3 DEF IInv

LEMMA StartKeeps == ASSUME IInv, BridgeStart PROVE IInv'
<1>1. /\ BridgeInv /\ last = NoCommand /\ toHost \in 0..SinkCapacity
      /\ toSink \in Seq(Unarmed) /\ SinkCapacity \in Nat
    BY DEF IInv, TypeOK, BridgeInv, BridgeStart
<1>2. /\ bridge' = StartedBridge /\ bridge' \in Bridge
      /\ toSink' = <<>> \/ toSink' = toSink
      /\ toHost' \in 0..SinkCapacity
      /\ UNCHANGED <<source, toBridge, faults, last, refused>>
    BY <1>1, StartedTyped DEF BridgeStart, historyVars
<1>3. TypeOK'
    <2>1. toSink' \in Seq(Command) /\ Len(toSink') <= SinkCapacity
        <3>1. CASE toSink' = <<>>
            BY <1>1, <3>1, EmptySeq
        <3>2. CASE toSink' = toSink
            BY <3>2 DEF IInv, TypeOK
        <3> QED
            BY <1>2, <3>1, <3>2
    <2> QED
        BY <1>2, <2>1 DEF IInv, TypeOK, Bridge
<1>4. BridgeInv'
    BY <1>1, <1>2, EmptySeq DEF BridgeInv, Settled, StartedBridge
<1> QED
    BY <1>3, <1>4 DEF IInv

LEMMA ReceiveKeeps == ASSUME IInv, SinkReceive PROVE IInv'
<1>1. /\ toSink \in Seq(Unarmed) /\ toSink \in Seq(Command) /\ toSink # <<>>
      /\ Len(toSink) <= SinkCapacity /\ toHost \in 0..SinkCapacity
      /\ toSink' = Tail(toSink)
      /\ UNCHANGED <<source, toBridge, bridge, faults, last, refused>>
    BY DEF IInv, TypeOK, BridgeInv, SinkReceive, historyVars
<1>2. /\ toSink' \in Seq(Unarmed) /\ toSink' \in Seq(Command)
      /\ Len(toSink') = Len(toSink) - 1 /\ Len(toSink) \in Nat
    BY <1>1, HeadTailProperties, LenProperties
<1>3. toHost' \in 0..SinkCapacity
    BY <1>1 DEF SinkReceive
<1>4. TypeOK'
    <2>1. Len(toSink') <= SinkCapacity
        BY <1>1, <1>2
    <2> QED
        BY <1>1, <1>2, <1>3, <2>1 DEF IInv, TypeOK
<1>5. BridgeInv'
    BY <1>1, <1>2, Aside
<1> QED
    BY <1>4, <1>5 DEF IInv

\* An armed command may join the line to the bridge, never the one behind it.
LEMMA LineKeeps == ASSUME IInv, LineFault PROVE IInv'
<1>1. /\ toBridge \in Seq(Command) /\ Len(toBridge) <= PortCapacity /\ Len(toBridge) \in Nat
      /\ toSink \in Seq(Command) /\ Len(toSink) <= SinkCapacity /\ Len(toSink) \in Nat
      /\ toSink \in Seq(Unarmed) /\ source.boot \in 0..MaxReboots
    BY LenProperties DEF IInv, TypeOK, BridgeInv
<1>2. /\ faults' \in 0..MaxFaults
      /\ UNCHANGED <<source, bridge, toHost, last, refused>>
    BY DEF IInv, TypeOK, LineFault, historyVars
<1>3. /\ toBridge' \in Seq(Command) /\ Len(toBridge') <= PortCapacity
      /\ toSink' \in Seq(Command) /\ Len(toSink') <= SinkCapacity
      /\ toSink' \in Seq(Unarmed)
    <2>1. CASE /\ \E i \in 1..Len(toBridge) : toBridge' = Without(toBridge, i)
               /\ UNCHANGED toSink
        BY <1>1, <2>1, LossOf
    <2>2. CASE /\ \E i \in 1..Len(toSink) : toSink' = Without(toSink, i)
               /\ UNCHANGED toBridge
        BY <1>1, <2>2, LossOf
    <2>3. CASE /\ Len(toBridge) < PortCapacity
               /\ \E i \in 1..Len(toBridge) :
                     toBridge' = ToFirst(i, toBridge) \o FromNext(i - 1, toBridge)
               /\ UNCHANGED toSink
        BY <1>1, <2>3, RepeatOf
    <2>4. CASE /\ bridge.phase # "exited" /\ Len(toBridge) < PortCapacity
               /\ \E s \in Session, seq \in 0..(Modulus - 1) :
                     toBridge' = Append(toBridge, [session |-> s, seq |-> seq, armed |-> TRUE,
                                                   boot |-> source.boot])
               /\ UNCHANGED toSink
        <3>1. PICK c \in Command : toBridge' = Append(toBridge, c)
            BY <1>1, <2>4 DEF Command
        <3>2. toBridge' \in Seq(Command) /\ Len(toBridge') = Len(toBridge) + 1
            BY <1>1, <3>1, AppendProperties
        <3> QED
            BY <1>1, <2>4, <3>2
    <2> QED
        BY <2>1, <2>2, <2>3, <2>4 DEF LineFault
<1>4. TypeOK'
    BY <1>2, <1>3 DEF IInv, TypeOK
<1>5. BridgeInv'
    BY <1>2, <1>3, Aside
<1> QED
    BY <1>4, <1>5 DEF IInv

LEMMA StutterKeeps == ASSUME IInv, UNCHANGED vars PROVE IInv'
<1>1. TypeOK'
    BY DEF IInv, TypeOK, vars
<1>2. BridgeInv'
    BY Aside DEF IInv, BridgeInv, vars
<1> QED
    BY <1>1, <1>2 DEF IInv

LEMMA IInvHolds == Spec => []IInv
<1>1. IInv /\ [Next]_vars => IInv'
    <2>1. SUFFICES ASSUME IInv, [Next]_vars PROVE IInv'
        OBVIOUS
    <2>2. CASE SourceSend \/ SourceReboot
        BY <2>1, <2>2, SendKeeps
    <2>3. CASE BridgePoll
        BY <2>1, <2>3, PollKeeps
    <2>4. CASE BridgeStop
        <3>1. Exit /\ faults' \in 0..MaxFaults
            BY <2>1, <2>4 DEF BridgeStop, IInv, TypeOK
        <3> QED
            BY <2>1, <3>1, ExitKeeps
    <2>5. CASE BridgeFail
        <3>1. Exit /\ faults' \in 0..MaxFaults
            BY <2>1, <2>5 DEF BridgeFail, IInv, TypeOK
        <3> QED
            BY <2>1, <3>1, ExitKeeps
    <2>6. CASE BridgeCommand
        BY <2>1, <2>6, CommandKeeps
    <2>7. CASE BridgeTurn
        BY <2>1, <2>7, TurnKeeps
    <2>8. CASE BridgeTelemetry \/ TelemetryFault
        BY <2>1, <2>8, TelemetryKeeps
    <2>9. CASE BridgeWrite
        BY <2>1, <2>9, WriteKeeps
    <2>10. CASE BridgeSignal
        BY <2>1, <2>10, SignalKeeps
    <2>11. CASE BridgeStart
        BY <2>1, <2>11, StartKeeps
    <2>12. CASE SinkReceive
        BY <2>1, <2>12, ReceiveKeeps
    <2>13. CASE LineFault
        BY <2>1, <2>13, LineKeeps
    <2>14. CASE UNCHANGED vars
        BY <2>1, <2>14, StutterKeeps
    <2> QED
        BY <2>1, <2>2, <2>3, <2>4, <2>5, <2>6, <2>7, <2>8, <2>9, <2>10, <2>11,
           <2>12, <2>13, <2>14
        DEF Next, BridgeStep
<1> QED
    BY InitIInv, <1>1, PTL DEF Spec

-----------------------------------------------------------------------------

\* Source, bridge, sink and lines stay well-typed: numbers stay in their
\* width, no port holds more than it can.
THEOREM TypeCorrect == Spec => []TypeOK
<1>1. IInv => TypeOK
    BY DEF IInv
<1> QED
    BY IInvHolds, <1>1, PTL

\* No command on its way to the motors is armed, whoever sent it.
NothingArmed == \A i \in 1..Len(toSink) : ~toSink[i].armed

\* tools/hil_usb_bridge.c lines 130-133: an armed command is not forwarded,
\* whatever joins the line to the bridge.
THEOREM NeverForwardsArmed == Spec => []NothingArmed
<1>1. IInv => NothingArmed
    BY ElementOfSeq DEF IInv, BridgeInv, Unarmed, NothingArmed
<1> QED
    BY IInvHolds, <1>1, PTL

\* Within one run and session no command is written that is behind the one
\* written before, across restarts of the source, repeats and the wrap.
NeverBack ==
    [][BridgeWrite /\ bridge.writing = "command" /\ last # NoCommand
        => Ahead(bridge.frame, last)]_vars

\* sequence_is_new (tools/hil_usb_bridge.c lines 86-99) orders what the bridge writes.
THEOREM OrderKept == Spec => NeverBack
<1>1. ASSUME IInv, [Next]_vars
      PROVE  [BridgeWrite /\ bridge.writing = "command" /\ last # NoCommand
                => Ahead(bridge.frame, last)]_vars
    BY <1>1 DEF IInv, BridgeInv, Ready
<1> QED
    BY IInvHolds, <1>1, PTL DEF Spec, NeverBack

-----------------------------------------------------------------------------
(* Tallies; the assumption on the constants is cited where it is needed *)

HIDE BridgeAssumption

\* A tally that d more enter from the k-th place on grows as it did before.
LEMMA Raised ==
    ASSUME NEW x \in Nat, NEW y \in Nat, x <= y, NEW d \in 0..1,
           NEW i \in Nat, NEW j \in Nat, NEW k \in Nat, i < j,
           NEW u, u = x + (IF i < k THEN 0 ELSE d), NEW v, v = y + (IF j < k THEN 0 ELSE d)
    PROVE  /\ u \in Nat /\ v \in Nat /\ u <= v
           /\ v - u \in Nat /\ y - x \in Nat /\ y - x <= v - u
OBVIOUS

LEMMA Bounds ==
    /\ Modulus \in Nat /\ Modulus >= 2 /\ Modulus \div 2 \in 1..(Modulus - 1)
    /\ MaxFaults \in Nat /\ MaxReboots \in Nat
BY ModulusPositive, BridgeAssumption

\* The elements of a command.
LEMMA CommandFields ==
    ASSUME NEW c \in Command
    PROVE  c.seq \in 0..(Modulus - 1) /\ c.boot \in Nat /\ c.armed \in BOOLEAN
BY Bounds DEF Command


-----------------------------------------------------------------------------
(* How far apart the numbers of successive commands can be *)

\* How many numbers on command y is, counted from x.
Gap(x, y) == (y.seq - x.seq) % Modulus

\* y is the next command after x, but for at most "lost" that are missing and
\* at most "extra" repeats.
Follows(x, y, lost, extra) ==
    FewFaults => 1 - extra <= Gap(x, y) /\ Gap(x, y) <= 1 + lost

\* Two unarmed commands with nothing but armed ones between them.
Adjacent(q, i, j) ==
    ~q[i].armed /\ ~q[j].armed /\ \A k \in (i + 1)..(j - 1) : q[k].armed

\* The tallies of what was lost and repeated before each command grow along q,
\* and so do the boots; the tallies make up for the gaps within a boot.
Accounts(q, lost, extra) ==
    \A i, j \in 1..Len(q) : i < j =>
        /\ lost[i] <= lost[j] /\ extra[i] <= extra[j] /\ q[i].boot <= q[j].boot
        /\ Adjacent(q, i, j) /\ q[i].boot = q[j].boot =>
              Follows(q[i], q[j], lost[j] - lost[i], extra[j] - extra[i])

\* There are such tallies, with f faults in all and n repeats to begin with.
Regular(q, f, n) ==
    \E lost, extra \in [1..Len(q) -> 0..f] : extra[1] >= n /\ Accounts(q, lost, extra)

LEMMA ModuloSum ==
    ASSUME NEW a \in 0..(Modulus - 1), NEW b \in 0..(Modulus - 1), NEW c \in 0..(Modulus - 1),
           NEW g, g = (b - a) % Modulus, NEW h, h = (c - b) % Modulus, g + h < Modulus
    PROVE  (c - a) % Modulus = g + h
<1>1. Modulus \in Nat /\ Modulus >= 2
    BY ModulusPositive
<1>2. /\ g = IF b >= a THEN b - a ELSE b - a + Modulus
      /\ h = IF c >= b THEN c - b ELSE c - b + Modulus
      /\ (c - a) % Modulus = IF c >= a THEN c - a ELSE c - a + Modulus
    BY <1>1
<1> QED
    BY <1>1, <1>2

LEMMA GapIs ==
    ASSUME NEW x \in Command, NEW y \in Command
    PROVE  /\ Gap(x, y) = IF y.seq >= x.seq THEN y.seq - x.seq ELSE y.seq - x.seq + Modulus
           /\ Gap(x, y) \in 0..(Modulus - 1)
<1>1. ASSUME NEW a \in 0..(Modulus - 1), NEW b \in 0..(Modulus - 1)
      PROVE  /\ (b - a) % Modulus = IF b >= a THEN b - a ELSE b - a + Modulus
             /\ (b - a) % Modulus \in 0..(Modulus - 1)
    BY Bounds
<1>2. x.seq \in 0..(Modulus - 1) /\ y.seq \in 0..(Modulus - 1)
    BY CommandFields
<1> QED
    BY <1>1, <1>2 DEF Gap

LEMMA FollowsWider ==
    ASSUME NEW x \in Command, NEW y \in Command,
           NEW l \in Int, NEW e \in Int, NEW m \in Int, NEW d \in Int,
           Follows(x, y, l, e), l <= m, e <= d
    PROVE  Follows(x, y, m, d)
<1>1. Gap(x, y) \in Int
    BY GapIs, ModulusPositive
<1> QED
    BY <1>1 DEF Follows

\* The command between two others is lost: one more is missing.
LEMMA FollowsAcross ==
    ASSUME NEW x \in Command, NEW y \in Command, NEW z \in Command,
           NEW l \in Nat, NEW e \in Nat, NEW m \in Nat, NEW d \in Nat,
           Follows(x, y, l, e), Follows(y, z, m, d), l + m + 1 <= MaxFaults
    PROVE  Follows(x, z, l + m + 1, e + d)
<1> SUFFICES ASSUME FewFaults
             PROVE  1 - (e + d) <= Gap(x, z) /\ Gap(x, z) <= 1 + (l + m + 1)
    BY DEF Follows
<1>1. Modulus \in Nat /\ Modulus >= 2 /\ Modulus \div 2 \in 1..(Modulus - 1)
      /\ MaxFaults \in Nat
    BY Bounds
<1>2. /\ Gap(x, y) \in 0..(Modulus - 1) /\ Gap(y, z) \in 0..(Modulus - 1)
      /\ Gap(x, z) \in 0..(Modulus - 1)
    BY GapIs
<1>3. /\ 1 - e <= Gap(x, y) /\ Gap(x, y) <= 1 + l
      /\ 1 - d <= Gap(y, z) /\ Gap(y, z) <= 1 + m
    BY DEF Follows
<1>4. Gap(x, y) + Gap(y, z) < Modulus
    BY <1>1, <1>2, <1>3 DEF FewFaults
<1>5. Gap(x, z) = Gap(x, y) + Gap(y, z)
    <2>1. /\ Gap(x, y) = IF y.seq >= x.seq THEN y.seq - x.seq ELSE y.seq - x.seq + Modulus
          /\ Gap(y, z) = IF z.seq >= y.seq THEN z.seq - y.seq ELSE z.seq - y.seq + Modulus
          /\ Gap(x, z) = IF z.seq >= x.seq THEN z.seq - x.seq ELSE z.seq - x.seq + Modulus
        BY GapIs
    <2>2. x.seq \in 0..(Modulus - 1) /\ y.seq \in 0..(Modulus - 1) /\ z.seq \in 0..(Modulus - 1)
        BY DEF Command
    <2> QED
        BY <1>1, <1>4, <2>1, <2>2
<1> QED
    BY <1>2, <1>3, <1>5

LEMMA SameNumber ==
    ASSUME NEW x \in Command, NEW y \in Command, NEW z \in Command,
           NEW l \in Int, NEW e \in Int,
           x.seq = y.seq, Follows(y, z, l, e)
    PROVE  Follows(x, z, l, e)
BY DEF Follows, Gap

LEMMA GapOfItself == ASSUME NEW x \in Command PROVE Gap(x, x) = 0
<1>1. x.seq \in 0..(Modulus - 1)
    BY CommandFields
<1>2. Gap(x, x) = IF x.seq >= x.seq THEN x.seq - x.seq ELSE x.seq - x.seq + Modulus
    BY GapIs
<1> QED
    BY <1>1, <1>2, Bounds

\* The same for tallies: what goes between two commands is made up for.
LEMMA FollowsBeyond ==
    ASSUME NEW x \in Command, NEW y \in Command, NEW z \in Command,
           NEW l \in Nat, NEW lk \in Nat, NEW m \in Nat, l <= lk, lk <= m,
           NEW e \in Nat, NEW ek \in Nat, NEW d \in Nat, e <= ek, ek <= d,
           Follows(x, y, lk - l, ek - e), Follows(y, z, m - lk, d - ek)
    PROVE  /\ m + 1 <= MaxFaults => Follows(x, z, (m + 1) - l, d - e)
           /\ x.seq = y.seq => Follows(x, z, m - l, d - e)
<1>1. /\ lk - l \in Nat /\ m - lk \in Nat /\ ek - e \in Nat /\ d - ek \in Nat
      /\ (lk - l) + (m - lk) + 1 = (m + 1) - l /\ (ek - e) + (d - ek) = d - e
      /\ m - lk <= m - l /\ d - ek <= d - e /\ m - l \in Nat /\ d - e \in Nat
    OBVIOUS
<1>2. ASSUME m + 1 <= MaxFaults
      PROVE  Follows(x, z, (m + 1) - l, d - e)
    <2>1. (lk - l) + (m - lk) + 1 <= MaxFaults
        BY <1>2, Bounds
    <2>2. Follows(x, z, (lk - l) + (m - lk) + 1, (ek - e) + (d - ek))
        BY <1>1, <2>1, FollowsAcross
    <2> QED
        BY <1>1, <2>2
<1>3. ASSUME x.seq = y.seq
      PROVE  Follows(x, z, m - l, d - e)
    <2>1. Follows(x, z, m - lk, d - ek)
        BY <1>1, <1>3, SameNumber
    <2> QED
        BY <1>1, <2>1, FollowsWider
<1> QED
    BY <1>2, <1>3

LEMMA NextFollows ==
    ASSUME NEW x \in Command, NEW y \in Command, y.seq = Following(x.seq)
    PROVE  Follows(x, y, 0, 0)
<1>1. Modulus \in Nat /\ Modulus >= 2
    BY ModulusPositive
<1>2. x.seq \in 0..(Modulus - 1)
    BY DEF Command
<1>3. y.seq = IF x.seq = Modulus - 1 THEN 0 ELSE x.seq + 1
    BY <1>1, <1>2 DEF Following
<1>4. Gap(x, y) = 1
    BY <1>1, <1>2, <1>3, GapIs
<1> QED
    BY <1>4 DEF Follows

-----------------------------------------------------------------------------
(* A regular sequence of commands stays one *)

LEMMA RegularWider ==
    ASSUME NEW q \in Seq(Command), Len(q) >= 1, NEW f \in Nat, NEW g \in Nat, f <= g,
           NEW n \in Int, NEW m \in Int, m <= n, Regular(q, f, n)
    PROVE  Regular(q, g, m)
<1>1. PICK lost \in [1..Len(q) -> 0..f], extra \in [1..Len(q) -> 0..f] :
         extra[1] >= n /\ Accounts(q, lost, extra)
    BY DEF Regular
<1>2. lost \in [1..Len(q) -> 0..g] /\ extra \in [1..Len(q) -> 0..g]
    OBVIOUS
<1>3. extra[1] \in Int
    BY LenProperties
<1>4. extra[1] >= m
    BY <1>1, <1>3
<1> QED
    BY <1>1, <1>2, <1>4 DEF Regular

LEMMA RegularAlone ==
    ASSUME NEW q \in Seq(Command), Len(q) = 1, NEW f \in Nat, NEW n \in Int, n <= 0
    PROVE  Regular(q, f, n)
<1> DEFINE none == [i \in 1..Len(q) |-> 0]
<1>1. none \in [1..Len(q) -> 0..f] /\ none[1] >= n
    OBVIOUS
<1>2. Accounts(q, none, none)
    BY DEF Accounts
<1> QED
    BY <1>1, <1>2 DEF Regular

\* r is q without its element k.
Shrinks(q, r, k) ==
    /\ k \in 1..Len(q) /\ Len(r) = Len(q) - 1
    /\ \A i \in 1..Len(r) : r[i] = q[Past(k, i)]

\* Element k is one that nobody misses: the first, an armed one, or one
\* that the first makes superfluous.
Superfluous(q, k) ==
    \/ k = 1 \/ q[k].armed
    \/ k = 2 /\ (FewFaults /\ q[1].boot = q[2].boot => q[1].seq = q[2].seq)

LEMMA PastOrder ==
    ASSUME NEW l \in Nat, NEW k \in 1..l, NEW i \in 1..(l - 1), NEW j \in 1..(l - 1), i < j
    PROVE  Past(k, i) \in 1..l /\ Past(k, j) \in 1..l /\ Past(k, i) < Past(k, j)
BY DEF Past

LEMMA AdjacentPast ==
    ASSUME NEW q \in Seq(Command), NEW r \in Seq(Command), NEW k, Shrinks(q, r, k),
           NEW i \in 1..Len(r), NEW j \in 1..Len(r), i < j, Adjacent(r, i, j)
    PROVE  /\ Past(k, i) \in 1..Len(q) /\ Past(k, j) \in 1..Len(q) /\ Past(k, i) < Past(k, j)
           /\ \/ Adjacent(q, Past(k, i), Past(k, j))
              \/ /\ i < k /\ k < j + 1 /\ ~q[k].armed
                 /\ Adjacent(q, i, k) /\ Adjacent(q, k, j + 1)
<1>1. /\ Len(q) \in Nat /\ Len(r) \in Nat /\ Len(r) = Len(q) - 1 /\ k \in 1..Len(q)
      /\ \A t \in 1..Len(r) : r[t] = q[Past(k, t)]
    BY LenProperties DEF Shrinks
<1>2. Past(k, i) \in 1..Len(q) /\ Past(k, j) \in 1..Len(q) /\ Past(k, i) < Past(k, j)
    BY <1>1, PastOrder
<1>3. ~q[Past(k, i)].armed /\ ~q[Past(k, j)].armed
    BY <1>1 DEF Adjacent
<1>4. \A t \in (i + 1)..(j - 1) : q[Past(k, t)].armed
    <2> TAKE t \in (i + 1)..(j - 1)
    <2>1. t \in 1..Len(r)
        BY <1>1
    <2> QED
        BY <1>1, <2>1 DEF Adjacent
<1>5. ASSUME NEW t \in (Past(k, i) + 1)..(Past(k, j) - 1), t # k
      PROVE  q[t].armed
    <2>1. CASE t < k
        <3>1. t \in (i + 1)..(j - 1) /\ Past(k, t) = t
            BY <1>1, <2>1 DEF Past
        <3> QED
            BY <1>4, <3>1
    <2>2. CASE t > k
        <3>1. t - 1 \in (i + 1)..(j - 1) /\ Past(k, t - 1) = t
            BY <1>1, <2>2 DEF Past
        <3> QED
            BY <1>4, <3>1
    <2> QED
        BY <1>1, <1>2, <1>5, <2>1, <2>2
<1>6. CASE k \notin (Past(k, i) + 1)..(Past(k, j) - 1) \/ q[k].armed
    BY <1>2, <1>3, <1>5, <1>6 DEF Adjacent
<1>7. CASE k \in (Past(k, i) + 1)..(Past(k, j) - 1) /\ ~q[k].armed
    <2>1. i < k /\ k < j + 1 /\ Past(k, i) = i /\ Past(k, j) = j + 1
        BY <1>1, <1>7 DEF Past
    <2>2. \A t \in (i + 1)..(k - 1) : q[t].armed
        BY <1>1, <1>5, <2>1
    <2>3. \A t \in (k + 1)..((j + 1) - 1) : q[t].armed
        BY <1>1, <1>5, <2>1
    <2> QED
        BY <1>2, <1>3, <1>7, <2>1, <2>2, <2>3 DEF Adjacent
<1> QED
    BY <1>6, <1>7

\* A command that is not the last goes.  Unless it is the first, an armed one,
\* or one that the first makes superfluous, that costs a fault.
LEMMA RegularWithout ==
    ASSUME NEW q \in Seq(Command), NEW r \in Seq(Command), NEW k, Shrinks(q, r, k), k < Len(q),
           NEW f \in Nat, NEW d \in 0..1, f + d <= MaxFaults, NEW n \in Int,
           Regular(q, f, n),
           d = 1 \/ Superfluous(q, k)
    PROVE  Regular(r, f + d, n)
<1>1. /\ Len(q) \in Nat /\ Len(r) \in Nat /\ MaxFaults \in Nat
      /\ k \in 1..Len(q) /\ Len(r) = Len(q) - 1
    BY LenProperties, Bounds DEF Shrinks
<1>8. \A i \in 1..Len(r) : r[i] = q[Past(k, i)]
    BY DEF Shrinks
<1>2. PICK lost, extra :
         /\ lost \in [1..Len(q) -> 0..f] /\ extra \in [1..Len(q) -> 0..f]
         /\ extra[1] >= n /\ Accounts(q, lost, extra)
    BY DEF Regular
<1> DEFINE lostNow == [i \in 1..Len(r) |-> lost[Past(k, i)] + (IF i < k THEN 0 ELSE d)]
           extraNow == [i \in 1..Len(r) |-> extra[Past(k, i)]]
<1>3. \A i \in 1..Len(r) : Past(k, i) \in 1..Len(q)
    BY <1>1 DEF Past
<1>4. \A i \in 1..Len(q) : lost[i] \in 0..f /\ extra[i] \in 0..f /\ q[i] \in Command
                             /\ q[i].boot \in Nat
    <2> TAKE i \in 1..Len(q)
    <2>1. q[i] \in Command
        BY ElementOfSeq
    <2>2. q[i].boot \in Nat
        BY <2>1, CommandFields
    <2> QED
        BY <1>2, <2>1, <2>2
<1>5. lostNow \in [1..Len(r) -> 0..(f + d)] /\ extraNow \in [1..Len(r) -> 0..(f + d)]
    <2>1. ASSUME NEW i \in 1..Len(r)
          PROVE  lostNow[i] \in 0..(f + d) /\ extraNow[i] \in 0..(f + d)
        <3>1. lost[Past(k, i)] \in 0..f /\ extra[Past(k, i)] \in 0..f
            BY <1>3, <1>4
        <3>2. lostNow[i] = lost[Past(k, i)] + (IF i < k THEN 0 ELSE d)
              /\ extraNow[i] = extra[Past(k, i)]
            OBVIOUS
        <3> HIDE DEF lostNow, extraNow
        <3> QED
            BY <3>1, <3>2
    <2> QED
        BY <2>1
<1>6. extraNow[1] >= n
    <2>1. 1 \in 1..Len(r) /\ 1 \in 1..Len(q)
        BY <1>1
    <2>2. extra[1] <= extra[Past(k, 1)]
        <3>1. CASE k = 1
            <4>1. Past(k, 1) = 2 /\ 2 \in 1..Len(q)
                BY <1>1, <3>1 DEF Past
            <4> QED
                BY <1>2, <2>1, <4>1 DEF Accounts
        <3>2. CASE k # 1
            <4>1. Past(k, 1) = 1
                BY <1>1, <3>2 DEF Past
            <4> QED
                BY <1>4, <2>1, <4>1
        <3> QED
            BY <3>1, <3>2
    <2>3. extra[1] \in Int /\ extra[Past(k, 1)] \in Int
        BY <1>3, <1>4, <2>1
    <2> QED
        BY <1>2, <2>1, <2>2, <2>3
<1>7. Accounts(r, lostNow, extraNow)
    <2> SUFFICES ASSUME NEW i \in 1..Len(r), NEW j \in 1..Len(r), i < j
                 PROVE  /\ lostNow[i] <= lostNow[j] /\ extraNow[i] <= extraNow[j]
                        /\ r[i].boot <= r[j].boot
                        /\ Adjacent(r, i, j) /\ r[i].boot = r[j].boot =>
                              Follows(r[i], r[j], lostNow[j] - lostNow[i],
                                      extraNow[j] - extraNow[i])
        BY DEF Accounts
    <2> DEFINE a == Past(k, i)
               b == Past(k, j)
    <2>1. a \in 1..Len(q) /\ b \in 1..Len(q) /\ a < b
        BY <1>1, PastOrder
    <2>2. lost[a] <= lost[b] /\ extra[a] <= extra[b] /\ q[a].boot <= q[b].boot
        BY <1>2, <2>1 DEF Accounts
    <2>3. /\ lost[a] \in 0..f /\ lost[b] \in 0..f /\ extra[a] \in 0..f /\ extra[b] \in 0..f
          /\ q[a] \in Command /\ q[b] \in Command /\ r[i] = q[a] /\ r[j] = q[b]
        BY <1>4, <1>8, <2>1
    <2>4. /\ lostNow[i] = lost[a] + (IF i < k THEN 0 ELSE d)
          /\ lostNow[j] = lost[b] + (IF j < k THEN 0 ELSE d)
          /\ extraNow[i] = extra[a] /\ extraNow[j] = extra[b]
        OBVIOUS
    <2>10. a = (IF i < k THEN i ELSE i + 1) /\ b = (IF j < k THEN j ELSE j + 1)
        BY DEF Past
    <2> HIDE DEF lostNow, extraNow, a, b
    <2>5. /\ lost[a] \in Nat /\ lost[b] \in Nat /\ extra[a] \in Nat /\ extra[b] \in Nat
          /\ i \in Nat /\ j \in Nat /\ k \in Nat
        BY <1>1, <2>3
    <2>6. /\ lostNow[i] <= lostNow[j] /\ extraNow[i] <= extraNow[j]
          /\ lostNow[i] \in Nat /\ lostNow[j] \in Nat
          /\ lostNow[j] - lostNow[i] \in Int /\ lost[b] - lost[a] \in Int
          /\ lost[b] - lost[a] <= lostNow[j] - lostNow[i]
          /\ extraNow[j] - extraNow[i] \in Int /\ extra[b] - extra[a] \in Int
        <3>1. /\ lostNow[i] \in Nat /\ lostNow[j] \in Nat /\ lostNow[i] <= lostNow[j]
              /\ lostNow[j] - lostNow[i] \in Nat /\ lost[b] - lost[a] \in Nat
              /\ lost[b] - lost[a] <= lostNow[j] - lostNow[i]
            BY <2>2, <2>4, <2>5, Raised
        <3>2. extra[b] - extra[a] \in Int
            BY <2>5
        <3>3. extraNow[j] - extraNow[i] \in Int /\ extraNow[i] <= extraNow[j]
            BY <2>2, <2>4, <3>2, Zenon
        <3> QED
            BY <3>1, <3>2, <3>3
    <2>7. ASSUME Adjacent(r, i, j), r[i].boot = r[j].boot
          PROVE  Follows(r[i], r[j], lostNow[j] - lostNow[i], extraNow[j] - extraNow[i])
        <3>1. CASE Adjacent(q, a, b)
            <4>1. Follows(q[a], q[b], lost[b] - lost[a], extra[b] - extra[a])
                BY <1>2, <2>1, <2>3, <2>7, <3>1 DEF Accounts
            <4>2. Follows(q[a], q[b], lostNow[j] - lostNow[i], extraNow[j] - extraNow[i])
                <5>1. q[a] \in Command /\ q[b] \in Command
                    BY <2>3
                <5>2. extra[b] - extra[a] = extraNow[j] - extraNow[i]
                    BY <2>4
                <5>3. extra[b] - extra[a] <= extraNow[j] - extraNow[i]
                    BY <2>6, <5>2
                <5> QED
                    BY <2>6, <4>1, <5>1, <5>3, FollowsWider
            <4> QED
                BY <2>3, <4>2
        <3>2. CASE /\ i < k /\ k < j + 1 /\ ~q[k].armed
                   /\ Adjacent(q, i, k) /\ Adjacent(q, k, j + 1)
            <4>1. a = i /\ b = j + 1 /\ i \in 1..Len(q) /\ k \in 1..Len(q)
                BY <1>1, <2>10, <3>2
            <4>2. /\ lost[a] <= lost[k] /\ lost[k] <= lost[b]
                  /\ extra[a] <= extra[k] /\ extra[k] <= extra[b]
                  /\ q[a].boot <= q[k].boot /\ q[k].boot <= q[b].boot
                BY <1>2, <2>1, <3>2, <4>1 DEF Accounts
            <4>3. /\ lost[k] \in 0..f /\ extra[k] \in 0..f /\ lost[b] \in 0..f
                  /\ q[a] \in Command /\ q[k] \in Command /\ q[b] \in Command
                  /\ q[a].boot \in Nat /\ q[k].boot \in Nat /\ q[b].boot \in Nat
                BY <1>4, <2>1, <4>1
            <4>4. q[a].boot = q[k].boot /\ q[k].boot = q[b].boot
                <5>1. q[a].boot = q[b].boot
                    BY <2>3, <2>7
                <5>2. \A u, v, w \in Nat : u <= v /\ v <= w /\ u = w => u = v /\ v = w
                    OBVIOUS
                <5> QED
                    BY <4>2, <4>3, <5>1, <5>2, Zenon
            <4>5. /\ Follows(q[a], q[k], lost[k] - lost[a], extra[k] - extra[a])
                  /\ Follows(q[k], q[b], lost[b] - lost[k], extra[b] - extra[k])
                BY <1>2, <2>1, <3>2, <4>1, <4>4 DEF Accounts
            <4>6. /\ lost[a] \in Nat /\ lost[k] \in Nat /\ lost[b] \in Nat
                  /\ extra[a] \in Nat /\ extra[k] \in Nat /\ extra[b] \in Nat
                BY <2>5, <4>3
            <4>10. /\ lost[b] + 1 <= MaxFaults =>
                         Follows(q[a], q[b], (lost[b] + 1) - lost[a], extra[b] - extra[a])
                   /\ q[a].seq = q[k].seq =>
                         Follows(q[a], q[b], lost[b] - lost[a], extra[b] - extra[a])
                BY <4>2, <4>3, <4>5, <4>6, FollowsBeyond
            <4>7. CASE d = 1
                <5>1. lostNow[i] = lost[a] /\ lostNow[j] = lost[b] + 1
                    BY <2>4, <2>5, <3>2, <4>7
                <5>2. lost[b] + 1 <= MaxFaults
                    BY <1>1, <4>3, <4>7
                <5> QED
                    BY <2>3, <2>4, <4>10, <5>1, <5>2
            <4>8. CASE k = 2 /\ (FewFaults /\ q[1].boot = q[2].boot => q[1].seq = q[2].seq)
                <5> SUFFICES ASSUME FewFaults
                             PROVE  Follows(r[i], r[j], lostNow[j] - lostNow[i],
                                            extraNow[j] - extraNow[i])
                    BY DEF Follows
                <5>1. a = 1 /\ q[a].seq = q[k].seq
                    BY <1>1, <3>2, <4>1, <4>4, <4>8
                <5>2. Follows(q[a], q[b], lost[b] - lost[a], extra[b] - extra[a])
                    BY <4>10, <5>1
                <5>3. extraNow[j] - extraNow[i] = extra[b] - extra[a]
                    BY <2>4
                <5>4. extra[b] - extra[a] <= extraNow[j] - extraNow[i]
                    BY <2>6, <5>3
                <5>5. Follows(q[a], q[b], lostNow[j] - lostNow[i], extraNow[j] - extraNow[i])
                    BY <2>6, <4>3, <5>2, <5>4, FollowsWider
                <5> QED
                    BY <2>3, <5>5
            <4>9. d = 1 \/ (k = 2 /\ (FewFaults /\ q[1].boot = q[2].boot => q[1].seq = q[2].seq))
                BY <1>1, <3>2 DEF Superfluous
            <4> QED
                BY <4>7, <4>8, <4>9
        <3> QED
            BY <2>7, <3>1, <3>2, AdjacentPast DEF a, b
    <2> QED
        BY <2>2, <2>3, <2>6, <2>7
<1> QED
    BY <1>5, <1>6, <1>7 DEF Regular

\* r is q with one more command before its element k: the same, or an armed one.
Grows(q, r, k) ==
    /\ k \in 1..Len(q) /\ Len(r) = Len(q) + 1
    /\ \A i \in 1..Len(r) : i # k => r[i] = q[Back(k, i)]
    /\ r[k].boot = q[k].boot /\ (r[k].armed \/ r[k] = q[k])

LEMMA AdjacentBack ==
    ASSUME NEW q \in Seq(Command), NEW r \in Seq(Command), NEW k, Grows(q, r, k),
           NEW i \in 1..Len(r), NEW j \in 1..Len(r), i < j, Adjacent(r, i, j)
    PROVE  \/ i = k /\ j = k + 1
           \/ /\ Back(k, i) < Back(k, j) /\ Adjacent(q, Back(k, i), Back(k, j))
<1>1. /\ Len(q) \in Nat /\ Len(r) \in Nat /\ k \in 1..Len(q) /\ Len(r) = Len(q) + 1
      /\ \A t \in 1..Len(r) : t # k => r[t] = q[Back(k, t)]
      /\ r[k].armed \/ r[k] = q[k]
    BY LenProperties DEF Grows
<1> SUFFICES ASSUME ~(i = k /\ j = k + 1)
             PROVE  Back(k, i) < Back(k, j) /\ Adjacent(q, Back(k, i), Back(k, j))
    OBVIOUS
<1>2. Back(k, i) < Back(k, j)
    BY <1>1 DEF Back
<1>3. r[i] = q[Back(k, i)] /\ r[j] = q[Back(k, j)]
    <2>1. ~r[i].armed /\ ~r[j].armed /\ Back(k, k) = k
        BY <1>1 DEF Adjacent, Back
    <2> QED
        BY <1>1, <2>1
<1>4. ASSUME NEW t \in (Back(k, i) + 1)..(Back(k, j) - 1)
      PROVE  q[t].armed
    <2>1. /\ Past(k, t) \in (i + 1)..(j - 1) /\ Past(k, t) \in 1..Len(r)
          /\ Past(k, t) # k /\ Back(k, Past(k, t)) = t
        BY <1>1 DEF Back, Past
    <2> QED
        BY <1>1, <2>1 DEF Adjacent
<1> QED
    BY <1>2, <1>3, <1>4 DEF Adjacent

\* A command more, repeated or armed, costs a fault.
LEMMA RegularWith ==
    ASSUME NEW q \in Seq(Command), NEW r \in Seq(Command), NEW k, Grows(q, r, k),
           NEW f \in Nat, NEW n \in Int, Regular(q, f, n)
    PROVE  Regular(r, f + 1, n)
<1>1. /\ Len(q) \in Nat /\ Len(r) \in Nat /\ Len(r) = Len(q) + 1 /\ k \in 1..Len(q)
    BY LenProperties DEF Grows
<1>8. /\ \A i \in 1..Len(r) : i # k => r[i] = q[Back(k, i)]
      /\ r[k].boot = q[k].boot /\ (r[k].armed \/ r[k] = q[k])
    BY DEF Grows
<1>2. PICK lost, extra :
         /\ lost \in [1..Len(q) -> 0..f] /\ extra \in [1..Len(q) -> 0..f]
         /\ extra[1] >= n /\ Accounts(q, lost, extra)
    BY DEF Regular
<1> DEFINE lostNow == [i \in 1..Len(r) |-> lost[Back(k, i)]]
           extraNow == [i \in 1..Len(r) |-> extra[Back(k, i)] + (IF i < k + 1 THEN 0 ELSE 1)]
<1>3. \A i \in 1..Len(r) : Back(k, i) \in 1..Len(q)
    BY <1>1 DEF Back
<1>4. \A i \in 1..Len(q) : lost[i] \in 0..f /\ extra[i] \in 0..f /\ q[i] \in Command
                             /\ q[i].boot \in Nat
    <2> TAKE i \in 1..Len(q)
    <2>1. q[i] \in Command
        BY ElementOfSeq
    <2>2. q[i].boot \in Nat
        BY <2>1, CommandFields
    <2> QED
        BY <1>2, <2>1, <2>2
<1>5. lostNow \in [1..Len(r) -> 0..(f + 1)] /\ extraNow \in [1..Len(r) -> 0..(f + 1)]
    <2>1. ASSUME NEW i \in 1..Len(r)
          PROVE  lostNow[i] \in 0..(f + 1) /\ extraNow[i] \in 0..(f + 1)
        <3>1. lost[Back(k, i)] \in 0..f /\ extra[Back(k, i)] \in 0..f
            BY <1>3, <1>4
        <3>2. lostNow[i] = lost[Back(k, i)]
              /\ extraNow[i] = extra[Back(k, i)] + (IF i < k + 1 THEN 0 ELSE 1)
            OBVIOUS
        <3> HIDE DEF lostNow, extraNow
        <3> QED
            BY <3>1, <3>2
    <2> QED
        BY <2>1
<1>6. extraNow[1] >= n
    <2>1. 1 \in 1..Len(r) /\ Back(k, 1) = 1 /\ 1 < k + 1
        BY <1>1 DEF Back
    <2>2. extraNow[1] = extra[Back(k, 1)] + (IF 1 < k + 1 THEN 0 ELSE 1)
        BY <2>1
    <2>3. extra[1] \in 0..f
        BY <1>1, <1>4
    <2> HIDE DEF extraNow
    <2>4. extraNow[1] = extra[1]
        BY <2>1, <2>2, <2>3
    <2> QED
        BY <1>2, <2>4
<1>9. \A i \in 1..Len(r) : r[i] \in Command
    BY ElementOfSeq
<1>7. Accounts(r, lostNow, extraNow)
    <2> SUFFICES ASSUME NEW i \in 1..Len(r), NEW j \in 1..Len(r), i < j
                 PROVE  /\ lostNow[i] <= lostNow[j] /\ extraNow[i] <= extraNow[j]
                        /\ r[i].boot <= r[j].boot
                        /\ Adjacent(r, i, j) /\ r[i].boot = r[j].boot =>
                              Follows(r[i], r[j], lostNow[j] - lostNow[i],
                                      extraNow[j] - extraNow[i])
        BY DEF Accounts
    <2> DEFINE a == Back(k, i)
               b == Back(k, j)
    <2>1. a \in 1..Len(q) /\ b \in 1..Len(q) /\ a <= b
        BY <1>1 DEF Back
    <2>3. /\ lost[a] \in 0..f /\ lost[b] \in 0..f /\ extra[a] \in 0..f /\ extra[b] \in 0..f
          /\ q[a] \in Command /\ q[b] \in Command
          /\ q[a].boot \in Nat /\ q[b].boot \in Nat
        BY <1>4, <2>1
    <2>2. lost[a] <= lost[b] /\ extra[a] <= extra[b] /\ q[a].boot <= q[b].boot
        <3>1. CASE a = b
            BY <2>3, <3>1
        <3>2. CASE a < b
            BY <1>2, <2>1, <3>2 DEF Accounts
        <3> QED
            BY <2>1, <3>1, <3>2
    <2>4. /\ lostNow[i] = lost[a] /\ lostNow[j] = lost[b]
          /\ extraNow[i] = extra[a] + (IF i < k + 1 THEN 0 ELSE 1)
          /\ extraNow[j] = extra[b] + (IF j < k + 1 THEN 0 ELSE 1)
        OBVIOUS
    <2>5. /\ a = (IF i <= k THEN i ELSE i - 1) /\ b = (IF j <= k THEN j ELSE j - 1)
        BY DEF Back
    <2>6. /\ i # k => r[i] = q[a]
          /\ j # k => r[j] = q[b]
          /\ i = k => a = k
          /\ j = k => b = k
        BY <1>1, <1>8, <2>5
    <2> HIDE DEF lostNow, extraNow, a, b
    <2>7. r[i].boot = q[a].boot /\ r[j].boot = q[b].boot
        BY <1>8, <2>6
    <2>8. /\ lost[a] \in Nat /\ lost[b] \in Nat /\ extra[a] \in Nat /\ extra[b] \in Nat
          /\ i \in Nat /\ j \in Nat /\ k + 1 \in Nat /\ 1 \in 0..1
        <3>1. lost[a] \in Nat /\ lost[b] \in Nat
            BY <1>1, <2>3
        <3>2. extra[a] \in Nat /\ extra[b] \in Nat
            BY <1>1, <2>3
        <3>3. i \in Nat /\ j \in Nat /\ k + 1 \in Nat
            BY <1>1
        <3> QED
            BY <3>1, <3>2, <3>3
    <2>9. /\ extraNow[i] \in Nat /\ extraNow[j] \in Nat /\ extraNow[i] <= extraNow[j]
          /\ extraNow[j] - extraNow[i] \in Nat /\ extra[b] - extra[a] \in Nat
          /\ extra[b] - extra[a] <= extraNow[j] - extraNow[i]
        BY <2>2, <2>4, <2>8, Raised
    <2>10. ASSUME Adjacent(r, i, j), r[i].boot = r[j].boot
           PROVE  Follows(r[i], r[j], lostNow[j] - lostNow[i], extraNow[j] - extraNow[i])
        <3>1. ~r[i].armed /\ ~r[j].armed
            BY <2>10 DEF Adjacent
        <3>2. r[i] = q[a] /\ r[j] = q[b]
            BY <1>8, <2>6, <3>1
        <3>3. lost[b] - lost[a] \in Int /\ lost[b] - lost[a] = lostNow[j] - lostNow[i]
            BY <2>4, <2>8
        <3>4. CASE i = k /\ j = k + 1
            <4>1. a = k /\ b = k
                BY <1>1, <2>5, <3>4
            <4>2. r[i] = r[j] /\ r[i] \in Command
                BY <2>3, <3>2, <4>1
            <4>3. Gap(r[i], r[j]) = 0
                BY <4>2, GapOfItself
            <4>4. extraNow[j] - extraNow[i] = 1
                <5>1. extraNow[i] = extra[a] + 0 /\ extraNow[j] = extra[a] + 1
                    BY <1>1, <2>4, <3>4, <4>1
                <5> QED
                    BY <2>8, <5>1
            <4>5. lostNow[j] - lostNow[i] = 0
                BY <2>4, <2>8, <4>1
            <4> QED
                BY <4>3, <4>4, <4>5 DEF Follows
        <3>5. CASE a < b /\ Adjacent(q, a, b)
            <4>1. Follows(q[a], q[b], lost[b] - lost[a], extra[b] - extra[a])
                BY <1>2, <2>1, <2>7, <2>10, <3>5 DEF Accounts
            <4>2. Follows(q[a], q[b], lost[b] - lost[a], extraNow[j] - extraNow[i])
                <5> DEFINE more == lost[b] - lost[a]
                           before == extra[b] - extra[a]
                           now == extraNow[j] - extraNow[i]
                <5>1. /\ more \in Int /\ before \in Int /\ now \in Int /\ before <= now
                      /\ Follows(q[a], q[b], more, before)
                      /\ q[a] \in Command /\ q[b] \in Command
                    BY <2>3, <2>9, <3>3, <4>1
                <5> HIDE DEF more, before, now
                <5>2. more <= more
                    BY <5>1
                <5>3. Follows(q[a], q[b], more, now)
                    BY <5>1, <5>2, FollowsWider
                <5> QED
                    BY <5>3 DEF more, now
            <4> QED
                BY <3>2, <3>3, <4>2
        <3> QED
            BY <2>10, <3>4, <3>5, AdjacentBack DEF a, b
    <2> QED
        BY <2>2, <2>4, <2>7, <2>9, <2>10
<1> QED
    BY <1>5, <1>6, <1>7 DEF Regular

\* One more command is issued.
LEMMA RegularSent ==
    ASSUME NEW q \in Seq(Command), Len(q) >= 1, NEW s \in Command,
           ~q[Len(q)].armed, s.boot = q[Len(q)].boot, s.seq = Following(q[Len(q)].seq),
           NEW f \in Nat, NEW n \in Int, Regular(q, f, n)
    PROVE  Regular(Append(q, s), f, n)
<1> DEFINE r == Append(q, s)
           l == Len(q)
<1>1. /\ l \in Nat /\ l \in 1..l /\ r \in Seq(Command) /\ Len(r) = l + 1
      /\ r[l + 1] = s /\ \A i \in 1..l : r[i] = q[i]
    BY AppendProperties, LenProperties
<1>2. PICK lost, extra :
         /\ lost \in [1..l -> 0..f] /\ extra \in [1..l -> 0..f]
         /\ extra[1] >= n /\ Accounts(q, lost, extra)
    BY DEF Regular
<1> DEFINE lostNow == [i \in 1..(l + 1) |-> IF i <= l THEN lost[i] ELSE lost[l]]
           extraNow == [i \in 1..(l + 1) |-> IF i <= l THEN extra[i] ELSE extra[l]]
<1>3. \A i \in 1..l : lost[i] \in 0..f /\ extra[i] \in 0..f /\ q[i] \in Command
    BY <1>2, ElementOfSeq
<1>4. /\ lostNow \in [1..(l + 1) -> 0..f] /\ extraNow \in [1..(l + 1) -> 0..f]
      /\ lostNow[l + 1] = lost[l] /\ extraNow[l + 1] = extra[l]
      /\ \A i \in 1..l : lostNow[i] = lost[i] /\ extraNow[i] = extra[i]
    BY <1>1, <1>3
<1>5. extraNow[1] >= n
    BY <1>1, <1>2, <1>4
<1>6. ~q[l].armed /\ s.boot = q[l].boot /\ s.seq = Following(q[l].seq)
    OBVIOUS
<1> HIDE DEF lostNow, extraNow, r, l
<1>7. Accounts(r, lostNow, extraNow)
    <2> SUFFICES ASSUME NEW i \in 1..(l + 1), NEW j \in 1..(l + 1), i < j
                 PROVE  /\ lostNow[i] <= lostNow[j] /\ extraNow[i] <= extraNow[j]
                        /\ r[i].boot <= r[j].boot
                        /\ Adjacent(r, i, j) /\ r[i].boot = r[j].boot =>
                              Follows(r[i], r[j], lostNow[j] - lostNow[i],
                                      extraNow[j] - extraNow[i])
        BY <1>1 DEF Accounts
    <2>1. i \in 1..l
        BY <1>1
    <2>2. CASE j \in 1..l
        <3>1. /\ lostNow[i] = lost[i] /\ lostNow[j] = lost[j]
              /\ extraNow[i] = extra[i] /\ extraNow[j] = extra[j]
              /\ r[i] = q[i] /\ r[j] = q[j]
            BY <1>1, <1>4, <2>1, <2>2
        <3>2. ASSUME Adjacent(r, i, j) PROVE Adjacent(q, i, j)
            <4>1. \A t \in (i + 1)..(j - 1) : t \in 1..l
                BY <1>1, <2>1, <2>2
            <4> QED
                BY <1>1, <3>1, <3>2, <4>1 DEF Adjacent
        <3> QED
            BY <1>2, <2>1, <2>2, <3>1, <3>2 DEF Accounts, l
    <2>3. CASE j = l + 1
        <3>1. /\ lostNow[i] = lost[i] /\ lostNow[j] = lost[l]
              /\ extraNow[i] = extra[i] /\ extraNow[j] = extra[l]
              /\ r[i] = q[i] /\ r[j] = s /\ s.boot = q[l].boot
              /\ lost[l] \in Nat /\ extra[l] \in Nat
            <4>1. lostNow[i] = lost[i] /\ extraNow[i] = extra[i] /\ r[i] = q[i]
                BY <1>1, <1>4, <2>1, Zenon
            <4>2. lostNow[j] = lost[l] /\ extraNow[j] = extra[l] /\ r[j] = s
                BY <1>1, <1>4, <2>3
            <4>3. lost[l] \in Nat /\ extra[l] \in Nat
                BY <1>1, <1>3
            <4> QED
                BY <1>6, <4>1, <4>2, <4>3
        <3>2. lost[i] <= lost[l] /\ extra[i] <= extra[l] /\ q[i].boot <= q[l].boot
            <4>1. CASE i = l
                <5>1. q[l] \in Command
                    BY <1>1, <1>3
                <5>2. q[l].boot \in Nat
                    BY <5>1, CommandFields
                <5> QED
                    BY <3>1, <4>1, <5>2
            <4>2. CASE i < l
                BY <1>1, <1>2, <2>1, <4>2 DEF Accounts, l
            <4> QED
                BY <1>1, <2>1, <4>1, <4>2
        <3>3. ASSUME Adjacent(r, i, j), i # l PROVE FALSE
            <4>1. l \in (i + 1)..(j - 1) /\ r[l] = q[l]
                BY <1>1, <2>1, <2>3, <3>3
            <4> QED
                BY <1>6, <3>3, <4>1 DEF Adjacent
        <3>4. Follows(q[l], s, 0, 0)
            BY <1>1, <1>3, <1>6, NextFollows
        <3>5. ASSUME Adjacent(r, i, j)
              PROVE  Follows(r[i], r[j], lostNow[j] - lostNow[i], extraNow[j] - extraNow[i])
            <4>1. i = l
                BY <3>3, <3>5
            <4>2. lostNow[j] - lostNow[i] = 0 /\ extraNow[j] - extraNow[i] = 0
                BY <3>1, <4>1
            <4> QED
                BY <3>1, <3>4, <4>1, <4>2
        <3> QED
            BY <3>1, <3>2, <3>5
    <2> QED
        BY <1>1, <2>2, <2>3
<1> QED
    BY <1>1, <1>4, <1>5, <1>7 DEF Regular, r

\* The numbering starts again.
LEMMA RegularRestart ==
    ASSUME NEW q \in Seq(Command), NEW r \in Seq(Command), Len(q) >= 1, Len(r) = Len(q),
           \A i \in 1..Len(q) : i < Len(q) => r[i] = q[i],
           r[Len(q)].boot > q[Len(q)].boot,
           NEW f \in Nat, NEW n \in Int, Regular(q, f, n)
    PROVE  Regular(r, f, n)
<1> DEFINE l == Len(q)
<1>1. l \in Nat /\ l \in 1..l /\ Len(r) = l /\ \A i \in 1..l : i < l => r[i] = q[i]
    BY LenProperties
<1>2. PICK lost, extra :
         /\ lost \in [1..l -> 0..f] /\ extra \in [1..l -> 0..f]
         /\ extra[1] >= n /\ Accounts(q, lost, extra)
    BY DEF Regular
<1>3. \A i \in 1..l : q[i].boot \in Nat /\ r[i].boot \in Nat
    <2> TAKE i \in 1..l
    <2>1. q[i] \in Command /\ r[i] \in Command
        BY <1>1, ElementOfSeq
    <2> QED
        BY <2>1, CommandFields
<1>4. r[l].boot > q[l].boot
    OBVIOUS
<1> HIDE DEF l
<1>5. Accounts(r, lost, extra)
    <2> SUFFICES ASSUME NEW i \in 1..l, NEW j \in 1..l, i < j
                 PROVE  /\ lost[i] <= lost[j] /\ extra[i] <= extra[j]
                        /\ r[i].boot <= r[j].boot
                        /\ Adjacent(r, i, j) /\ r[i].boot = r[j].boot =>
                              Follows(r[i], r[j], lost[j] - lost[i], extra[j] - extra[i])
        BY <1>1 DEF Accounts
    <2>1. lost[i] <= lost[j] /\ extra[i] <= extra[j] /\ q[i].boot <= q[j].boot
        BY <1>2 DEF Accounts, l
    <2>2. r[i] = q[i]
        BY <1>1
    <2>3. CASE j = l
        <3>1. r[i].boot < r[j].boot
            <4>1. r[j].boot > q[j].boot
                BY <1>4, <2>3
            <4>2. /\ q[i].boot \in Nat /\ q[j].boot \in Nat /\ r[j].boot \in Nat
                BY <1>3
            <4> QED
                BY <2>1, <2>2, <4>1, <4>2
        <3>2. r[i].boot \in Nat /\ r[j].boot \in Nat
            BY <1>3
        <3> QED
            BY <2>1, <3>1, <3>2
    <2>4. CASE j # l
        <3>1. r[j] = q[j]
            BY <1>1, <2>4
        <3>2. ASSUME Adjacent(r, i, j) PROVE Adjacent(q, i, j)
            <4>1. \A t \in (i + 1)..(j - 1) : t \in 1..l /\ r[t] = q[t]
                BY <1>1
            <4> QED
                BY <2>2, <3>1, <3>2, <4>1 DEF Adjacent
        <3> QED
            BY <1>2, <2>1, <2>2, <3>1, <3>2 DEF Accounts, l
    <2> QED
        BY <2>3, <2>4
<1> QED
    BY <1>1, <1>2, <1>5 DEF Regular

\* The first of two commands goes; the repeats counted so far grow by e,
\* which makes up for the gap between them.
LEMMA RegularTail ==
    ASSUME NEW q \in Seq(Command), NEW r \in Seq(Command), Shrinks(q, r, 1), Len(q) > 1,
           NEW f \in Nat, NEW n \in Int, Regular(q, f, n)
    PROVE  \E e \in Nat :
              /\ Regular(r, f, n + e)
              /\ q[1].boot <= q[2].boot
              /\ ~q[1].armed /\ ~q[2].armed /\ q[1].boot = q[2].boot =>
                    Follows(q[1], q[2], f, e)
<1> DEFINE l == Len(q)
<1>1. /\ l \in Nat /\ Len(r) \in Nat /\ Len(r) = l - 1 /\ 1 \in 1..l /\ 2 \in 1..l
      /\ \A i \in 1..Len(r) : i + 1 \in 1..l /\ r[i] = q[i + 1]
    BY LenProperties DEF Shrinks, Past
<1>2. PICK lost, extra :
         /\ lost \in [1..l -> 0..f] /\ extra \in [1..l -> 0..f]
         /\ extra[1] >= n /\ Accounts(q, lost, extra)
    BY DEF Regular
<1>3. \A i \in 1..l : lost[i] \in 0..f /\ extra[i] \in 0..f /\ q[i] \in Command
    BY <1>2, ElementOfSeq
<1> DEFINE lostNow == [i \in 1..Len(r) |-> lost[i + 1]]
           extraNow == [i \in 1..Len(r) |-> extra[i + 1]]
<1>4. lostNow \in [1..Len(r) -> 0..f] /\ extraNow \in [1..Len(r) -> 0..f]
    BY <1>1, <1>3
<1>5. Accounts(r, lostNow, extraNow)
    <2> SUFFICES ASSUME NEW i \in 1..Len(r), NEW j \in 1..Len(r), i < j
                 PROVE  /\ lostNow[i] <= lostNow[j] /\ extraNow[i] <= extraNow[j]
                        /\ r[i].boot <= r[j].boot
                        /\ Adjacent(r, i, j) /\ r[i].boot = r[j].boot =>
                              Follows(r[i], r[j], lostNow[j] - lostNow[i],
                                      extraNow[j] - extraNow[i])
        BY DEF Accounts
    <2>1. /\ i + 1 \in 1..l /\ j + 1 \in 1..l /\ i + 1 < j + 1
          /\ r[i] = q[i + 1] /\ r[j] = q[j + 1]
          /\ lostNow[i] = lost[i + 1] /\ lostNow[j] = lost[j + 1]
          /\ extraNow[i] = extra[i + 1] /\ extraNow[j] = extra[j + 1]
        BY <1>1
    <2>2. ASSUME Adjacent(r, i, j) PROVE Adjacent(q, i + 1, j + 1)
        <3>1. \A t \in ((i + 1) + 1)..((j + 1) - 1) :
                 t - 1 \in (i + 1)..(j - 1) /\ t - 1 \in 1..Len(r) /\ r[t - 1] = q[t]
            <4> TAKE t \in ((i + 1) + 1)..((j + 1) - 1)
            <4>1. t - 1 \in (i + 1)..(j - 1) /\ t - 1 \in 1..Len(r) /\ (t - 1) + 1 = t
                BY <1>1
            <4> QED
                BY <1>1, <4>1
        <3> QED
            BY <2>1, <2>2, <3>1 DEF Adjacent
    <2> HIDE DEF lostNow, extraNow
    <2> QED
        BY <1>2, <2>1, <2>2 DEF Accounts, l
<1> DEFINE e == extra[2] - extra[1]
<1>6. /\ lost[1] <= lost[2] /\ extra[1] <= extra[2] /\ q[1].boot <= q[2].boot
      /\ Adjacent(q, 1, 2) /\ q[1].boot = q[2].boot =>
            Follows(q[1], q[2], lost[2] - lost[1], extra[2] - extra[1])
    BY <1>1, <1>2 DEF Accounts
<1>7. lost[1] \in 0..f /\ lost[2] \in 0..f /\ extra[1] \in 0..f /\ extra[2] \in 0..f
      /\ q[1] \in Command /\ q[2] \in Command
    BY <1>1, <1>3
<1>8. e \in Nat /\ e \in Int /\ f \in Int /\ lost[2] - lost[1] \in Int /\ lost[2] - lost[1] <= f
    BY <1>6, <1>7
<1>9. extraNow[1] >= n + e
    <2>1. extraNow[1] = extra[2] /\ extra[1] >= n
        BY <1>1, <1>2
    <2> HIDE DEF extraNow
    <2> QED
        BY <1>7, <2>1
<1>10. Regular(r, f, n + e)
    BY <1>4, <1>5, <1>9 DEF Regular
<1>11. ASSUME ~q[1].armed, ~q[2].armed, q[1].boot = q[2].boot
       PROVE  Follows(q[1], q[2], f, e)
    <2>1. Adjacent(q, 1, 2)
        BY <1>11 DEF Adjacent
    <2>2. Follows(q[1], q[2], lost[2] - lost[1], e)
        BY <1>6, <1>11, <2>1
    <2>3. e <= e
        BY <1>8
    <2> HIDE DEF e
    <2> QED
        BY <1>7, <1>8, <2>2, <2>3, FollowsWider
<1> QED
    BY <1>6, <1>8, <1>10, <1>11

-----------------------------------------------------------------------------
(* The way of a command from the source to the bridge *)

\* What a head h is followed by: the chunk, the port, and what comes next.
Pipe(h, chunk, port, s) == Append(h \o (chunk \o port), s)

LEMMA AppendAfter ==
    ASSUME NEW S, NEW p \in Seq(S), NEW q \in Seq(S), NEW s \in S
    PROVE  p \o Append(q, s) = Append(p \o q, s)
<1>1. <<s>> \in Seq(S) /\ p \o q \in Seq(S)
    BY ConcatProperties
<1>2. Append(q, s) = q \o <<s>> /\ Append(p \o q, s) = (p \o q) \o <<s>>
    BY <1>1, AppendIsConcat
<1>3. (p \o q) \o <<s>> = p \o (q \o <<s>>)
    BY <1>1, ConcatAssociative
<1> QED
    BY <1>2, <1>3

LEMMA PipeTyped ==
    ASSUME NEW h \in Seq(Command), NEW a \in Seq(Command), NEW b \in Seq(Command),
           NEW s \in Command
    PROVE  /\ a \o b \in Seq(Command) /\ h \o (a \o b) \in Seq(Command)
           /\ Pipe(h, a, b, s) \in Seq(Command)
           /\ Len(Pipe(h, a, b, s)) = Len(h) + Len(a) + Len(b) + 1
           /\ Pipe(h, a, b, s)[Len(Pipe(h, a, b, s))] = s
           /\ Len(h) \in Nat /\ Len(a) \in Nat /\ Len(b) \in Nat
<1>1. a \o b \in Seq(Command) /\ Len(a \o b) = Len(a) + Len(b)
    BY ConcatProperties
<1> DEFINE ab == a \o b
<1> HIDE DEF ab
<1>2. ab \in Seq(Command) /\ Len(ab) = Len(a) + Len(b)
    BY <1>1 DEF ab
<1>3. h \o ab \in Seq(Command) /\ Len(h \o ab) = Len(h) + Len(ab)
    BY <1>2, ConcatProperties
<1> DEFINE hab == h \o ab
<1> HIDE DEF hab
<1>4. hab \in Seq(Command) /\ Len(hab) = Len(h) + Len(ab)
    BY <1>3 DEF hab
<1>5. /\ Append(hab, s) \in Seq(Command) /\ Len(Append(hab, s)) = Len(hab) + 1
      /\ Append(hab, s)[Len(hab) + 1] = s
    BY <1>4, AppendProperties
<1>6. Len(h) \in Nat /\ Len(a) \in Nat /\ Len(b) \in Nat
    BY LenProperties
<1>7. Pipe(h, a, b, s) = Append(hab, s)
    BY DEF Pipe, hab, ab
<1> QED
    BY <1>2, <1>4, <1>5, <1>6, <1>7 DEF hab, ab

\* A command sent is one more at the end of the way.
LEMMA PipeSent ==
    ASSUME NEW h \in Seq(Command), NEW a \in Seq(Command), NEW b \in Seq(Command),
           NEW s \in Command, NEW t \in Command
    PROVE  Pipe(h, a, Append(b, s), t) = Append(Pipe(h, a, b, s), t)
<1>1. a \o b \in Seq(Command)
    BY PipeTyped
<1>2. a \o Append(b, s) = Append(a \o b, s)
    BY AppendAfter
<1>3. h \o Append(a \o b, s) = Append(h \o (a \o b), s)
    BY <1>1, AppendAfter
<1> QED
    BY <1>2, <1>3 DEF Pipe

\* The bridge takes a chunk out of its port.
LEMMA PipePolled ==
    ASSUME NEW h, NEW b \in Seq(Command), NEW s, NEW n \in 0..Len(b)
    PROVE  Pipe(h, ToFirst(n, b), FromNext(n, b), s) = Pipe(h, <<>>, b, s)
<1>1. Len(b) \in Nat /\ \A i \in 1..Len(b) : b[i] \in Command
    BY LenProperties, ElementOfSeq
<1> DEFINE x == ToFirst(n, b)
           y == FromNext(n, b)
<1>2. x \in Seq(Command) /\ Len(x) = n /\ \A j \in 1..n : x[j] = b[j]
    BY FirstOf, Zenon
<1>3. y \in Seq(Command) /\ Len(y) = Len(b) - n /\ \A j \in 1..(Len(b) - n) : y[j] = b[n + j]
    BY RestOf, Zenon
<1> HIDE DEF x, y
<1>4. /\ x \o y \in Seq(Command) /\ Len(x \o y) = Len(x) + Len(y)
      /\ \A i \in 1..(Len(x) + Len(y)) : (x \o y)[i] = IF i <= Len(x) THEN x[i] ELSE y[i - Len(x)]
    <2>1. x \in Seq(Command) /\ y \in Seq(Command)
        BY <1>2, <1>3
    <2> QED
        BY <2>1, ConcatProperties
<1>5. Len(x \o y) = Len(b)
    BY <1>1, <1>2, <1>3, <1>4
<1>6. ASSUME NEW i \in 1..Len(x \o y) PROVE (x \o y)[i] = b[i]
    <2>1. CASE i <= n
        BY <1>1, <1>2, <1>3, <1>4, <1>5, <2>1
    <2>2. CASE ~(i <= n)
        <3>1. i - n \in 1..(Len(b) - n) /\ n + (i - n) = i
            BY <1>1, <1>5, <2>2
        <3>2. (x \o y)[i] = y[i - n]
            BY <1>1, <1>2, <1>3, <1>4, <1>5, <2>2
        <3> QED
            BY <1>3, <3>1, <3>2
    <2> QED
        BY <2>1, <2>2
<1>7. x \o y = b
    BY <1>4, <1>5, <1>6, SeqEqual
<1>8. <<>> \o b = b
    BY ConcatEmptySeq
<1> QED
    BY <1>7, <1>8 DEF Pipe, x, y

LEMMA ShrinksAfter ==
    ASSUME NEW p \in Seq(Command), NEW q \in Seq(Command), NEW r \in Seq(Command),
           NEW k, Shrinks(q, r, k)
    PROVE  Shrinks(p \o q, p \o r, Len(p) + k)
<1>1. /\ Len(p) \in Nat /\ Len(q) \in Nat /\ Len(r) \in Nat
      /\ k \in 1..Len(q) /\ Len(r) = Len(q) - 1 /\ \A i \in 1..Len(r) : r[i] = q[Past(k, i)]
    BY LenProperties DEF Shrinks
<1>2. /\ Len(p \o q) = Len(p) + Len(q)
      /\ \A i \in 1..(Len(p) + Len(q)) : (p \o q)[i] = IF i <= Len(p) THEN p[i] ELSE q[i - Len(p)]
    BY ConcatProperties
<1>3. /\ Len(p \o r) = Len(p) + Len(r)
      /\ \A i \in 1..(Len(p) + Len(r)) : (p \o r)[i] = IF i <= Len(p) THEN p[i] ELSE r[i - Len(p)]
    BY ConcatProperties
<1>4. ASSUME NEW i \in 1..(Len(p) + Len(r))
      PROVE  (p \o r)[i] = (p \o q)[Past(Len(p) + k, i)]
    <2>1. CASE i <= Len(p)
        <3>1. Past(Len(p) + k, i) = i /\ i \in 1..(Len(p) + Len(q))
            BY <1>1, <2>1 DEF Past
        <3> QED
            BY <1>2, <1>3, <2>1, <3>1
    <2>2. CASE ~(i <= Len(p))
        <3>1. /\ i - Len(p) \in 1..Len(r)
              /\ Past(Len(p) + k, i) = Len(p) + Past(k, i - Len(p))
              /\ Past(k, i - Len(p)) \in 1..Len(q)
            BY <1>1, <2>2 DEF Past
        <3>2. (p \o r)[i] = q[Past(k, i - Len(p))]
            BY <1>1, <1>3, <2>2, <3>1
        <3> DEFINE t == Past(k, i - Len(p))
        <3>3. t \in 1..Len(q) /\ Past(Len(p) + k, i) = Len(p) + t
            BY <3>1
        <3> HIDE DEF t
        <3>4. /\ Len(p) + t \in 1..(Len(p) + Len(q)) /\ ~(Len(p) + t <= Len(p))
              /\ (Len(p) + t) - Len(p) = t
            BY <1>1, <3>3
        <3>5. (p \o q)[Len(p) + t] = q[t]
            BY <1>2, <3>4
        <3> QED
            BY <3>2, <3>3, <3>5 DEF t
    <2> QED
        BY <2>1, <2>2
<1>5. Len(p) + k \in 1..(Len(p) + Len(q)) /\ Len(p) + Len(r) = (Len(p) + Len(q)) - 1
    BY <1>1
<1> QED
    BY <1>2, <1>3, <1>4, <1>5 DEF Shrinks

LEMMA ShrinksBefore ==
    ASSUME NEW q \in Seq(Command), NEW r \in Seq(Command), NEW s \in Command,
           NEW k, Shrinks(q, r, k)
    PROVE  Shrinks(Append(q, s), Append(r, s), k)
<1>1. /\ Len(q) \in Nat /\ Len(r) \in Nat
      /\ k \in 1..Len(q) /\ Len(r) = Len(q) - 1 /\ \A i \in 1..Len(r) : r[i] = q[Past(k, i)]
    BY LenProperties DEF Shrinks
<1>2. /\ Len(Append(q, s)) = Len(q) + 1 /\ Append(q, s)[Len(q) + 1] = s
      /\ \A i \in 1..Len(q) : Append(q, s)[i] = q[i]
    BY AppendProperties
<1>3. /\ Len(Append(r, s)) = Len(r) + 1 /\ Append(r, s)[Len(r) + 1] = s
      /\ \A i \in 1..Len(r) : Append(r, s)[i] = r[i]
    BY AppendProperties
<1>4. ASSUME NEW i \in 1..(Len(r) + 1)
      PROVE  Append(r, s)[i] = Append(q, s)[Past(k, i)]
    <2>1. CASE i = Len(r) + 1
        <3>1. Past(k, i) = Len(q) + 1
            BY <1>1, <2>1 DEF Past
        <3> QED
            BY <1>2, <1>3, <2>1, <3>1
    <2>2. CASE i # Len(r) + 1
        <3>1. i \in 1..Len(r) /\ Past(k, i) \in 1..Len(q)
            BY <1>1, <2>2 DEF Past
        <3> QED
            BY <1>1, <1>2, <1>3, <3>1
    <2> QED
        BY <2>1, <2>2
<1>5. /\ k \in 1..(Len(q) + 1) /\ Len(Append(r, s)) = Len(Append(q, s)) - 1
      /\ Len(Append(r, s)) = Len(r) + 1
    BY <1>1, <1>2, <1>3
<1> QED
    BY <1>2, <1>4, <1>5 DEF Shrinks

LEMMA GrowsAfter ==
    ASSUME NEW p \in Seq(Command), NEW q \in Seq(Command), NEW r \in Seq(Command),
           NEW k, Grows(q, r, k)
    PROVE  Grows(p \o q, p \o r, Len(p) + k)
<1>1. /\ Len(p) \in Nat /\ Len(q) \in Nat /\ Len(r) \in Nat
      /\ k \in 1..Len(q) /\ Len(r) = Len(q) + 1
      /\ \A i \in 1..Len(r) : i # k => r[i] = q[Back(k, i)]
      /\ r[k].boot = q[k].boot /\ (r[k].armed \/ r[k] = q[k])
    BY LenProperties DEF Grows
<1>2. /\ Len(p \o q) = Len(p) + Len(q)
      /\ \A i \in 1..(Len(p) + Len(q)) : (p \o q)[i] = IF i <= Len(p) THEN p[i] ELSE q[i - Len(p)]
    BY ConcatProperties
<1>3. /\ Len(p \o r) = Len(p) + Len(r)
      /\ \A i \in 1..(Len(p) + Len(r)) : (p \o r)[i] = IF i <= Len(p) THEN p[i] ELSE r[i - Len(p)]
    BY ConcatProperties
<1>6. ASSUME NEW t \in 1..Len(q) PROVE (p \o q)[Len(p) + t] = q[t]
    <2>1. /\ Len(p) + t \in 1..(Len(p) + Len(q)) /\ ~(Len(p) + t <= Len(p))
          /\ (Len(p) + t) - Len(p) = t
        BY <1>1
    <2> QED
        BY <1>2, <2>1
<1>7. ASSUME NEW t \in 1..Len(r) PROVE (p \o r)[Len(p) + t] = r[t]
    <2>1. /\ Len(p) + t \in 1..(Len(p) + Len(r)) /\ ~(Len(p) + t <= Len(p))
          /\ (Len(p) + t) - Len(p) = t
        BY <1>1
    <2> QED
        BY <1>3, <2>1
<1>4. ASSUME NEW i \in 1..(Len(p) + Len(r)), i # Len(p) + k
      PROVE  (p \o r)[i] = (p \o q)[Back(Len(p) + k, i)]
    <2>1. CASE i <= Len(p)
        <3>1. Back(Len(p) + k, i) = i /\ i \in 1..(Len(p) + Len(q))
            BY <1>1, <2>1 DEF Back
        <3> QED
            BY <1>2, <1>3, <2>1, <3>1
    <2>2. CASE ~(i <= Len(p))
        <3> DEFINE j == i - Len(p)
                   t == Back(k, j)
        <3>1. /\ j \in 1..Len(r) /\ i = Len(p) + j /\ j # k /\ t \in 1..Len(q)
              /\ Back(Len(p) + k, i) = Len(p) + t
            BY <1>1, <1>4, <2>2 DEF Back
        <3>2. r[j] = q[t]
            BY <1>1, <3>1
        <3> HIDE DEF j, t
        <3> QED
            BY <1>6, <1>7, <3>1, <3>2
    <2> QED
        BY <2>1, <2>2
<1>5. Len(p) + k \in 1..(Len(p) + Len(q)) /\ Len(p) + Len(r) = (Len(p) + Len(q)) + 1
      /\ k \in 1..Len(r)
    BY <1>1
<1>8. (p \o r)[Len(p) + k] = r[k] /\ (p \o q)[Len(p) + k] = q[k]
    BY <1>1, <1>5, <1>6, <1>7
<1> QED
    BY <1>1, <1>2, <1>3, <1>4, <1>5, <1>8 DEF Grows

LEMMA GrowsBefore ==
    ASSUME NEW q \in Seq(Command), NEW r \in Seq(Command), NEW s \in Command,
           NEW k, Grows(q, r, k)
    PROVE  Grows(Append(q, s), Append(r, s), k)
<1>1. /\ Len(q) \in Nat /\ Len(r) \in Nat
      /\ k \in 1..Len(q) /\ Len(r) = Len(q) + 1
      /\ \A i \in 1..Len(r) : i # k => r[i] = q[Back(k, i)]
      /\ r[k].boot = q[k].boot /\ (r[k].armed \/ r[k] = q[k])
    BY LenProperties DEF Grows
<1>2. /\ Len(Append(q, s)) = Len(q) + 1 /\ Append(q, s)[Len(q) + 1] = s
      /\ \A i \in 1..Len(q) : Append(q, s)[i] = q[i]
    BY AppendProperties
<1>3. /\ Len(Append(r, s)) = Len(r) + 1 /\ Append(r, s)[Len(r) + 1] = s
      /\ \A i \in 1..Len(r) : Append(r, s)[i] = r[i]
    BY AppendProperties
<1>4. ASSUME NEW i \in 1..(Len(r) + 1), i # k
      PROVE  Append(r, s)[i] = Append(q, s)[Back(k, i)]
    <2>1. CASE i = Len(r) + 1
        <3>1. Back(k, i) = Len(q) + 1
            BY <1>1, <2>1 DEF Back
        <3> QED
            BY <1>2, <1>3, <2>1, <3>1
    <2>2. CASE i # Len(r) + 1
        <3>1. i \in 1..Len(r) /\ Back(k, i) \in 1..Len(q)
            BY <1>1, <1>4, <2>2 DEF Back
        <3>2. r[i] = q[Back(k, i)]
            BY <1>1, <1>4, <3>1
        <3> QED
            BY <1>2, <1>3, <3>1, <3>2
    <2> QED
        BY <2>1, <2>2
<1>5. k \in 1..Len(r) /\ k \in 1..(Len(q) + 1) /\ Len(r) + 1 = (Len(q) + 1) + 1
    BY <1>1
<1>6. Append(r, s)[k] = r[k] /\ Append(q, s)[k] = q[k]
    BY <1>1, <1>2, <1>3, <1>5
<1> QED
    BY <1>1, <1>2, <1>3, <1>4, <1>5, <1>6 DEF Grows

LEMMA PipeLoses ==
    ASSUME NEW h \in Seq(Command), NEW a \in Seq(Command), NEW b \in Seq(Command),
           NEW s \in Command, NEW i \in 1..Len(b)
    PROVE  /\ Without(b, i) \in Seq(Command)
           /\ Len(h) + (Len(a) + i) < Len(Pipe(h, a, b, s))
           /\ Shrinks(Pipe(h, a, b, s), Pipe(h, a, Without(b, i), s), Len(h) + (Len(a) + i))
<1> DEFINE r == Without(b, i)
<1>1. Len(b) \in Nat
    BY LenProperties
<1>2. /\ r \in Seq(Command) /\ Len(r) = Len(b) - 1
      /\ \A j \in 1..(Len(b) - 1) : r[j] = b[Past(i, j)]
    BY LossOf
<1> HIDE DEF r
<1>3. Shrinks(b, r, i)
    BY <1>1, <1>2 DEF Shrinks
<1>4. Shrinks(a \o b, a \o r, Len(a) + i)
    BY <1>2, <1>3, ShrinksAfter
<1>5. a \o b \in Seq(Command) /\ a \o r \in Seq(Command)
      /\ h \o (a \o b) \in Seq(Command) /\ h \o (a \o r) \in Seq(Command)
    BY <1>2, PipeTyped
<1>6. Shrinks(h \o (a \o b), h \o (a \o r), Len(h) + (Len(a) + i))
    BY <1>4, <1>5, ShrinksAfter
<1>7. Shrinks(Pipe(h, a, b, s), Pipe(h, a, r, s), Len(h) + (Len(a) + i))
    BY <1>5, <1>6, ShrinksBefore DEF Pipe
<1>8. Len(h) + (Len(a) + i) < Len(Pipe(h, a, b, s))
    <2>1. /\ Len(Pipe(h, a, b, s)) = Len(h) + Len(a) + Len(b) + 1
          /\ Len(h) \in Nat /\ Len(a) \in Nat
        BY PipeTyped
    <2> QED
        BY <1>1, <2>1
<1> QED
    BY <1>2, <1>7, <1>8 DEF r

LEMMA PipeRepeats ==
    ASSUME NEW h \in Seq(Command), NEW a \in Seq(Command), NEW b \in Seq(Command),
           NEW s \in Command, NEW i \in 1..Len(b)
    PROVE  LET r == ToFirst(i, b) \o FromNext(i - 1, b) IN
           /\ r \in Seq(Command)
           /\ Grows(Pipe(h, a, b, s), Pipe(h, a, r, s), Len(h) + (Len(a) + i))
<1> DEFINE r == ToFirst(i, b) \o FromNext(i - 1, b)
<1>1. Len(b) \in Nat
    BY LenProperties
<1>2. /\ r \in Seq(Command) /\ Len(r) = Len(b) + 1
      /\ \A j \in 1..(Len(b) + 1) : r[j] = b[Back(i, j)]
    BY RepeatOf
<1> HIDE DEF r
<1>3. Grows(b, r, i)
    <2>1. i \in 1..(Len(b) + 1) /\ Back(i, i) = i
        BY <1>1 DEF Back
    <2>2. r[i] = b[i]
        BY <1>2, <2>1
    <2> QED
        BY <1>2, <2>2 DEF Grows
<1>4. Grows(a \o b, a \o r, Len(a) + i)
    BY <1>2, <1>3, GrowsAfter
<1>5. a \o b \in Seq(Command) /\ a \o r \in Seq(Command)
      /\ h \o (a \o b) \in Seq(Command) /\ h \o (a \o r) \in Seq(Command)
    BY <1>2, PipeTyped
<1>6. Grows(h \o (a \o b), h \o (a \o r), Len(h) + (Len(a) + i))
    BY <1>4, <1>5, GrowsAfter
<1>7. Grows(Pipe(h, a, b, s), Pipe(h, a, r, s), Len(h) + (Len(a) + i))
    BY <1>5, <1>6, GrowsBefore DEF Pipe
<1> QED
    BY <1>2, <1>7 DEF r

LEMMA PipeJoined ==
    ASSUME NEW h \in Seq(Command), NEW a \in Seq(Command), NEW b \in Seq(Command),
           NEW s \in Command, NEW x \in Command, x.armed, x.boot = s.boot
    PROVE  \E k : Grows(Pipe(h, a, b, s), Pipe(h, a, Append(b, x), s), k)
<1> DEFINE p == h \o (a \o b)
           q == Append(p, s)
           r == Append(Append(p, x), s)
           k == Len(p) + 1
<1>1. p \in Seq(Command) /\ Len(p) \in Nat
    <2>1. p \in Seq(Command)
        BY PipeTyped
    <2> HIDE DEF p
    <2> QED
        BY <2>1, LenProperties
<1>2. Pipe(h, a, b, s) = q /\ Pipe(h, a, Append(b, x), s) = r
    <2>1. Pipe(h, a, Append(b, x), s) = Append(Pipe(h, a, b, x), s)
        BY PipeSent
    <2> QED
        BY <2>1 DEF Pipe
<1> HIDE DEF p
<1>3. /\ Append(p, x) \in Seq(Command) /\ Len(Append(p, x)) = Len(p) + 1
      /\ Append(p, x)[Len(p) + 1] = x /\ \A i \in 1..Len(p) : Append(p, x)[i] = p[i]
    BY <1>1, AppendProperties
<1>4. /\ Len(q) = Len(p) + 1 /\ q[Len(p) + 1] = s /\ \A i \in 1..Len(p) : q[i] = p[i]
    BY <1>1, AppendProperties
<1>5. /\ Len(r) = Len(Append(p, x)) + 1 /\ r[Len(Append(p, x)) + 1] = s
      /\ \A i \in 1..Len(Append(p, x)) : r[i] = Append(p, x)[i]
    BY <1>3, AppendProperties
<1>6. /\ Len(r) = Len(q) + 1 /\ k \in 1..Len(q) /\ Len(q) = k
      /\ r[k + 1] = s /\ r[k] = x /\ q[k] = s /\ \A i \in 1..Len(p) : r[i] = q[i]
    BY <1>1, <1>3, <1>4, <1>5
<1> HIDE DEF q, r
<1>7. ASSUME NEW i \in 1..Len(r), i # k PROVE r[i] = q[Back(k, i)]
    <2>1. CASE i = k + 1
        <3>1. Back(k, i) = k
            BY <1>1, <2>1 DEF Back
        <3> QED
            BY <1>6, <2>1, <3>1
    <2>2. CASE i # k + 1
        <3>1. i \in 1..Len(p) /\ Back(k, i) = i
            BY <1>1, <1>6, <1>7, <2>2 DEF Back
        <3> QED
            BY <1>6, <3>1
    <2> QED
        BY <2>1, <2>2
<1>8. Grows(q, r, k)
    BY <1>6, <1>7 DEF Grows
<1> QED
    BY <1>2, <1>8

\* The head of a sequence goes.
LEMMA HeadGoes ==
    ASSUME NEW c \in Command, NEW z \in Seq(Command)
    PROVE  <<c>> \o z \in Seq(Command) /\ Shrinks(<<c>> \o z, z, 1) /\ (<<c>> \o z)[1] = c
<1>1. <<c>> \in Seq(Command) /\ Len(<<c>>) = 1 /\ <<c>>[1] = c /\ Len(z) \in Nat
    BY LenProperties
<1> DEFINE one == <<c>>
<1> HIDE DEF one
<1>2. one \in Seq(Command) /\ Len(one) = 1 /\ one[1] = c
    BY <1>1 DEF one
<1>3. /\ one \o z \in Seq(Command) /\ Len(one \o z) = Len(one) + Len(z)
      /\ \A i \in 1..(Len(one) + Len(z)) :
            (one \o z)[i] = IF i <= Len(one) THEN one[i] ELSE z[i - Len(one)]
    BY <1>2, ConcatProperties
<1>4. ASSUME NEW i \in 1..Len(z) PROVE z[i] = (one \o z)[Past(1, i)]
    <2>1. Past(1, i) = i + 1 /\ i + 1 \in 1..(Len(one) + Len(z)) /\ (i + 1) - Len(one) = i
          /\ ~(i + 1 <= Len(one))
        BY <1>1, <1>2 DEF Past
    <2> QED
        BY <1>3, <2>1
<1>5. 1 \in 1..Len(one \o z) /\ Len(z) = Len(one \o z) - 1
    BY <1>1, <1>2, <1>3
<1>6. (one \o z)[1] = c
    BY <1>1, <1>2, <1>3
<1> QED
    BY <1>3, <1>4, <1>5, <1>6 DEF Shrinks, one

LEMMA HeadFirst ==
    ASSUME NEW a \in Seq(Command), a # <<>>
    PROVE  /\ Head(a) \in Command /\ Tail(a) \in Seq(Command)
           /\ a = <<Head(a)>> \o Tail(a)
<1>1. /\ Head(a) \in Command /\ Tail(a) \in Seq(Command) /\ Len(Tail(a)) = Len(a) - 1
      /\ \A i \in 1..Len(Tail(a)) : Tail(a)[i] = a[i + 1]
    BY HeadTailProperties
<1>2. Len(a) \in Nat /\ Len(a) # 0 /\ Head(a) = a[1]
    BY LenProperties, EmptySeq
<1> DEFINE q == <<Head(a)>> \o Tail(a)
<1>3. q \in Seq(Command) /\ Shrinks(q, Tail(a), 1) /\ q[1] = Head(a)
    BY <1>1, HeadGoes
<1> HIDE DEF q
<1>4. Len(q) = Len(a) /\ \A i \in 1..Len(Tail(a)) : Tail(a)[i] = q[i + 1]
    <2>1. Len(q) \in Nat
        BY <1>3, LenProperties
    <2>2. \A i \in 1..Len(Tail(a)) : Past(1, i) = i + 1
        BY <1>1, <1>2 DEF Past
    <2>3. Len(Tail(a)) = Len(q) - 1 /\ \A i \in 1..Len(Tail(a)) : Tail(a)[i] = q[Past(1, i)]
        BY <1>3 DEF Shrinks
    <2>4. Len(Tail(a)) = Len(q) - 1
        BY <2>3
    <2>5. Len(q) = Len(a)
        BY <1>1, <1>2, <2>1, <2>4
    <2> QED
        BY <2>2, <2>3, <2>5
<1>5. ASSUME NEW i \in 1..Len(a) PROVE a[i] = q[i]
    <2>1. CASE i = 1
        BY <1>2, <1>3, <2>1
    <2>2. CASE i # 1
        <3>1. i - 1 \in 1..Len(Tail(a)) /\ (i - 1) + 1 = i
            BY <1>1, <1>2, <2>2
        <3> QED
            BY <1>1, <1>4, <3>1
    <2> QED
        BY <2>1, <2>2
<1>6. a = q
    BY <1>3, <1>4, <1>5, SeqEqual
<1> QED
    BY <1>1, <1>6 DEF q

\* The bridge comes to the next command of its chunk.
LEMMA PipeNext ==
    ASSUME NEW a \in Seq(Command), NEW b \in Seq(Command), NEW s \in Command, a # <<>>
    PROVE  Pipe(<<>>, a, b, s) = Pipe(<<Head(a)>>, Tail(a), b, s)
<1>1. /\ Head(a) \in Command /\ Tail(a) \in Seq(Command) /\ a = <<Head(a)>> \o Tail(a)
    BY HeadFirst
<1>2. a \o b \in Seq(Command) /\ <<Head(a)>> \in Seq(Command)
    BY <1>1, PipeTyped, EmptySeq
<1>3. <<>> \o (a \o b) = a \o b
    BY <1>2, ConcatEmptySeq
<1>4. (<<Head(a)>> \o Tail(a)) \o b = <<Head(a)>> \o (Tail(a) \o b)
    BY <1>1, <1>2, ConcatAssociative
<1>5. a \o b = <<Head(a)>> \o (Tail(a) \o b)
    BY <1>1, <1>4
<1> QED
    BY <1>3, <1>5 DEF Pipe

LEMMA PipeForgets ==
    ASSUME NEW x \in Command, NEW a \in Seq(Command), NEW b \in Seq(Command), NEW s \in Command
    PROVE  /\ <<x>> \in Seq(Command)
           /\ Shrinks(Pipe(<<x>>, a, b, s), Pipe(<<>>, a, b, s), 1)
           /\ Len(Pipe(<<x>>, a, b, s)) > 1
           /\ Pipe(<<x>>, a, b, s)[1] = x
<1>1. <<x>> \in Seq(Command) /\ Len(<<x>>) = 1 /\ <<>> \in Seq(Command)
    BY EmptySeq
<1>2. a \o b \in Seq(Command)
    BY PipeTyped
<1>3. /\ <<x>> \o (a \o b) \in Seq(Command)
      /\ Shrinks(<<x>> \o (a \o b), a \o b, 1) /\ (<<x>> \o (a \o b))[1] = x
    BY <1>2, HeadGoes
<1>4. <<>> \o (a \o b) = a \o b
    BY <1>2, ConcatEmptySeq
<1>5. Shrinks(Pipe(<<x>>, a, b, s), Pipe(<<>>, a, b, s), 1)
    BY <1>2, <1>3, <1>4, ShrinksBefore DEF Pipe
<1>6. Len(Pipe(<<x>>, a, b, s)) > 1
    <2>1. \A h \in Seq(Command) : /\ Len(Pipe(h, a, b, s)) = Len(h) + Len(a) + Len(b) + 1
                                  /\ Len(a) \in Nat /\ Len(b) \in Nat
        BY PipeTyped
    <2> DEFINE h == <<x>>
    <2>2. h \in Seq(Command) /\ Len(h) = 1
        BY <1>1
    <2> HIDE DEF h
    <2>3. /\ Len(Pipe(h, a, b, s)) = Len(h) + Len(a) + Len(b) + 1
          /\ Len(a) \in Nat /\ Len(b) \in Nat
        BY <2>1, <2>2, Zenon
    <2>4. Len(h) + Len(a) + Len(b) + 1 > 1
        BY <2>2, <2>3
    <2>5. Len(Pipe(h, a, b, s)) > 1
        BY <2>3, <2>4
    <2> QED
        BY <2>5 DEF h
<1>7. Pipe(<<x>>, a, b, s)[1] = x
    <2>1. 1 \in 1..Len(<<x>> \o (a \o b))
        BY <1>3 DEF Shrinks
    <2> QED
        BY <1>3, <2>1, AppendProperties DEF Pipe
<1> QED
    BY <1>1, <1>5, <1>6, <1>7

\* The bridge passes over the next command of its chunk.
LEMMA PipeDrops ==
    ASSUME NEW h \in Seq(Command), NEW a \in Seq(Command), NEW b \in Seq(Command),
           NEW s \in Command, a # <<>>
    PROVE  /\ Shrinks(Pipe(h, a, b, s), Pipe(h, Tail(a), b, s), Len(h) + 1)
           /\ Len(h) + 1 < Len(Pipe(h, a, b, s))
           /\ Pipe(h, a, b, s)[Len(h) + 1] = Head(a)
<1> DEFINE c == Head(a)
           y == Tail(a) \o b
<1>1. /\ c \in Command /\ Tail(a) \in Seq(Command) /\ a = <<c>> \o Tail(a)
    BY HeadFirst
<1>2. <<c>> \in Seq(Command) /\ y \in Seq(Command) /\ h \o y \in Seq(Command)
    BY <1>1, PipeTyped, EmptySeq
<1>3. a \o b = <<c>> \o y
    <2>1. (<<c>> \o Tail(a)) \o b = <<c>> \o (Tail(a) \o b)
        BY <1>1, <1>2, ConcatAssociative
    <2> QED
        BY <1>1, <2>1
<1> HIDE DEF c, y
<1> DEFINE z == <<c>> \o y
<1>4. z \in Seq(Command) /\ Shrinks(z, y, 1) /\ z[1] = c
    BY <1>1, <1>2, HeadGoes
<1> HIDE DEF z
<1>5. Shrinks(h \o z, h \o y, Len(h) + 1) /\ h \o z \in Seq(Command)
    BY <1>2, <1>4, ShrinksAfter, ConcatProperties
<1>6. Shrinks(Append(h \o z, s), Append(h \o y, s), Len(h) + 1)
    BY <1>2, <1>5, ShrinksBefore
<1>7. Pipe(h, a, b, s) = Append(h \o z, s) /\ Pipe(h, Tail(a), b, s) = Append(h \o y, s)
    BY <1>3 DEF Pipe, z, y
<1>8. /\ Len(h) \in Nat /\ Len(z) \in Nat /\ 1 \in 1..Len(z)
      /\ Len(h \o z) = Len(h) + Len(z)
      /\ (h \o z)[Len(h) + 1] = IF Len(h) + 1 <= Len(h) THEN h[Len(h) + 1]
                                ELSE z[(Len(h) + 1) - Len(h)]
    <2>1. Len(h) \in Nat /\ Len(z) \in Nat /\ 1 \in 1..Len(z)
        BY <1>4, LenProperties DEF Shrinks
    <2>2. Len(h) + 1 \in 1..(Len(h) + Len(z))
        BY <2>1
    <2> QED
        BY <1>4, <2>1, <2>2, ConcatProperties
<1>9. (h \o z)[Len(h) + 1] = c
    BY <1>4, <1>8
<1>10. /\ Append(h \o z, s)[Len(h) + 1] = (h \o z)[Len(h) + 1]
       /\ Len(Append(h \o z, s)) = Len(h \o z) + 1
    <2>1. Len(h) + 1 \in 1..Len(h \o z)
        BY <1>8
    <2> QED
        BY <1>5, <2>1, AppendProperties
<1>11. Len(h) + 1 < Len(h \o z) + 1
    BY <1>8
<1>12. Len(Append(h \o z, s)) = Len(h \o z) + 1 /\ Append(h \o z, s)[Len(h) + 1] = c
    BY <1>9, <1>10
<1> QED
    BY <1>6, <1>7, <1>11, <1>12 DEF c

USE BridgeAssumption

-----------------------------------------------------------------------------
(* The numbers on their way *)

\* The command the bridge remembers the number of.
Latest == IF bridge.writing = "command" THEN bridge.frame ELSE last

Remembered == IF bridge.initialized THEN <<Latest>> ELSE <<>>

\* What the source will send next.
Issued ==
    [session |-> HilSession, seq |-> source.next, armed |-> FALSE, boot |-> source.boot]

Line(h) == Pipe(h, bridge.input, toBridge, Issued)

\* Only the source sends unarmed commands.
OfTheSource == {c \in Command : c.armed \/ c.session = HilSession}

\* A later command of the same boot that leaves out no more than the line lost.
Succeeds(c, earlier) ==
    c.boot > earlier.boot \/ (c.boot = earlier.boot /\ Gap(earlier, c) \in 1..(1 + MaxFaults))

\* How many of the numbers that are refused after "latest" come up to seq.
Refusals(seq, latest) ==
    LET d == (seq - latest) % Modulus IN
    IF d = 0 THEN Modulus \div 2 + 1 ELSE d - Modulus \div 2 + 1

\* Of a boot that is being refused x was the last command; there have been no
\* more than the numbers up to x and their repeats.
Refusing(x) ==
    /\ ~x.armed /\ x.boot = refused.boot /\ Behind(x.seq, bridge.sequence)
    /\ Regular(Line(<<x>>), faults, refused.count - Refusals(x.seq, bridge.sequence))

AtRest ==
    /\ bridge.phase # "commands" => bridge.input = <<>>
    /\ bridge.phase = "exited" =>
          toBridge = <<>> /\ ~bridge.initialized /\ refused.count = 0

Known ==
    bridge.initialized =>
        /\ ~Latest.armed /\ Latest.session = HilSession
        /\ bridge.session = HilSession /\ bridge.sequence = Latest.seq

LineInv ==
    /\ AtRest
    /\ Known
    /\ bridge.input \in Seq(OfTheSource) /\ toBridge \in Seq(OfTheSource)
    /\ Regular(Line(Remembered), faults, 0)
    /\ bridge.writing = "command" /\ last # NoCommand => Succeeds(bridge.frame, last)
    /\ FewFaults /\ refused.count > 0 =>
          bridge.initialized /\ \E x \in Command : Refusing(x)

LEMMA OursTyped ==
    ASSUME NEW q \in Seq(OfTheSource)
    PROVE  q \in Seq(Command)
BY DEF OfTheSource

LEMMA IssuedTyped ==
    ASSUME TypeOK PROVE Issued \in Command /\ Issued \in OfTheSource
BY DEF TypeOK, Issued, Command, OfTheSource

LEMMA BridgeFields ==
    ASSUME TypeOK
    PROVE  /\ bridge \in Bridge /\ bridge.input \in Seq(Command) /\ bridge.frame \in Command
           /\ bridge.sequence \in 0..(Modulus - 1) /\ toBridge \in Seq(Command)
           /\ last \in Command /\ Latest \in Command /\ Issued \in Command
           /\ faults \in Nat /\ faults <= MaxFaults /\ faults \in 0..MaxFaults
           /\ refused.count \in Nat /\ refused.boot \in Nat
           /\ Remembered \in Seq(Command)
<1>1. /\ bridge \in Bridge /\ bridge.input \in Seq(Command) /\ bridge.frame \in Command
      /\ bridge.sequence \in 0..(Modulus - 1) /\ toBridge \in Seq(Command)
      /\ last \in Command /\ faults \in 0..MaxFaults
      /\ refused.count \in Nat /\ refused.boot \in 0..MaxReboots
    BY DEF TypeOK, Bridge
<1>2. Latest \in Command
    BY <1>1 DEF Latest
<1>3. Remembered \in Seq(Command)
    BY <1>2, EmptySeq DEF Remembered
<1>4. refused.boot \in Nat /\ faults \in Nat /\ faults <= MaxFaults
    BY <1>1
<1> QED
    BY <1>1, <1>2, <1>3, <1>4, IssuedTyped

LEMMA IssuedNext == ASSUME TypeOK' PROVE Issued' \in Command /\ faults' \in Nat
<1>1. source' \in [next : 0..(Modulus - 1), boot : 0..MaxReboots] /\ faults' \in 0..MaxFaults
    BY DEF TypeOK
<1>2. Issued' = [session |-> HilSession, seq |-> source'.next, armed |-> FALSE,
                 boot |-> source'.boot]
    BY DEF Issued
<1>3. ASSUME NEW k \in 0..(Modulus - 1), NEW n \in 0..MaxReboots
      PROVE  [session |-> HilSession, seq |-> k, armed |-> FALSE, boot |-> n] \in Command
    BY DEF Command
<1> QED
    BY <1>1, <1>2, <1>3

LEMMA PipeLong ==
    ASSUME NEW h \in Seq(Command), NEW a \in Seq(Command), NEW b \in Seq(Command),
           NEW s \in Command
    PROVE  Pipe(h, a, b, s) \in Seq(Command) /\ Len(Pipe(h, a, b, s)) >= 1
<1> DEFINE q == Pipe(h, a, b, s)
<1>1. /\ q \in Seq(Command) /\ Len(q) = Len(h) + Len(a) + Len(b) + 1
      /\ Len(h) \in Nat /\ Len(a) \in Nat /\ Len(b) \in Nat
    BY PipeTyped
<1> HIDE DEF q
<1>2. q \in Seq(Command) /\ Len(q) >= 1
    BY <1>1
<1> QED
    BY <1>2 DEF q

\* A line with nothing on it.
LEMMA RegularEmpty ==
    ASSUME NEW s \in Command, NEW f \in Nat
    PROVE  Regular(Pipe(<<>>, <<>>, <<>>, s), f, 0)
<1>1. ASSUME NEW e \in Seq(Command), Len(e) = 0
      PROVE  Regular(Pipe(e, e, e, s), f, 0)
    <2> DEFINE q == Pipe(e, e, e, s)
    <2>1. q \in Seq(Command) /\ Len(q) = Len(e) + Len(e) + Len(e) + 1
        BY PipeTyped
    <2> HIDE DEF q
    <2>2. Regular(q, f, 0)
        BY <1>1, <2>1, RegularAlone
    <2> QED
        BY <2>2 DEF q
<1>2. <<>> \in Seq(Command) /\ Len(<<>>) = 0
    BY EmptySeq
<1> QED
    BY <1>1, <1>2

LEMMA RefusalsTyped ==
    ASSUME NEW c \in Command, NEW latest \in 0..(Modulus - 1)
    PROVE  /\ Refusals(c.seq, latest) \in Int
           /\ Behind(c.seq, latest) => Refusals(c.seq, latest) \in 1..(Modulus \div 2 + 1)
<1>1. c.seq \in 0..(Modulus - 1) /\ Modulus \in Nat /\ Modulus >= 2
      /\ Modulus \div 2 \in 1..(Modulus - 1) /\ Modulus = 2 * (Modulus \div 2)
    <2>1. Modulus \in Nat /\ Modulus % 2 = 0
        OBVIOUS
    <2>2. Modulus = 2 * (Modulus \div 2)
        BY <2>1
    <2> QED
        BY <2>2, ModulusPositive, CommandFields
<1> DEFINE d == (c.seq - latest) % Modulus
           half == Modulus \div 2
<1>2. d \in 0..(Modulus - 1)
    BY <1>1
<1> HIDE DEF d, half
<1>3. half \in Nat /\ Modulus = 2 * half /\ d \in Nat /\ d < Modulus
    BY <1>1, <1>2 DEF half
<1>4. Refusals(c.seq, latest) = IF d = 0 THEN half + 1 ELSE d - half + 1
    BY DEF Refusals, d, half
<1>5. Behind(c.seq, latest) <=> d = 0 \/ d >= half
    BY DEF Behind, d, half
<1> QED
    BY <1>3, <1>4, <1>5 DEF half

LEMMA InitLine == Init => LineInv
<1> SUFFICES ASSUME Init PROVE LineInv
    OBVIOUS
<1>1. TypeOK
    BY InitIInv DEF IInv
<1>2. /\ bridge.input = <<>> /\ toBridge = <<>> /\ ~bridge.initialized
      /\ bridge.phase = "poll" /\ bridge.writing = "nothing" /\ refused.count = 0
    BY DEF Init, StartedBridge
<1>3. Regular(Line(Remembered), faults, 0)
    <2>1. Issued \in Command /\ faults \in Nat
        BY <1>1, BridgeFields
    <2> QED
        BY <1>2, <2>1, RegularEmpty DEF Remembered, Line
<1>4. <<>> \in Seq(OfTheSource)
    BY EmptySeq
<1> QED
    BY <1>2, <1>3, <1>4 DEF LineInv, AtRest, Known

\* What happens on the line to the bridge leaves it regular, whatever its head.
LEMMA LineKept ==
    ASSUME IInv, IInv', LineInv, bridge.phase # "exited",
           SourceSend \/ SourceReboot \/ BridgePoll \/ LineFault,
           NEW h \in Seq(Command), NEW n \in Int,
           Regular(Line(h), faults, n)
    PROVE  /\ Regular(Pipe(h, bridge'.input, toBridge', Issued'), faults', n)
           /\ bridge'.input \in Seq(OfTheSource) /\ toBridge' \in Seq(OfTheSource)
<1> DEFINE a == bridge.input
           b == toBridge
           s == Issued
<1>1. /\ a \in Seq(Command) /\ b \in Seq(Command) /\ s \in Command /\ Issued' \in Command
      /\ faults \in Nat /\ faults' \in Nat
      /\ toBridge' \in Seq(Command) /\ bridge'.input \in Seq(Command)
    <2>1. TypeOK /\ TypeOK'
        BY DEF IInv
    <2>2. Issued' \in Command
        BY <2>1, IssuedTyped DEF TypeOK, Issued, Command
    <2>3. faults' \in Nat /\ toBridge' \in Seq(Command) /\ bridge'.input \in Seq(Command)
        BY <2>1 DEF TypeOK
    <2> QED
        BY <2>1, <2>2, <2>3, BridgeFields
<1>2. /\ a \in Seq(OfTheSource) /\ b \in Seq(OfTheSource)
      /\ Regular(Pipe(h, a, b, s), faults, n)
    BY DEF LineInv, Line
<1>4. s.boot = source.boot /\ s.seq = source.next /\ ~s.armed
    BY DEF Issued
<1> DEFINE q == Pipe(h, a, b, s)
<1> HIDE DEF a, b, s
<1>3. /\ q \in Seq(Command) /\ Len(q) = Len(h) + Len(a) + Len(b) + 1 /\ q[Len(q)] = s
      /\ Len(h) \in Nat /\ Len(a) \in Nat /\ Len(b) \in Nat
    <2>1. h \in Seq(Command) /\ a \in Seq(Command) /\ b \in Seq(Command) /\ s \in Command
        BY <1>1
    <2> QED
        BY <2>1, PipeTyped
<1> HIDE DEF q
<1>5. CASE SourceSend
    <2>1. /\ toBridge' = Append(b, s) /\ bridge' = bridge
          /\ source' = [source EXCEPT !.next = Following(@)] /\ faults' = faults
        BY <1>5 DEF SourceSend, b, s, Issued
    <2>2. s \in OfTheSource
        BY IssuedTyped DEF IInv, s
    <2>3. toBridge' \in Seq(OfTheSource)
        BY <1>2, <2>1, <2>2, AppendProperties
    <2>4. Issued'.boot = s.boot /\ Issued'.seq = Following(s.seq)
        BY <1>4, <2>1 DEF IInv, TypeOK, Issued
    <2>5. Pipe(h, a, Append(b, s), Issued') = Append(q, Issued')
        <3>1. h \in Seq(Command) /\ a \in Seq(Command) /\ b \in Seq(Command) /\ s \in Command
            BY <1>1
        <3>2. ASSUME NEW t \in Command PROVE Pipe(h, a, Append(b, s), t) = Append(q, t)
            BY <3>1, PipeSent DEF q
        <3> QED
            BY <1>1, <3>2
    <2>6. Len(q) >= 1
        BY <1>3
    <2>7. Regular(Append(q, Issued'), faults, n)
        BY <1>1, <1>2, <1>3, <1>4, <2>4, <2>6, RegularSent DEF q
    <2> QED
        BY <1>2, <2>1, <2>3, <2>5, <2>7 DEF a
<1>6. CASE SourceReboot
    <2>1. /\ toBridge' = b /\ bridge' = bridge /\ faults' = faults
          /\ source'.boot > source.boot
        <3>1. source' = [next |-> 1, boot |-> source.boot + 1] /\ source.boot \in Nat
            BY <1>6 DEF SourceReboot, IInv, TypeOK
        <3> QED
            BY <1>6, <3>1 DEF SourceReboot, b
    <2>2. Issued'.boot > s.boot
        BY <1>4, <2>1 DEF Issued
    <2> DEFINE t == Issued'
               r == Pipe(h, a, b, t)
    <2>3. t \in Command /\ t.boot > s.boot
        BY <1>1, <2>2
    <2> HIDE DEF t
    <2>4. /\ r \in Seq(Command) /\ Len(r) = Len(h) + Len(a) + Len(b) + 1 /\ r[Len(r)] = t
        BY <1>1, <2>3, PipeTyped
    <2>5. \A i \in 1..Len(q) : i < Len(q) => r[i] = q[i]
        <3> DEFINE p == h \o (a \o b)
        <3>1. p \in Seq(Command)
            BY <1>1, PipeTyped
        <3>2. q = Append(p, s) /\ r = Append(p, t)
            BY DEF q, Pipe
        <3> HIDE DEF p, r
        <3>3. /\ Len(Append(p, s)) = Len(p) + 1 /\ Len(p) \in Nat
              /\ \A i \in 1..Len(p) : Append(p, s)[i] = p[i]
            BY <1>1, <3>1, AppendProperties, LenProperties
        <3>4. \A i \in 1..Len(p) : Append(p, t)[i] = p[i]
            BY <2>3, <3>1, AppendProperties
        <3> QED
            BY <3>2, <3>3, <3>4
    <2> HIDE DEF r
    <2>6. Len(q) >= 1 /\ Len(r) = Len(q)
        BY <1>3, <2>4
    <2>7. r[Len(q)].boot > q[Len(q)].boot
        BY <1>3, <2>3, <2>4, <2>6
    <2>8. Regular(r, faults, n)
        BY <1>1, <1>2, <1>3, <2>4, <2>5, <2>6, <2>7, RegularRestart DEF q
    <2> QED
        BY <1>2, <2>1, <2>8 DEF a, r, t
<1>7. CASE BridgePoll
    <2>1. a = <<>>
        BY <1>7 DEF BridgePoll, Poll, LineInv, AtRest, a
    <2>2. PICK m \in 0..Len(b) :
             /\ bridge' = [bridge EXCEPT !.phase = "commands", !.sinkReady = toHost > 0,
                                         !.input = ToFirst(m, b)]
             /\ toBridge' = FromNext(m, b)
        BY <1>7 DEF BridgePoll, Poll, b
    <2>3. bridge'.input = ToFirst(m, b)
        <3>1. bridge \in Bridge
            BY BridgeFields DEF IInv
        <3> QED
            BY <2>2, <3>1 DEF Bridge
    <2>4. Issued' = s /\ faults' = faults
        BY <1>7 DEF BridgePoll, Issued, s
    <2>5. ToFirst(m, b) \in Seq(OfTheSource) /\ FromNext(m, b) \in Seq(OfTheSource)
        BY <1>2, FirstOf, RestOf
    <2>6. Pipe(h, ToFirst(m, b), FromNext(m, b), s) = Pipe(h, <<>>, b, s)
        BY <1>1, PipePolled
    <2> QED
        BY <1>2, <2>1, <2>2, <2>3, <2>4, <2>5, <2>6
<1>8. CASE LineFault
    <2>1. /\ bridge' = bridge /\ Issued' = s /\ faults' = faults + 1 /\ faults + 1 <= MaxFaults
        BY <1>1, <1>8 DEF LineFault, Issued, s
    <2>2. \/ toBridge' = b
          \/ \E i \in 1..Len(b) : toBridge' = Without(b, i)
          \/ \E i \in 1..Len(b) : toBridge' = ToFirst(i, b) \o FromNext(i - 1, b)
          \/ \E x \in Command : x.armed /\ x.boot = source.boot /\ toBridge' = Append(b, x)
        <3>1. \A m \in Session, seq \in 0..(Modulus - 1) :
                 [session |-> m, seq |-> seq, armed |-> TRUE, boot |-> source.boot] \in Command
            BY DEF IInv, TypeOK, Command
        <3> QED
            BY <1>8, <3>1 DEF LineFault, b
    <2>3. ASSUME NEW r \in Seq(Command), r \in Seq(OfTheSource), toBridge' = r,
                 Regular(Pipe(h, a, r, s), faults + 1, n)
          PROVE  /\ Regular(Pipe(h, bridge'.input, toBridge', Issued'), faults', n)
                 /\ bridge'.input \in Seq(OfTheSource) /\ toBridge' \in Seq(OfTheSource)
        BY <1>2, <2>1, <2>3 DEF a
    <2>4. CASE toBridge' = b
        <3>1. faults + 1 \in Nat /\ faults <= faults + 1 /\ n <= n /\ Len(q) >= 1
            BY <1>1, <1>3
        <3>2. Regular(q, faults + 1, n)
            BY <1>1, <1>2, <1>3, <3>1, RegularWider DEF q
        <3> QED
            BY <1>1, <1>2, <2>3, <2>4, <3>2 DEF q
    <2>5. CASE \E i \in 1..Len(b) : toBridge' = Without(b, i)
        <3>1. PICK i \in 1..Len(b) : toBridge' = Without(b, i)
            BY <2>5
        <3> DEFINE r == Without(b, i)
                   k == Len(h) + (Len(a) + i)
        <3>2. r \in Seq(OfTheSource) /\ r \in Seq(Command) /\ toBridge' = r
            BY <1>1, <1>2, <3>1, LossOf
        <3>3. k < Len(q) /\ Shrinks(q, Pipe(h, a, r, s), k)
            BY <1>1, PipeLoses DEF q
        <3> HIDE DEF r, k
        <3>4. Pipe(h, a, r, s) \in Seq(Command) /\ 1 \in 0..1
            BY <1>1, <3>2, PipeTyped
        <3>5. Regular(Pipe(h, a, r, s), faults + 1, n)
            BY <1>1, <1>2, <1>3, <2>1, <3>3, <3>4, RegularWithout DEF q
        <3> QED
            BY <2>3, <3>2, <3>5
    <2>6. CASE \E i \in 1..Len(b) : toBridge' = ToFirst(i, b) \o FromNext(i - 1, b)
        <3>1. PICK i \in 1..Len(b) : toBridge' = ToFirst(i, b) \o FromNext(i - 1, b)
            BY <2>6
        <3> DEFINE r == ToFirst(i, b) \o FromNext(i - 1, b)
                   k == Len(h) + (Len(a) + i)
        <3>2. r \in Seq(OfTheSource) /\ r \in Seq(Command) /\ toBridge' = r
            BY <1>1, <1>2, <3>1, RepeatOf
        <3>3. Grows(q, Pipe(h, a, r, s), k)
            BY <1>1, PipeRepeats DEF q
        <3> HIDE DEF r, k
        <3>4. Pipe(h, a, r, s) \in Seq(Command)
            BY <1>1, <3>2, PipeTyped
        <3>5. Regular(Pipe(h, a, r, s), faults + 1, n)
            BY <1>1, <1>2, <1>3, <3>3, <3>4, RegularWith DEF q
        <3> QED
            BY <2>3, <3>2, <3>5
    <2>7. CASE \E x \in Command : x.armed /\ x.boot = source.boot /\ toBridge' = Append(b, x)
        <3>1. PICK x \in Command : x.armed /\ x.boot = source.boot /\ toBridge' = Append(b, x)
            BY <2>7
        <3> DEFINE r == Append(b, x)
        <3>2. r \in Seq(OfTheSource) /\ r \in Seq(Command) /\ toBridge' = r
            <4>1. x \in OfTheSource
                BY <3>1 DEF OfTheSource
            <4> QED
                BY <1>1, <1>2, <3>1, <4>1, AppendProperties
        <3>3. PICK k : Grows(q, Pipe(h, a, r, s), k)
            BY <1>1, <1>4, <3>1, PipeJoined DEF q
        <3> HIDE DEF r
        <3>4. Pipe(h, a, r, s) \in Seq(Command)
            BY <1>1, <3>2, PipeTyped
        <3>5. Regular(Pipe(h, a, r, s), faults + 1, n)
            BY <1>1, <1>2, <1>3, <3>3, <3>4, RegularWith DEF q
        <3> QED
            BY <2>3, <3>2, <3>5
    <2> QED
        BY <2>2, <2>4, <2>5, <2>6, <2>7
<1> QED
    BY <1>5, <1>6, <1>7, <1>8

-----------------------------------------------------------------------------
(* What a step does to the line *)

HIDE BridgeAssumption

LEMMA LineInvNext ==
    ASSUME AtRest', Known',
           bridge'.input \in Seq(OfTheSource), toBridge' \in Seq(OfTheSource),
           Regular(Pipe(Remembered', bridge'.input, toBridge', Issued'), faults', 0),
           bridge'.writing = "command" /\ last' # NoCommand => Succeeds(bridge'.frame, last'),
           FewFaults /\ refused'.count > 0 =>
              /\ bridge'.initialized
              /\ \E x \in Command :
                    /\ ~x.armed /\ x.boot = refused'.boot /\ Behind(x.seq, bridge'.sequence)
                    /\ Regular(Pipe(<<x>>, bridge'.input, toBridge', Issued'), faults',
                               refused'.count - Refusals(x.seq, bridge'.sequence))
    PROVE  LineInv'
BY DEF LineInv, Line, Refusing

\* A bridge that has nothing and remembers nothing.
LEMMA FreshLine ==
    ASSUME IInv', bridge'.input = <<>>, toBridge' = <<>>, ~bridge'.initialized,
           refused'.count = 0, bridge'.writing # "command"
    PROVE  LineInv'
<1>1. faults' \in Nat /\ Issued' \in Command
    <2>1. TypeOK'
        BY DEF IInv
    <2> QED
        BY <2>1, IssuedNext
<1>2. Regular(Pipe(<<>>, <<>>, <<>>, Issued'), faults', 0)
    BY <1>1, RegularEmpty
<1>3. Remembered' = <<>>
    BY DEF Remembered
<1>4. AtRest' /\ Known'
    BY DEF AtRest, Known
<1>5. <<>> \in Seq(OfTheSource)
    BY EmptySeq
<1> QED
    BY <1>2, <1>3, <1>4, <1>5, LineInvNext

\* Nothing moves between the source and what the bridge remembers.
LEMMA QuietLine ==
    ASSUME IInv, IInv', LineInv, bridge.phase # "exited" => bridge'.phase # "exited",
           bridge.phase = "exited" => bridge' = bridge,
           bridge'.phase # "commands" => bridge'.input = <<>>,
           bridge'.input = bridge.input, toBridge' = toBridge, source' = source,
           faults <= faults', refused' = refused,
           bridge'.initialized = bridge.initialized, bridge'.session = bridge.session,
           bridge'.sequence = bridge.sequence, bridge.initialized => Latest' = Latest,
           bridge'.writing = "command" /\ last' # NoCommand => Succeeds(bridge'.frame, last')
    PROVE  LineInv'
<1>1. /\ faults \in Nat /\ faults' \in Nat
      /\ bridge.input \in Seq(Command) /\ toBridge \in Seq(Command) /\ Issued \in Command
      /\ Remembered \in Seq(Command) /\ refused.count \in Nat
      /\ bridge.sequence \in 0..(Modulus - 1)
    <2>1. TypeOK /\ TypeOK'
        BY DEF IInv
    <2>2. faults' \in Nat
        BY <2>1 DEF TypeOK
    <2> QED
        BY <2>1, <2>2, BridgeFields
<1>2. Issued' = Issued
    BY DEF Issued
<1>3. Remembered' = Remembered
    BY DEF Remembered
<1>4. AtRest' /\ Known'
    BY DEF LineInv, AtRest, Known
<1>5. ASSUME NEW h \in Seq(Command), NEW n \in Int, Regular(Line(h), faults, n)
      PROVE  Regular(Pipe(h, bridge'.input, toBridge', Issued'), faults', n)
    <2> DEFINE q == Pipe(h, bridge.input, toBridge, Issued)
    <2>1. /\ q \in Seq(Command) /\ Len(q) >= 1
        <3>1. ASSUME NEW a \in Seq(Command), NEW b \in Seq(Command), NEW s \in Command
              PROVE  Pipe(h, a, b, s) \in Seq(Command) /\ Len(Pipe(h, a, b, s)) >= 1
            BY PipeLong
        <3> QED
            BY <1>1, <3>1
    <2>2. Regular(q, faults, n)
        BY <1>5 DEF Line
    <2> HIDE DEF q
    <2>3. Regular(q, faults', n)
        BY <1>1, <2>1, <2>2, RegularWider
    <2> QED
        BY <1>2, <2>3 DEF q
<1>6. Regular(Pipe(Remembered', bridge'.input, toBridge', Issued'), faults', 0)
    <2>1. Regular(Line(Remembered), faults, 0)
        BY DEF LineInv
    <2> QED
        BY <1>1, <1>3, <1>5, <2>1
<1>7. ASSUME FewFaults, refused'.count > 0
      PROVE  /\ bridge'.initialized
             /\ \E x \in Command :
                   /\ ~x.armed /\ x.boot = refused'.boot /\ Behind(x.seq, bridge'.sequence)
                   /\ Regular(Pipe(<<x>>, bridge'.input, toBridge', Issued'), faults',
                              refused'.count - Refusals(x.seq, bridge'.sequence))
    <2>1. bridge.initialized /\ \E x \in Command : Refusing(x)
        BY <1>7 DEF LineInv
    <2>2. PICK x : x \in Command /\ Refusing(x)
        BY <2>1
    <2>3. /\ ~x.armed /\ x.boot = refused.boot /\ Behind(x.seq, bridge.sequence)
          /\ Regular(Line(<<x>>), faults, refused.count - Refusals(x.seq, bridge.sequence))
        BY <2>2 DEF Refusing
    <2>4. refused.count - Refusals(x.seq, bridge.sequence) \in Int
        <3>1. Refusals(x.seq, bridge.sequence) \in Int
            BY <1>1, <2>2, RefusalsTyped
        <3> QED
            BY <1>1, <3>1
    <2>5. <<x>> \in Seq(Command)
        BY <2>2
    <2>6. Regular(Pipe(<<x>>, bridge'.input, toBridge', Issued'), faults',
                  refused.count - Refusals(x.seq, bridge.sequence))
        BY <1>5, <2>3, <2>4, <2>5
    <2> QED
        BY <2>1, <2>2, <2>3, <2>6
<1>8. bridge'.input \in Seq(OfTheSource) /\ toBridge' \in Seq(OfTheSource)
    BY DEF LineInv
<1> QED
    BY <1>4, <1>6, <1>7, <1>8, LineInvNext

LEMMA ArrivingKeepsLine ==
    ASSUME IInv, IInv', LineInv, bridge.phase # "exited",
           SourceSend \/ SourceReboot \/ BridgePoll \/ LineFault
    PROVE  LineInv'
<1>1. /\ Remembered \in Seq(Command) /\ refused.count \in Nat
      /\ bridge.sequence \in 0..(Modulus - 1)
    BY BridgeFields DEF IInv
<1>2. /\ bridge'.initialized = bridge.initialized /\ bridge'.session = bridge.session
      /\ bridge'.sequence = bridge.sequence /\ bridge'.writing = bridge.writing
      /\ bridge'.frame = bridge.frame /\ bridge'.phase # "exited"
      /\ bridge'.phase # "commands" => bridge'.input = <<>>
      /\ last' = last /\ refused' = refused
    <2>1. bridge \in Bridge
        BY BridgeFields DEF IInv
    <2>2. bridge' = bridge \/ \E m : bridge' = [bridge EXCEPT !.phase = "commands",
                                                   !.sinkReady = toHost > 0,
                                                   !.input = ToFirst(m, toBridge)]
        BY DEF SourceSend, SourceReboot, BridgePoll, Poll, LineFault
    <2>3. last' = last /\ refused' = refused
        BY DEF SourceSend, SourceReboot, BridgePoll, Poll, LineFault, historyVars
    <2>4. CASE bridge' = bridge
        BY <2>3, <2>4 DEF LineInv, AtRest
    <2>5. CASE bridge' # bridge
        <3>1. PICK m : bridge' = [bridge EXCEPT !.phase = "commands", !.sinkReady = toHost > 0,
                                                !.input = ToFirst(m, toBridge)]
            BY <2>2, <2>5
        <3> QED
            BY <2>1, <2>3, <3>1 DEF Bridge
    <2> QED
        BY <2>4, <2>5
<1>3. Remembered' = Remembered
    BY <1>2 DEF Remembered, Latest
<1>4. AtRest' /\ Known'
    BY <1>2 DEF LineInv, AtRest, Known, Latest
<1>5. ASSUME NEW h \in Seq(Command), NEW n \in Int, Regular(Line(h), faults, n)
      PROVE  /\ Regular(Pipe(h, bridge'.input, toBridge', Issued'), faults', n)
             /\ bridge'.input \in Seq(OfTheSource) /\ toBridge' \in Seq(OfTheSource)
    BY <1>5, LineKept
<1>6. /\ Regular(Pipe(Remembered', bridge'.input, toBridge', Issued'), faults', 0)
      /\ bridge'.input \in Seq(OfTheSource) /\ toBridge' \in Seq(OfTheSource)
    <2>1. Regular(Line(Remembered), faults, 0)
        BY DEF LineInv
    <2> QED
        BY <1>1, <1>3, <1>5, <2>1
<1>7. ASSUME FewFaults, refused'.count > 0
      PROVE  /\ bridge'.initialized
             /\ \E x \in Command :
                   /\ ~x.armed /\ x.boot = refused'.boot /\ Behind(x.seq, bridge'.sequence)
                   /\ Regular(Pipe(<<x>>, bridge'.input, toBridge', Issued'), faults',
                              refused'.count - Refusals(x.seq, bridge'.sequence))
    <2>1. bridge.initialized /\ \E x \in Command : Refusing(x)
        BY <1>2, <1>7 DEF LineInv
    <2>2. PICK x : x \in Command /\ Refusing(x)
        BY <2>1
    <2>3. /\ ~x.armed /\ x.boot = refused.boot /\ Behind(x.seq, bridge.sequence)
          /\ Regular(Line(<<x>>), faults, refused.count - Refusals(x.seq, bridge.sequence))
        BY <2>2 DEF Refusing
    <2>4. refused.count - Refusals(x.seq, bridge.sequence) \in Int
        <3>1. Refusals(x.seq, bridge.sequence) \in Int
            BY <1>1, <2>2, RefusalsTyped
        <3> QED
            BY <1>1, <3>1
    <2>5. <<x>> \in Seq(Command)
        BY <2>2
    <2>6. Regular(Pipe(<<x>>, bridge'.input, toBridge', Issued'), faults',
                  refused.count - Refusals(x.seq, bridge.sequence))
        BY <1>5, <2>3, <2>4, <2>5
    <2> QED
        BY <1>2, <2>1, <2>2, <2>3, <2>6
<1>8. bridge'.writing = "command" /\ last' # NoCommand => Succeeds(bridge'.frame, last')
    BY <1>2 DEF LineInv
<1> QED
    BY <1>4, <1>6, <1>7, <1>8, LineInvNext

\* While the bridge is gone, and when it goes or comes.
LEMMA IdleKeepsLine ==
    ASSUME IInv, IInv', LineInv,
           \/ bridge.phase = "exited" /\ (SourceSend \/ SourceReboot \/ LineFault \/ BridgeStart)
           \/ BridgeStop \/ BridgeFail
    PROVE  LineInv'
<1>1. CASE BridgeStop \/ BridgeFail
    <2>1. Exit
        BY <1>1 DEF BridgeStop, BridgeFail
    <2>2. /\ bridge'.input = <<>> /\ toBridge' = <<>> /\ ~bridge'.initialized
          /\ refused'.count = 0 /\ bridge'.writing # "command"
        BY <2>1 DEF Exit, StartedBridge
    <2> QED
        BY <2>2, FreshLine
<1>2. CASE bridge.phase = "exited" /\ (SourceSend \/ SourceReboot \/ LineFault \/ BridgeStart)
    <2>1. /\ bridge.input = <<>> /\ toBridge = <<>> /\ ~bridge.initialized
          /\ refused.count = 0 /\ bridge.writing = "nothing"
        BY <1>2 DEF LineInv, AtRest, IInv, BridgeInv
    <2>2. refused' = refused
        BY <1>2 DEF SourceSend, SourceReboot, LineFault, BridgeStart, historyVars
    <2>3. bridge' = bridge \/ bridge' = StartedBridge
        BY <1>2 DEF SourceSend, SourceReboot, LineFault, BridgeStart
    <2>4. bridge'.input = <<>> /\ ~bridge'.initialized /\ bridge'.writing # "command"
        BY <2>1, <2>3 DEF StartedBridge
    <2>5. toBridge' = toBridge
        <3>1. Len(toBridge) = 0
            BY <2>1, EmptySeq
        <3>2. CASE LineFault
            <4>1. ~\E i \in 1..Len(toBridge) : TRUE
                BY <3>1
            <4> QED
                BY <1>2, <3>2, <4>1 DEF LineFault
        <3> QED
            BY <1>2, <3>2 DEF SourceSend, SourceReboot, BridgeStart
    <2> QED
        BY <2>1, <2>2, <2>4, <2>5, FreshLine
<1> QED
    BY <1>1, <1>2

\* What the bridge, the sink and the lines do besides.
LEMMA WritingKeepsLine ==
    ASSUME IInv, IInv', LineInv, BridgeWrite
    PROVE  LineInv'
<1>1. bridge \in Bridge /\ faults \in Nat
    BY BridgeFields DEF IInv
<1>2. /\ bridge' = [bridge EXCEPT !.writing = "nothing", !.frame = NoCommand]
      /\ UNCHANGED <<source, toBridge, faults, refused>>
      /\ IF bridge.writing = "command" THEN last' = bridge.frame ELSE last' = last
      /\ bridge.phase # "exited"
    BY DEF BridgeWrite
<1>3. /\ bridge'.phase = bridge.phase /\ bridge'.input = bridge.input
      /\ bridge'.writing = "nothing"
      /\ bridge'.initialized = bridge.initialized /\ bridge'.session = bridge.session
      /\ bridge'.sequence = bridge.sequence
    BY <1>1, <1>2 DEF Bridge
<1>4. Latest' = Latest
    BY <1>2, <1>3 DEF Latest
<1>5. bridge'.phase # "commands" => bridge'.input = <<>>
    BY <1>3 DEF LineInv, AtRest
<1>6. faults <= faults'
    BY <1>1, <1>2
<1> QED
    BY <1>2, <1>3, <1>4, <1>5, <1>6, QuietLine

LEMMA OthersKeepLine ==
    ASSUME IInv, IInv', LineInv,
           \/ BridgeTurn \/ BridgeTelemetry \/ TelemetryFault \/ BridgeSignal
           \/ SinkReceive \/ UNCHANGED vars
    PROVE  LineInv'
<1>1. bridge \in Bridge /\ faults \in Nat
    BY BridgeFields DEF IInv
<1>2. UNCHANGED <<source, toBridge, refused, last>> /\ faults <= faults'
    BY <1>1 DEF BridgeTurn, BridgeTelemetry, TelemetryFault, BridgeSignal, SinkReceive, vars,
       historyVars
<1>3. /\ bridge.phase = "exited" => bridge' = bridge
      /\ bridge.phase # "exited" => bridge'.phase # "exited"
      /\ bridge'.phase # "commands" => bridge'.input = <<>>
      /\ bridge'.input = bridge.input
      /\ bridge'.initialized = bridge.initialized /\ bridge'.session = bridge.session
      /\ bridge'.sequence = bridge.sequence
      /\ bridge'.writing = "command" <=> bridge.writing = "command"
      /\ bridge'.frame = bridge.frame
    <2>1. bridge.phase # "commands" => bridge.input = <<>>
        BY DEF LineInv, AtRest
    <2>2. CASE BridgeTurn
        <3>1. bridge.phase = "commands" /\ bridge.input = <<>>
            BY <2>2 DEF BridgeTurn
        <3>2. \/ \E n : bridge' = [bridge EXCEPT !.phase = "telemetry", !.telemetry = n]
              \/ bridge' = [bridge EXCEPT !.phase = "poll"]
            BY <2>2 DEF BridgeTurn, Turn
        <3> QED
            BY <1>1, <3>1, <3>2 DEF Bridge
    <2>3. CASE BridgeTelemetry \/ TelemetryFault
        <3>1. bridge.phase = "telemetry" /\ bridge.writing = "nothing"
            BY <2>3 DEF BridgeTelemetry, TelemetryFault
        <3>2. \/ bridge' = [bridge EXCEPT !.telemetry = @ - 1, !.writing = "telemetry"]
              \/ bridge' = [bridge EXCEPT !.telemetry = @ - 1]
              \/ bridge' = [bridge EXCEPT !.phase = "poll"]
            BY <2>3 DEF BridgeTelemetry, TelemetryFault
        <3> QED
            BY <1>1, <2>1, <3>1, <3>2 DEF Bridge
    <2>4. CASE BridgeSignal
        <3>1. bridge' = [bridge EXCEPT !.running = FALSE] /\ bridge.phase # "exited"
            BY <2>4 DEF BridgeSignal
        <3> QED
            BY <1>1, <2>1, <3>1 DEF Bridge
    <2>5. CASE SinkReceive \/ UNCHANGED vars
        BY <2>1, <2>5 DEF SinkReceive, vars
    <2> QED
        BY <2>2, <2>3, <2>4, <2>5
<1>4. Latest' = Latest
    BY <1>2, <1>3 DEF Latest
<1>5. bridge'.writing = "command" /\ last' # NoCommand => Succeeds(bridge'.frame, last')
    BY <1>2, <1>3 DEF LineInv
<1> QED
    BY <1>2, <1>3, <1>4, <1>5, QuietLine

-----------------------------------------------------------------------------
(* What the bridge does with the next command *)

USE BridgeAssumption

\* The first unarmed command of the chunk takes the place of the one before it.
LEMMA HeadFollows ==
    ASSUME NEW x \in Command, NEW a \in Seq(Command), NEW b \in Seq(Command),
           NEW s \in Command, a # <<>>, ~x.armed, ~Head(a).armed,
           NEW f \in Nat, NEW n \in Int, Regular(Pipe(<<x>>, a, b, s), f, n)
    PROVE  \E e \in Nat :
              /\ Regular(Pipe(<<Head(a)>>, Tail(a), b, s), f, n + e)
              /\ x.boot <= Head(a).boot
              /\ x.boot = Head(a).boot => Follows(x, Head(a), f, e)
<1> DEFINE q == Pipe(<<x>>, a, b, s)
           r == Pipe(<<>>, a, b, s)
<1>1. /\ <<x>> \in Seq(Command)
      /\ Shrinks(q, r, 1) /\ Len(q) > 1 /\ q[1] = x
    <2>1. /\ <<x>> \in Seq(Command)
          /\ Shrinks(Pipe(<<x>>, a, b, s), Pipe(<<>>, a, b, s), 1)
          /\ Len(Pipe(<<x>>, a, b, s)) > 1
          /\ Pipe(<<x>>, a, b, s)[1] = x
        BY PipeForgets, SMTT(60)
    <2>2. q = Pipe(<<x>>, a, b, s) /\ r = Pipe(<<>>, a, b, s)
        OBVIOUS
    <2> HIDE DEF q, r
    <2> QED
        BY <2>1, <2>2
<1>2. <<>> \in Seq(Command)
    BY EmptySeq
<1>3. q \in Seq(Command) /\ r \in Seq(Command)
    BY <1>1, <1>2, PipeLong
<1>4. q[2] = Head(a)
    <2>1. ASSUME NEW h \in Seq(Command), Len(h) = 1
          PROVE  Pipe(h, a, b, s)[2] = Head(a)
        <3>1. Pipe(h, a, b, s)[Len(h) + 1] = Head(a)
            BY PipeDrops
        <3>2. Len(h) + 1 = 2
            BY <2>1
        <3> QED
            BY <3>1, <3>2
    <2>2. Len(<<x>>) = 1
        OBVIOUS
    <2> QED
        BY <1>1, <2>1, <2>2
<1>5. r = Pipe(<<Head(a)>>, Tail(a), b, s)
    BY PipeNext
<1>6. Regular(q, f, n)
    OBVIOUS
<1> HIDE DEF q, r
<1>7. \E e \in Nat :
         /\ Regular(r, f, n + e)
         /\ q[1].boot <= q[2].boot
         /\ ~q[1].armed /\ ~q[2].armed /\ q[1].boot = q[2].boot => Follows(q[1], q[2], f, e)
    BY <1>1, <1>3, <1>6, RegularTail
<1> QED
    BY <1>1, <1>4, <1>5, <1>7

\* A number that is not new is the one the bridge remembers, not an older one.
LEMMA StaleIsRepeat ==
    ASSUME FewFaults, NEW x \in Command, NEW c \in Command, NEW f \in 0..MaxFaults,
           NEW e \in Nat, Follows(x, c, f, e), Behind(c.seq, x.seq)
    PROVE  c.seq = x.seq
<1> DEFINE g == Gap(x, c)
           half == Modulus \div 2
<1>1. /\ g = IF c.seq >= x.seq THEN c.seq - x.seq ELSE c.seq - x.seq + Modulus
      /\ g \in 0..(Modulus - 1)
    BY GapIs
<1>2. g = 0 \/ g >= half
    BY DEF Behind, Gap
<1>3. g <= 1 + f /\ MaxFaults + 1 < half
    BY DEF Follows, FewFaults
<1>4. Modulus \in Nat /\ half \in Nat /\ MaxFaults \in Nat
    BY ModulusPositive
<1>5. x.seq \in 0..(Modulus - 1) /\ c.seq \in 0..(Modulus - 1)
    BY CommandFields
<1> HIDE DEF g, half
<1>6. g = 0
    BY <1>1, <1>2, <1>3, <1>4
<1> QED
    BY <1>1, <1>4, <1>5, <1>6

LEMMA NewSucceeds ==
    ASSUME NEW x \in Command, NEW c \in Command, NEW f \in 0..MaxFaults,
           NEW e \in Nat, x.boot <= c.boot, x.boot = c.boot => Follows(x, c, f, e),
           ~Behind(c.seq, x.seq)
    PROVE  Succeeds(c, x)
<1> DEFINE g == Gap(x, c)
           half == Modulus \div 2
<1>1. g \in 0..(Modulus - 1)
    BY GapIs
<1>2. ~(g = 0 \/ g >= half)
    BY DEF Behind, Gap
<1>3. x.boot = c.boot /\ MaxFaults + 1 < half => g <= 1 + f
    BY DEF Follows, FewFaults
<1>4. Modulus \in Nat /\ half \in Nat /\ MaxFaults \in Nat
    BY ModulusPositive
<1>5. x.boot \in Nat /\ c.boot \in Nat
    BY CommandFields
<1> HIDE DEF g, half
<1>6. x.boot = c.boot => g \in 1..(1 + MaxFaults)
    BY <1>1, <1>2, <1>3, <1>4
<1> QED
    BY <1>5, <1>6 DEF Succeeds, g

\* Each refusal uses up a number, or is a repeat.
LEMMA RefusalsCount ==
    ASSUME FewFaults, NEW x \in Command, NEW c \in Command, NEW latest \in 0..(Modulus - 1),
           NEW f \in 0..MaxFaults, NEW e \in Nat, Follows(x, c, f, e),
           Behind(x.seq, latest), Behind(c.seq, latest)
    PROVE  Refusals(x.seq, latest) + 1 <= Refusals(c.seq, latest) + e
<1> DEFINE dx == (x.seq - latest) % Modulus
           dc == (c.seq - latest) % Modulus
           g == Gap(x, c)
           half == Modulus \div 2
<1>1. /\ Modulus \in Nat /\ Modulus >= 2 /\ MaxFaults \in Nat
      /\ half \in Nat /\ Modulus = 2 * half
    <2>1. Modulus \in Nat /\ Modulus % 2 = 0
        OBVIOUS
    <2>2. Modulus = 2 * half
        BY <2>1
    <2> QED
        BY <2>2, ModulusPositive
<1>2. x.seq \in 0..(Modulus - 1) /\ c.seq \in 0..(Modulus - 1)
    BY CommandFields
<1>3. /\ g = IF c.seq >= x.seq THEN c.seq - x.seq ELSE c.seq - x.seq + Modulus
      /\ g \in 0..(Modulus - 1)
    BY GapIs
<1>4. ASSUME NEW y \in 0..(Modulus - 1)
      PROVE  /\ (y - latest) % Modulus =
                   IF y >= latest THEN y - latest ELSE y - latest + Modulus
             /\ (y - latest) % Modulus \in 0..(Modulus - 1)
    <2> DEFINE u == [session |-> HilSession, seq |-> latest, armed |-> FALSE, boot |-> 0]
               v == [session |-> HilSession, seq |-> y, armed |-> FALSE, boot |-> 0]
    <2>1. u \in Command /\ v \in Command
        BY DEF Command
    <2>2. u.seq = latest /\ v.seq = y
        OBVIOUS
    <2> HIDE DEF u, v
    <2>3. /\ Gap(u, v) = IF v.seq >= u.seq THEN v.seq - u.seq ELSE v.seq - u.seq + Modulus
          /\ Gap(u, v) \in 0..(Modulus - 1)
        BY <2>1, GapIs
    <2> QED
        BY <2>2, <2>3 DEF Gap
<1>5. /\ dx = IF x.seq >= latest THEN x.seq - latest ELSE x.seq - latest + Modulus
      /\ dc = IF c.seq >= latest THEN c.seq - latest ELSE c.seq - latest + Modulus
    BY <1>2, <1>4
<1>6. (dx = 0 \/ dx >= half) /\ (dc = 0 \/ dc >= half)
    BY DEF Behind
<1>7. 1 - e <= g /\ g <= 1 + f /\ MaxFaults + 1 < half
    BY DEF Follows, FewFaults
<1>8. /\ Refusals(x.seq, latest) = IF dx = 0 THEN half + 1 ELSE dx - half + 1
      /\ Refusals(c.seq, latest) = IF dc = 0 THEN half + 1 ELSE dc - half + 1
    BY DEF Refusals
<1>9. dx \in 0..(Modulus - 1) /\ dc \in 0..(Modulus - 1)
    BY <1>2, <1>4
<1> HIDE DEF dx, dc, g, half
<1>10. g < half
    <2>1. f \in Nat /\ f <= MaxFaults
        BY <1>1
    <2> HIDE BridgeAssumption
    <2> QED
        BY <1>1, <1>3, <1>7, <2>1
<1>11. dc = dx + g \/ dc = dx + g - Modulus
    BY <1>1, <1>2, <1>3, <1>5
<1>12. CASE dc = dx + g
    BY <1>1, <1>3, <1>6, <1>7, <1>8, <1>9, <1>10, <1>12
<1>13. CASE dc = dx + g - Modulus
    <2>1. dc = 0
        BY <1>1, <1>3, <1>6, <1>9, <1>10, <1>13
    <2>2. dx # 0 /\ g = Modulus - dx
        BY <1>1, <1>3, <1>9, <1>13, <2>1
    <2> QED
        BY <1>1, <1>7, <1>8, <1>9, <2>1, <2>2
<1> QED
    BY <1>11, <1>12, <1>13

LEMMA CommandKeepsLine ==
    ASSUME IInv, IInv', LineInv, BridgeCommand
    PROVE  LineInv'
<1> DEFINE c == Head(bridge.input)
           rest == Tail(bridge.input)
<1>1. /\ bridge \in Bridge /\ bridge.input \in Seq(Command) /\ toBridge \in Seq(Command)
      /\ bridge.input # <<>> /\ bridge.phase = "commands" /\ bridge.writing = "nothing"
      /\ last \in Command /\ Latest = last /\ Issued \in Command
      /\ faults \in Nat /\ faults \in 0..MaxFaults /\ refused.count \in Nat
      /\ bridge.sequence \in 0..(Modulus - 1)
      /\ Remembered \in Seq(Command)
    BY BridgeFields DEF IInv, BridgeCommand, Latest
<1>2. /\ c \in Command /\ c \in OfTheSource
      /\ rest \in Seq(OfTheSource) /\ toBridge \in Seq(OfTheSource)
    BY <1>1, HeadTailProperties DEF LineInv, OfTheSource
<1>3. /\ bridge' = [Consider(bridge, c) EXCEPT !.input = Tail(@)]
      /\ UNCHANGED <<source, toBridge, toSink, toHost, faults, last>>
      /\ refused' = IF ~Stale(bridge, c) THEN [boot |-> c.boot, count |-> 0]
                    ELSE [boot |-> c.boot,
                          count |-> IF c.boot = refused.boot THEN refused.count + 1 ELSE 1]
    BY DEF BridgeCommand
<1>4. Issued' = Issued
    BY <1>3 DEF Issued
<1>5. bridge.initialized =>
         ~last.armed /\ bridge.session = HilSession /\ bridge.sequence = last.seq
    BY <1>1 DEF LineInv, Known
<1>6. Regular(Pipe(Remembered, bridge.input, toBridge, Issued), faults, 0)
    BY DEF LineInv, Line
<1>7. Remembered = IF bridge.initialized THEN <<last>> ELSE <<>>
    BY <1>1 DEF Remembered
<1>8. toBridge' \in Seq(OfTheSource)
    BY <1>2, <1>3
<1>9. c = Head(bridge.input) /\ rest \in Seq(Command) /\ rest = Tail(bridge.input)
    BY <1>2, OursTyped
<1> HIDE DEF c, rest
<1>10. ASSUME NEW x \in Command, ~x.armed, ~c.armed, NEW n \in Int,
              Regular(Pipe(<<x>>, bridge.input, toBridge, Issued), faults, n)
       PROVE  \E e \in Nat :
                 /\ Regular(Pipe(<<c>>, rest, toBridge, Issued), faults, n + e)
                 /\ x.boot <= c.boot
                 /\ x.boot = c.boot => Follows(x, c, faults, e)
    BY <1>1, <1>9, <1>10, HeadFollows
<1>11. ASSUME bridge.initialized, ~c.armed
       PROVE  \E e \in Nat :
                 /\ Regular(Pipe(<<c>>, rest, toBridge, Issued), faults, e)
                 /\ last.boot <= c.boot
                 /\ last.boot = c.boot => Follows(last, c, faults, e)
    <2>1. Regular(Pipe(<<last>>, bridge.input, toBridge, Issued), faults, 0)
        BY <1>6, <1>7, <1>11
    <2>2. \A e \in Nat : 0 + e = e
        OBVIOUS
    <2> QED
        BY <1>1, <1>5, <1>10, <1>11, <2>1, <2>2
<1>12. ASSUME ~c.armed
       PROVE  IsNew(bridge, c) <=> ~bridge.initialized \/ ~Behind(c.seq, last.seq)
    BY <1>2, <1>5, <1>12 DEF IsNew, OfTheSource
<1>13. CASE c.armed \/ Stale(bridge, c)
    <2>1. Consider(bridge, c) = bridge
        BY <1>13 DEF Consider
    <2>2. bridge' = [bridge EXCEPT !.input = Tail(bridge.input)]
        BY <1>1, <1>3, <2>1
    <2>3. /\ bridge'.phase = "commands" /\ bridge'.writing = "nothing"
          /\ bridge'.input = rest /\ bridge'.initialized = bridge.initialized
          /\ bridge'.session = bridge.session /\ bridge'.sequence = bridge.sequence
        BY <1>1, <1>9, <2>2 DEF Bridge
    <2>4. Latest' = last /\ Remembered' = Remembered
        BY <1>1, <1>3, <1>7, <2>3 DEF Latest, Remembered
    <2>5. AtRest' /\ Known'
        BY <1>5, <2>3, <2>4, <1>1 DEF AtRest, Known, LineInv
    <2>6. bridge'.input \in Seq(OfTheSource)
        BY <1>2, <2>3
    <2>7. Stale(bridge, c) => ~c.armed /\ bridge.initialized /\ Behind(c.seq, last.seq)
        BY <1>12 DEF Stale
    <2>8. Regular(Pipe(Remembered, rest, toBridge, Issued), faults, 0)
        <3> DEFINE q == Pipe(Remembered, bridge.input, toBridge, Issued)
                   r == Pipe(Remembered, rest, toBridge, Issued)
                   k == Len(Remembered) + 1
        <3>1. q \in Seq(Command) /\ r \in Seq(Command)
            BY <1>1, <1>9, PipeLong
        <3>2. Shrinks(q, r, k) /\ k < Len(q) /\ q[k] = c
            <4>1. ASSUME NEW h \in Seq(Command), NEW a \in Seq(Command), a # <<>>,
                         NEW t \in Seq(Command), t = Tail(a)
                  PROVE  /\ Shrinks(Pipe(h, a, toBridge, Issued), Pipe(h, t, toBridge, Issued),
                                    Len(h) + 1)
                         /\ Len(h) + 1 < Len(Pipe(h, a, toBridge, Issued))
                         /\ Pipe(h, a, toBridge, Issued)[Len(h) + 1] = Head(a)
                BY <1>1, <4>1, PipeDrops
            <4> QED
                BY <1>1, <1>9, <4>1
        <3>3. Stale(bridge, c) => q = Pipe(<<last>>, bridge.input, toBridge, Issued) /\ k = 2
            <4>1. Len(<<last>>) + 1 = 2
                OBVIOUS
            <4>2. Stale(bridge, c) => Remembered = <<last>>
                BY <1>7, <2>7
            <4> HIDE DEF rest
            <4> QED
                BY <4>1, <4>2
        <3> HIDE DEF q, r, k
        <3>4. ASSUME c.armed PROVE Superfluous(q, k)
            BY <3>2, <3>4 DEF Superfluous
        <3>5. ASSUME Stale(bridge, c) PROVE Superfluous(q, k)
            <4>2. q[1] = last
                <5>1. Pipe(<<last>>, bridge.input, toBridge, Issued)[1] = last
                    <6>1. ASSUME NEW x \in Command, NEW a \in Seq(Command),
                                 NEW b \in Seq(Command), NEW s \in Command
                          PROVE  Pipe(<<x>>, a, b, s)[1] = x
                        BY PipeForgets
                    <6>2. /\ last \in Command /\ bridge.input \in Seq(Command)
                          /\ toBridge \in Seq(Command) /\ Issued \in Command
                        BY <1>1
                    <6> QED
                        BY <6>1, <6>2, Zenon
                <5> QED
                    BY <3>3, <3>5, <5>1, Zenon
            <4>3. PICK e \in Nat : last.boot = c.boot => Follows(last, c, faults, e)
                BY <1>11, <2>7, <3>5
            <4>4. FewFaults /\ last.boot = c.boot => last.seq = c.seq
                BY <1>1, <1>2, <2>7, <3>5, <4>3, StaleIsRepeat
            <4> QED
                BY <3>2, <3>3, <3>5, <4>2, <4>4 DEF Superfluous
        <3>9. Superfluous(q, k)
            BY <1>13, <3>4, <3>5
        <3>6. Regular(q, faults, 0)
            BY <1>6 DEF q
        <3>7. faults + 0 = faults /\ faults <= MaxFaults /\ 0 \in 0..1 /\ 0 \in Int
            BY <1>1
        <3>8. Regular(r, faults + 0, 0)
            BY <1>1, <3>1, <3>2, <3>6, <3>7, <3>9, RegularWithout
        <3> QED
            BY <3>7, <3>8 DEF r
    <2>9. /\ Regular(Pipe(Remembered', bridge'.input, toBridge', Issued'), faults', 0)
          /\ bridge'.writing # "command"
        BY <1>3, <1>4, <2>3, <2>4, <2>8
    <2>10. CASE c.armed
        <3>1. refused'.count = 0
            BY <1>3, <2>10 DEF Stale
        <3> QED
            BY <1>8, <2>5, <2>6, <2>9, <3>1, LineInvNext
    <2>11. CASE Stale(bridge, c)
        <3>1. ASSUME FewFaults
              PROVE  Regular(Pipe(<<c>>, rest, toBridge, Issued), faults,
                             refused'.count - Refusals(c.seq, bridge.sequence))
            <4>1. Behind(c.seq, bridge.sequence)
                BY <1>5, <2>7, <2>11
            <4>2. /\ Refusals(c.seq, bridge.sequence) \in Int
                  /\ Refusals(c.seq, bridge.sequence) >= 1
                  /\ refused'.count \in Int
                <5>1. /\ Refusals(c.seq, bridge.sequence) \in Int
                      /\ Refusals(c.seq, bridge.sequence) \in 1..(Modulus \div 2 + 1)
                    BY <1>1, <1>2, <4>1, RefusalsTyped
                <5>2. refused' \in [boot : 0..MaxReboots, count : Nat]
                    BY DEF IInv, TypeOK
                <5> QED
                    BY <5>1, <5>2
            <4>3. ASSUME NEW m \in Int, refused'.count - Refusals(c.seq, bridge.sequence) <= m,
                         Regular(Pipe(<<c>>, rest, toBridge, Issued), faults, m)
                  PROVE  Regular(Pipe(<<c>>, rest, toBridge, Issued), faults,
                                 refused'.count - Refusals(c.seq, bridge.sequence))
                <5> DEFINE p == Pipe(<<c>>, rest, toBridge, Issued)
                           w == refused'.count - Refusals(c.seq, bridge.sequence)
                <5>1. <<c>> \in Seq(Command)
                    BY <1>2
                <5>2. p \in Seq(Command) /\ Len(p) >= 1
                    BY <1>1, <1>9, <5>1, PipeLong
                <5>3. w \in Int /\ w <= m /\ Regular(p, faults, m)
                    BY <4>2, <4>3
                <5> HIDE DEF p, w
                <5>4. Regular(p, faults, w)
                    BY <1>1, <5>2, <5>3, RegularWider
                <5> QED
                    BY <5>4 DEF p, w
            <4>4. CASE c.boot = refused.boot /\ refused.count > 0
                <5>1. PICK x : x \in Command /\ Refusing(x)
                    BY <3>1, <4>4 DEF LineInv
                <5>2. /\ ~x.armed /\ x.boot = c.boot /\ Behind(x.seq, bridge.sequence)
                      /\ Regular(Pipe(<<x>>, bridge.input, toBridge, Issued), faults,
                                 refused.count - Refusals(x.seq, bridge.sequence))
                    BY <4>4, <5>1 DEF Refusing, Line
                <5>3. Refusals(x.seq, bridge.sequence) \in Int
                    BY <1>1, <5>1, RefusalsTyped
                <5> DEFINE n == refused.count - Refusals(x.seq, bridge.sequence)
                <5>4. n \in Int
                    BY <1>1, <5>3
                <5>5. PICK e : /\ e \in Nat
                               /\ Regular(Pipe(<<c>>, rest, toBridge, Issued), faults, n + e)
                               /\ Follows(x, c, faults, e)
                    BY <1>10, <2>7, <2>11, <5>1, <5>2, <5>4
                <5>6. Refusals(x.seq, bridge.sequence) + 1
                         <= Refusals(c.seq, bridge.sequence) + e
                    BY <1>1, <1>2, <3>1, <4>1, <5>1, <5>2, <5>5, RefusalsCount
                <5>7. refused'.count = refused.count + 1
                    BY <1>3, <2>11, <4>4
                <5>8. n + e \in Int /\ refused'.count - Refusals(c.seq, bridge.sequence) <= n + e
                    <6>1. \A k, u, v, w \in Int : u + 1 <= v + w =>
                             (k - u) + w \in Int /\ (k + 1) - v <= (k - u) + w
                        OBVIOUS
                    <6>2. refused.count \in Int /\ e \in Int
                        BY <1>1, <5>5
                    <6> QED
                        BY <4>2, <5>3, <5>6, <5>7, <6>1, <6>2
                <5> QED
                    BY <4>3, <5>5, <5>8
            <4>5. CASE ~(c.boot = refused.boot /\ refused.count > 0)
                <5>1. refused'.count = 1
                    BY <1>1, <1>3, <2>11, <4>5
                <5>2. PICK e : e \in Nat /\ Regular(Pipe(<<c>>, rest, toBridge, Issued), faults, e)
                    BY <1>11, <2>7, <2>11
                <5>3. e \in Int /\ refused'.count - Refusals(c.seq, bridge.sequence) <= e
                    BY <4>2, <5>1, <5>2
                <5> QED
                    BY <4>3, <5>2, <5>3
            <4> QED
                BY <4>4, <4>5
        <3>2. /\ bridge'.initialized
              /\ ~c.armed /\ c.boot = refused'.boot /\ Behind(c.seq, bridge'.sequence)
            BY <1>3, <1>5, <2>3, <2>7, <2>11
        <3>3. FewFaults =>
                 Regular(Pipe(<<c>>, bridge'.input, toBridge', Issued'), faults',
                         refused'.count - Refusals(c.seq, bridge'.sequence))
            BY <1>3, <1>4, <2>3, <3>1
        <3> QED
            BY <1>2, <1>8, <2>5, <2>6, <2>9, <3>2, <3>3, LineInvNext
    <2> QED
        BY <1>13, <2>10, <2>11
<1>14. CASE ~c.armed /\ ~Stale(bridge, c)
    <2>1. IsNew(bridge, c)
        BY <1>14 DEF Stale
    <2>2. Consider(bridge, c) = [Ordered(bridge, c) EXCEPT !.writing = "command", !.frame = c]
        BY <1>14 DEF Consider
    <2>3. /\ bridge'.phase = "commands" /\ bridge'.writing = "command"
          /\ bridge'.input = rest /\ bridge'.initialized /\ bridge'.frame = c
          /\ bridge'.session = c.session /\ bridge'.sequence = c.seq
        BY <1>1, <1>3, <1>9, <2>2 DEF Bridge, Ordered
    <2>4. Latest' = c /\ Remembered' = <<c>>
        BY <2>3 DEF Latest, Remembered
    <2>5. AtRest' /\ Known'
        BY <1>2, <1>14, <2>3, <2>4 DEF AtRest, Known, OfTheSource
    <2>6. bridge'.input \in Seq(OfTheSource) /\ refused'.count = 0
        BY <1>2, <1>3, <1>14, <2>3
    <2>7. Regular(Pipe(<<c>>, rest, toBridge, Issued), faults, 0)
        <3> DEFINE p == Pipe(<<c>>, rest, toBridge, Issued)
        <3>1. CASE bridge.initialized
            <4>1. PICK e : e \in Nat /\ Regular(p, faults, e)
                BY <1>11, <1>14, <3>1
            <4>2. <<c>> \in Seq(Command)
                BY <1>2
            <4>3. p \in Seq(Command) /\ Len(p) >= 1
                BY <1>1, <1>9, <4>2, PipeLong
            <4> HIDE DEF p
            <4>4. e \in Int /\ 0 <= e /\ faults <= faults /\ 0 \in Int
                BY <1>1, <4>1
            <4>5. Regular(p, faults, 0)
                BY <1>1, <4>1, <4>3, <4>4, RegularWider
            <4> QED
                BY <4>5 DEF p
        <3>2. CASE ~bridge.initialized
            <4>1. Pipe(<<>>, bridge.input, toBridge, Issued) = p
                BY <1>1, <1>9, PipeNext
            <4> QED
                BY <1>6, <1>7, <3>2, <4>1
        <3> QED
            BY <3>1, <3>2
    <2>8. last # NoCommand => Succeeds(c, last)
        <3> SUFFICES ASSUME last # NoCommand PROVE Succeeds(c, last)
            OBVIOUS
        <3>1. bridge.initialized
            BY <1>1 DEF IInv, BridgeInv, Settled
        <3>2. ~Behind(c.seq, last.seq)
            BY <1>12, <1>14, <2>1, <3>1
        <3>3. PICK e : /\ e \in Nat /\ last.boot <= c.boot
                       /\ last.boot = c.boot => Follows(last, c, faults, e)
            BY <1>11, <1>14, <3>1
        <3> QED
            BY <1>1, <1>2, <3>2, <3>3, NewSucceeds
    <2>9. Regular(Pipe(Remembered', bridge'.input, toBridge', Issued'), faults', 0)
        BY <1>3, <1>4, <2>3, <2>4, <2>7
    <2>10. last' = last
        BY <1>3
    <2> QED
        BY <1>8, <2>3, <2>5, <2>6, <2>8, <2>9, <2>10, LineInvNext
<1> QED
    BY <1>13, <1>14

-----------------------------------------------------------------------------

LEMMA LineInvHolds == Spec => []LineInv
<1>1. IInv /\ IInv' /\ LineInv /\ [Next]_vars => LineInv'
    <2>1. SUFFICES ASSUME IInv, IInv', LineInv, [Next]_vars PROVE LineInv'
        OBVIOUS
    <2>2. CASE SourceSend \/ SourceReboot \/ LineFault
        BY <2>1, <2>2, ArrivingKeepsLine, IdleKeepsLine
    <2>3. CASE BridgePoll
        <3>1. bridge.phase # "exited"
            BY <2>3 DEF BridgePoll, Poll
        <3> QED
            BY <2>1, <2>3, <3>1, ArrivingKeepsLine
    <2>4. CASE BridgeStop \/ BridgeFail
        BY <2>1, <2>4, IdleKeepsLine
    <2>5. CASE BridgeStart
        <3>1. bridge.phase = "exited"
            BY <2>5 DEF BridgeStart
        <3> QED
            BY <2>1, <2>5, <3>1, IdleKeepsLine
    <2>6. CASE BridgeCommand
        BY <2>1, <2>6, CommandKeepsLine
    <2>7. CASE BridgeWrite
        BY <2>1, <2>7, WritingKeepsLine
    <2>8. CASE \/ BridgeTurn \/ BridgeTelemetry \/ TelemetryFault \/ BridgeSignal
               \/ SinkReceive \/ UNCHANGED vars
        BY <2>1, <2>8, OthersKeepLine
    <2> QED
        BY <2>1, <2>2, <2>3, <2>4, <2>5, <2>6, <2>7, <2>8 DEF Next, BridgeStep
<1>2. Spec => []IInv
    BY IInvHolds
<1>3. Init => LineInv
    BY InitLine
<1> QED
    BY <1>1, <1>2, <1>3, PTL DEF Spec

\* The bridge refuses armed and stale commands and no others: what it leaves
\* out of one boot of the source is what the line lost (bridge_commands and
\* sequence_is_new, tools/hil_usb_bridge.c lines 86-145).
THEOREM AlwaysForwardsInOrder == Spec => ForwardsInOrder
<1>1. ASSUME IInv, LineInv
      PROVE  BridgeWrite /\ bridge.writing = "command" =>
                LET c == bridge.frame IN
                /\ ~c.armed
                /\ last # NoCommand =>
                     \/ c.boot > last.boot
                     \/ /\ c.boot = last.boot
                        /\ (c.seq - last.seq) % Modulus \in 1..(1 + MaxFaults)
    BY <1>1 DEF IInv, BridgeInv, Ready, LineInv, Succeeds, Gap
<1>2. Spec => []IInv /\ []LineInv
    BY IInvHolds, LineInvHolds
<1> QED
    BY <1>1, <1>2, PTL DEF ForwardsInOrder

\* A source that restarts is refused for at most half of the number space, one
\* more and the repeats, whatever number it had before, unless the line can lose
\* half of the number space (sequence_is_new, tools/hil_usb_bridge.c lines 86-99).
THEOREM OutageAlwaysBounded == Spec => []OutageBounded
<1>1. ASSUME IInv, LineInv PROVE OutageBounded
    <2> SUFFICES ASSUME FewFaults, refused.count > 0
                 PROVE  refused.count <= Modulus \div 2 + 1 + MaxFaults
        <3>1. refused.count \in Nat /\ 0 <= Modulus \div 2 + 1 + MaxFaults
            BY <1>1, BridgeFields, ModulusPositive DEF IInv
        <3> QED
            BY <3>1 DEF OutageBounded
    <2>1. PICK x : x \in Command /\ Refusing(x)
        BY <1>1 DEF LineInv
    <2>2. /\ bridge.sequence \in 0..(Modulus - 1) /\ refused.count \in Nat
          /\ bridge.input \in Seq(Command) /\ toBridge \in Seq(Command) /\ Issued \in Command
          /\ faults \in 0..MaxFaults
        BY <1>1, BridgeFields DEF IInv
    <2>3. Refusals(x.seq, bridge.sequence) \in 1..(Modulus \div 2 + 1)
        BY <2>1, <2>2, RefusalsTyped DEF Refusing
    <2> DEFINE q == Line(<<x>>)
               n == refused.count - Refusals(x.seq, bridge.sequence)
    <2>4. Len(q) >= 1 /\ q \in Seq(Command)
        <3>1. <<x>> \in Seq(Command)
            BY <2>1
        <3> QED
            BY <2>2, <3>1, PipeLong DEF Line
    <2>5. Regular(q, faults, n)
        BY <2>1 DEF Refusing
    <2> HIDE DEF q
    <2>6. n <= faults
        <3>1. PICK extra \in [1..Len(q) -> 0..faults] : extra[1] >= n
            BY <2>5 DEF Regular
        <3>2. 1 \in 1..Len(q)
            BY <2>4, LenProperties
        <3>3. extra[1] \in 0..faults
            BY <3>1, <3>2
        <3> QED
            BY <2>2, <2>3, <3>1, <3>3
    <2> QED
        BY <2>2, <2>3, <2>6, ModulusPositive
<1>2. Spec => []IInv /\ []LineInv
    BY IInvHolds, LineInvHolds
<1> QED
    BY <1>1, <1>2, PTL

=============================================================================
