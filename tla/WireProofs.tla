------------------------------ MODULE WireProofs ------------------------------
(***************************************************************************)
(* Proofs about what crosses a wire.                                       *)
(*                                                                         *)
(* CevaHal: types, and the order of the time stamps that ceva_read gives   *)
(* to packets, for every clock and every number of writes and failed       *)
(* transfers.                                                              *)
(*                                                                         *)
(* BenchProbes: types, and that what the load-cell probe and the GD3000    *)
(* status probe print is true, for every width of a conversion and of a    *)
(* byte.  Both probes put a number together from its bits with FoldLeft,   *)
(* so what the fold computes is proved first, by induction on the places.  *)
(*                                                                         *)
(* CodecLine: that decoders accept exactly what encoders write, for all    *)
(* values of the fields and every place of the damage.  The CRCs of two    *)
(* frames are compared by the places in which their registers differ: the  *)
(* difference after a bit depends only on the difference before it and on  *)
(* whether the bits differ, so a hit leaves a pattern that the values of   *)
(* the frame have no part in.                                              *)
(***************************************************************************)
EXTENDS CevaHal, BenchProbes, CodecLine, FiniteSetTheorems, SequenceTheorems,
        WellFoundedInduction, TLAPS

-----------------------------------------------------------------------------
(* The SPI HAL: the strengthening *)

\* No time lies in the future.
Past ==
    /\ hal.stamp <= now /\ taken <= now /\ hub.asserted <= now
    /\ handed.asserted <= now /\ handed.stamp <= now
    /\ now >= 1

\* An edge that has been served has been stamped since.
EdgesStamped == ~irq => hal.stamp >= hub.asserted

\* A packet, or an asserted line, has a time of assertion.
Announced ==
    /\ hub.holding \/ int => hub.asserted >= 1
    /\ at = "selected" => hub.holding

\* The interrupt's stamp never falls behind what has been handed out.
StampAdvances == hal.stamp >= handed.asserted /\ hal.stamp >= handed.stamp

\* A stamp that has been loaded is one that the interrupt has left, or the
\* time of a reader who found none.
LoadedEarly ==
    at \in {"entered", "noticed", "cleared"} =>
        /\ taken <= hal.stamp
        /\ taken # 0 => taken >= handed.asserted /\ taken >= handed.stamp

Loaded ==
    at \in {"stamped", "selected"} =>
        /\ hal.stamp # 0 => taken <= hal.stamp
        /\ taken >= handed.asserted /\ taken >= handed.stamp

Began == at = "selected" => taken <= handed.began

Order == Past /\ EdgesStamped /\ Announced /\ StampAdvances /\ LoadedEarly /\ Loaded /\ Began

Inv == TypeOK /\ Order

-----------------------------------------------------------------------------

LEMMA QuietTyped == Quiet \in [holding : BOOLEAN, asserted : Time, called : BOOLEAN]
BY HalAssumption DEF HalAssumption, Quiet, Time

LEMMA InitInv == Init => Inv
<1> SUFFICES ASSUME Init PROVE Inv
    OBVIOUS
<1>1. TypeOK
    <2>1. hub \in [holding : BOOLEAN, asserted : Time, called : BOOLEAN]
        BY QuietTyped DEF Init
    <2>2. 0 \in Time /\ 1 \in Time
        BY HalAssumption DEF HalAssumption, Time
    <2>3. hal \in [ready : BOOLEAN, stamp : Time, opened : BOOLEAN]
        BY <2>2 DEF Init
    <2>4. handed \in [asserted : Time, stamp : Time, began : Time]
        BY <2>2 DEF Init
    <2>5. waited \in 0..WaitLimit /\ writes \in 0..MaxWrites /\ faults \in 0..MaxFaults
        BY HalAssumption DEF HalAssumption, Init
    <2> QED
        BY <2>1, <2>2, <2>3, <2>4, <2>5 DEF Init, TypeOK
<1>2. Order
    BY DEF Init, Quiet, Order, Past, EdgesStamped, Announced, StampAdvances, LoadedEarly,
       Loaded, Began
<1> QED
    BY <1>1, <1>2 DEF Inv

\* What a transfer that came to nothing leaves behind.
LEMMA WastedLeaves ==
    ASSUME TypeOK, Wasted
    PROVE  /\ hub' \in [holding : BOOLEAN, asserted : Time, called : BOOLEAN]
           /\ int' \in BOOLEAN /\ irq' \in BOOLEAN
           /\ \/ hub'.asserted = hub.asserted /\ ~hub'.holding /\ ~int' /\ irq' = irq
              \/ hub'.asserted = now /\ irq'
<1> USE DEF TypeOK
<1>1. CASE hub.holding /\ hub' = [hub EXCEPT !.asserted = now, !.called = FALSE]
           /\ int' = TRUE /\ irq' = TRUE
    BY <1>1
<1>2. CASE hub' = [hub EXCEPT !.holding = FALSE, !.called = FALSE]
           /\ int' = FALSE /\ UNCHANGED irq
    BY <1>2
<1> QED
    BY <1>1, <1>2 DEF Wasted

LEMMA TypeStep == TypeOK /\ [Next]_vars => TypeOK'
<1> SUFFICES ASSUME TypeOK, [Next]_vars PROVE TypeOK'
    OBVIOUS
<1> USE HalAssumption DEF HalAssumption, TypeOK, Time
<1>1. CASE Announce
    BY <1>1 DEF Announce, AssertInt
<1>2. CASE AnswerWake
    BY <1>2 DEF AnswerWake, AssertInt
<1>3. CASE Tick
    BY <1>3 DEF Tick
<1>4. CASE Interrupt
    BY <1>4 DEF Interrupt
<1>5. CASE Open
    BY <1>5 DEF Open
<1>6. CASE Close
    <2>1. hal' \in [ready : BOOLEAN, stamp : Time, opened : BOOLEAN]
        BY <1>6 DEF Close
    <2> QED
        BY <1>6, <2>1, QuietTyped DEF Close
<1>7. CASE Wake
    <2>1. hub' \in [holding : BOOLEAN, asserted : Time, called : BOOLEAN]
        BY <1>7 DEF Wake
    <2>2. waited' \in 0..WaitLimit /\ writes' \in 0..MaxWrites
        BY <1>7 DEF Wake
    <2> QED
        BY <1>7, <2>1, <2>2 DEF Wake
<1>8. CASE Enter
    BY <1>8 DEF Enter
<1>9. CASE Check
    BY <1>9 DEF Check
<1>10. CASE ClearReady
    BY <1>10 DEF ClearReady
<1>11. CASE TakeStamp
    BY <1>11 DEF TakeStamp
<1>12. CASE ReadHeader
    BY <1>12 DEF ReadHeader
<1>13. CASE ReadPayload
    BY <1>13 DEF ReadPayload
<1>14. CASE ReadFails
    <2>1. hub' \in [holding : BOOLEAN, asserted : Time, called : BOOLEAN]
          /\ int' \in BOOLEAN /\ irq' \in BOOLEAN
        BY <1>14, WastedLeaves DEF ReadFails
    <2> QED
        BY <1>14, <2>1 DEF ReadFails
<1>15. CASE Poll
    BY <1>15 DEF Poll, PatienceLeft
<1>16. CASE Write
    BY <1>16, WastedLeaves DEF Write
<1>17. CASE WriteFails
    BY <1>17 DEF WriteFails
<1>18. CASE UNCHANGED vars
    BY <1>18 DEF vars
<1> QED
    BY <1>1, <1>2, <1>3, <1>4, <1>5, <1>6, <1>7, <1>8, <1>9, <1>10, <1>11, <1>12, <1>13,
       <1>14, <1>15, <1>16, <1>17, <1>18 DEF Next, Service, ReadPacket, Halted

\* With the types known, no step breaks the order of the times.
LEMMA OrderStep == TypeOK /\ TypeOK' /\ Order /\ [Next]_vars => Order'
<1> SUFFICES ASSUME TypeOK, TypeOK', Order, [Next]_vars PROVE Order'
    OBVIOUS
<1> USE HalAssumption DEF HalAssumption, TypeOK, Time, Order, Past, EdgesStamped, Announced,
        StampAdvances, LoadedEarly, Loaded, Began
<1>1. CASE Announce
    BY <1>1 DEF Announce, AssertInt, Running
<1>2. CASE AnswerWake
    BY <1>2 DEF AnswerWake, AssertInt, Running
<1>3. CASE Tick
    BY <1>3 DEF Tick
<1>4. CASE Interrupt
    BY <1>4 DEF Interrupt
<1>5. CASE Open
    BY <1>5 DEF Open
<1>6. CASE Close
    BY <1>6 DEF Close, Quiet
<1>7. CASE Wake
    BY <1>7 DEF Wake
<1>8. CASE Enter
    BY <1>8 DEF Enter
<1>9. CASE Check
    BY <1>9 DEF Check
<1>10. CASE ClearReady
    BY <1>10 DEF ClearReady
<1>11. CASE TakeStamp
    BY <1>11 DEF TakeStamp
<1>12. CASE ReadHeader
    BY <1>12 DEF ReadHeader
<1>13. CASE ReadPayload
    BY <1>13 DEF ReadPayload
<1>14. CASE ReadFails
    BY <1>14, WastedLeaves DEF ReadFails
<1>15. CASE Poll
    BY <1>15 DEF Poll
<1>16. CASE Write
    BY <1>16, WastedLeaves DEF Write
<1>17. CASE WriteFails
    BY <1>17 DEF WriteFails
<1>18. CASE UNCHANGED vars
    BY <1>18 DEF vars
<1> QED
    BY <1>1, <1>2, <1>3, <1>4, <1>5, <1>6, <1>7, <1>8, <1>9, <1>10, <1>11, <1>12, <1>13,
       <1>14, <1>15, <1>16, <1>17, <1>18 DEF Next, Service, ReadPacket, Halted

LEMMA InvHolds == Spec => []Inv
<1>1. Inv /\ [Next]_vars => Inv'
    BY TypeStep, OrderStep DEF Inv
<1> QED
    BY InitInv, <1>1, PTL DEF Spec

\* The HAL and the line to the hub stay well-typed.
THEOREM TypeCorrect == Spec => []TypeOK
<1>1. Inv => TypeOK
    BY DEF Inv
<1> QED
    BY InvHolds, <1>1, PTL

\* However interrupts, reads, writes and failures interleave, the stamps that
\* ceva_read hands out keep the order of the packets.
THEOREM StampsAlwaysInOrder == Spec => StampsInOrder
<1>1. ASSUME Inv, ReadPayload
      PROVE  /\ handed'.stamp >= handed.asserted /\ handed'.stamp >= handed.stamp
             /\ handed'.stamp <= handed'.began
    BY <1>1 DEF Inv, TypeOK, Time, Order, Loaded, Began, ReadPayload
<1>2. Inv => [ReadPayload =>
                 /\ handed'.stamp >= handed.asserted /\ handed'.stamp >= handed.stamp
                 /\ handed'.stamp <= handed'.began]_vars
    BY <1>1
<1> QED
    BY InvHolds, <1>2, PTL DEF StampsInOrder

-----------------------------------------------------------------------------
(* Numbers and their binary digits *)

\* The library has it that < is well-founded; so every set of numbers has a least.
LEMMA LeastNumber ==
    ASSUME NEW T, T \subseteq Nat, T # {}
    PROVE  \E n \in T : \A m \in T : n <= m
<1> DEFINE R == OpToRel(<, Nat)
<1>1. IsWellFoundedOn(R, Nat)
    BY NatLessThanWellFounded
<1>2. \A x, y \in Nat : x < y => <<x, y>> \in R
    BY DEF OpToRel
<1> HIDE DEF R
<1>3. \E x \in T : \A y \in T : ~(<<y, x>> \in R)
    BY <1>1, WFMin
<1>4. \A x, y \in Nat : ~(y < x) => x <= y
    OBVIOUS
<1> QED
    BY <1>2, <1>3, <1>4

\* Induction, for a set: what holds at 0 and goes on to each next number holds
\* of all.
LEMMA FromNextToNext ==
    ASSUME NEW T, 0 \in T, \A n \in Nat : n \in T => n + 1 \in T
    PROVE  \A n \in Nat : n \in T
<1> SUFFICES ASSUME NEW n \in Nat, n \notin T PROVE FALSE
    OBVIOUS
<1> DEFINE U == {k \in Nat : k \notin T}
<1>1. U \subseteq Nat /\ U # {}
    OBVIOUS
<1>2. PICK k \in U : \A m \in U : k <= m
    BY <1>1, LeastNumber
<1>3. k \in Nat /\ k \notin T /\ k # 0
    OBVIOUS
<1>4. k - 1 \in Nat /\ ~(k <= k - 1) /\ (k - 1) + 1 = k
    BY <1>3
<1>5. k - 1 \notin U
    BY <1>2, <1>4
<1>6. k - 1 \in T
    BY <1>4, <1>5
<1> QED
    BY <1>3, <1>4, <1>6

\* The number whose binary digits follow those of n.
Binary(base, w) == FoldLeft(LAMBDA n, bit : 2 * n + bit, base, w)

\* What the fold makes of a part of the places of w, from the part below.
Folded(g, base, w, s) == IF s = {} THEN base ELSE 2 * g[s \ {Max(s)}] + w[Max(s)]

\* The last place of a part is folded in last.
LEMMA MaxOfInterval ==
    ASSUME NEW k \in Nat, NEW s, s \subseteq 1..(k + 1), ~(s \subseteq 1..k)
    PROVE  Max(s) = k + 1 /\ s \ {Max(s)} \subseteq 1..k /\ s # {}
<1>1. k + 1 \in s
    <2>1. PICK x \in s : x \notin 1..k
        OBVIOUS
    <2> QED
        BY <2>1
<1>2. \A x \in s : x \in Int /\ k + 1 >= x
    OBVIOUS
<1>3. \A x \in s : (\A y \in s : x >= y) => x = k + 1
    BY <1>1, <1>2
<1>4. Max(s) = k + 1
    BY <1>1, <1>2, <1>3 DEF Max
<1> QED
    BY <1>1, <1>4

\* The function that the fold chooses exists: one that is right up to a place
\* can be made right at the next.
LEMMA FoldExists ==
    ASSUME NEW n \in Nat, NEW base, NEW w
    PROVE  \E g : g = [s \in SUBSET (1..n) |-> Folded(g, base, w, s)]
<1> DEFINE D == 1..n
           Upto(g, k) == /\ g = [s \in SUBSET D |-> g[s]]
                         /\ \A s \in SUBSET D : s \subseteq 1..k => g[s] = Folded(g, base, w, s)
           T == {k \in Nat : \E g : Upto(g, k)}
<1>1. 0 \in T
    <2>1. Upto([s \in SUBSET D |-> base], 0)
        BY DEF Folded
    <2> QED
        BY <2>1
<1>2. ASSUME NEW k \in Nat, k \in T PROVE k + 1 \in T
    <2>1. PICK g : Upto(g, k)
        BY <1>2
    <2> DEFINE h == [s \in SUBSET D |-> IF s \subseteq 1..k THEN g[s]
                                        ELSE Folded(g, base, w, s)]
    <2>2. \A s \in SUBSET D : s \subseteq 1..k => h[s] = g[s]
        OBVIOUS
    <2>3. ASSUME NEW s \in SUBSET D, s \subseteq 1..(k + 1)
          PROVE  h[s] = Folded(h, base, w, s)
        <3>1. CASE s \subseteq 1..k
            <4>1. h[s] = g[s] /\ h[s \ {Max(s)}] = g[s \ {Max(s)}]
                BY <2>2, <3>1
            <4>2. g[s] = Folded(g, base, w, s)
                BY <2>1, <3>1
            <4> QED
                BY <4>1, <4>2 DEF Folded
        <3>2. CASE ~(s \subseteq 1..k)
            <4>1. s \ {Max(s)} \subseteq 1..k
                BY <2>3, <3>2, MaxOfInterval
            <4>2. h[s \ {Max(s)}] = g[s \ {Max(s)}]
                BY <2>2, <4>1
            <4>3. h[s] = Folded(g, base, w, s)
                BY <3>2
            <4> QED
                BY <4>2, <4>3 DEF Folded
        <3> QED
            BY <3>1, <3>2
    <2>4. h = [s \in SUBSET D |-> h[s]]
        OBVIOUS
    <2> HIDE DEF h
    <2>5. Upto(h, k + 1)
        BY <2>3, <2>4
    <2>6. k + 1 \in Nat
        OBVIOUS
    <2> HIDE DEF Upto
    <2> QED
        BY <2>5, <2>6
<1> HIDE DEF T
<1>3. n \in T
    BY <1>1, <1>2, FromNextToNext
<1>4. PICK g : Upto(g, n)
    BY <1>3 DEF T
<1>5. g = [s \in SUBSET D |-> Folded(g, base, w, s)]
    BY <1>4
<1> QED
    BY <1>5

\* So the fold takes in one digit after the other.
LEMMA BinaryMeans ==
    ASSUME NEW n \in Nat, NEW base \in Int, NEW w \in [1..n -> Int]
    PROVE  \E f \in [0..n -> Int] :
               /\ f[0] = base
               /\ \A i \in 1..n : f[i] = 2 * f[i - 1] + w[i]
               /\ Binary(base, w) = f[n]
<1> DEFINE Iter(g) == g = [s \in SUBSET (1..n) |-> Folded(g, base, w, s)]
           g == CHOOSE h : Iter(h)
           f == [i \in 0..n |-> g[1..i]]
<1>1. Iter(g)
    BY FoldExists
<1>2. Binary(base, w) = g[1..n]
    <2>1. DOMAIN w = 1..n
        OBVIOUS
    <2> QED
        BY <2>1 DEF Binary, FoldLeft, MapThenFoldSet, Folded
<1> HIDE DEF g
<1>3. f[0] = base
    BY <1>1 DEF Folded
<1>4. ASSUME NEW i \in 1..n PROVE f[i] = 2 * f[i - 1] + w[i]
    <2>1. Max(1..i) = i /\ (1..i) \ {i} = 1..(i - 1) /\ 1..i # {}
        <3>1. i - 1 \in Nat /\ 1..i \subseteq 1..((i - 1) + 1) /\ ~(1..i \subseteq 1..(i - 1))
            OBVIOUS
        <3>2. Max(1..i) = (i - 1) + 1
            BY <3>1, MaxOfInterval
        <3> QED
            BY <3>2
    <2>2. 1..i \in SUBSET (1..n)
        OBVIOUS
    <2>3. g[1..i] = Folded(g, base, w, 1..i)
        BY <1>1, <2>2
    <2>4. Folded(g, base, w, 1..i) = 2 * g[1..(i - 1)] + w[i]
        BY <2>1 DEF Folded
    <2>5. f[i] = g[1..i] /\ f[i - 1] = g[1..(i - 1)]
        OBVIOUS
    <2> QED
        BY <2>3, <2>4, <2>5
<1>5. f \in [0..n -> Int]
    <2> DEFINE T == {i \in Nat : i <= n => f[i] \in Int}
    <2>1. 0 \in T
        BY <1>3
    <2>2. ASSUME NEW i \in Nat, i \in T PROVE i + 1 \in T
        <3>1. CASE i + 1 <= n
            <4>1. i + 1 \in 1..n /\ f[i] \in Int /\ w[i + 1] \in Int
                BY <2>2, <3>1
            <4> HIDE DEF f
            <4>2. f[i + 1] = 2 * f[i] + w[i + 1]
                BY <1>4, <4>1
            <4> QED
                BY <4>1, <4>2
        <3> QED
            BY <3>1
    <2> HIDE DEF T
    <2>3. \A i \in Nat : i \in T
        BY <2>1, <2>2, FromNextToNext
    <2>4. f = [i \in 0..n |-> f[i]]
        OBVIOUS
    <2> HIDE DEF f
    <2>5. \A i \in 0..n : f[i] \in Int
        BY <2>3 DEF T
    <2> QED
        BY <2>4, <2>5
<1>6. f[n] = g[1..n]
    OBVIOUS
<1> HIDE DEF f
<1> QED
    BY <1>2, <1>3, <1>4, <1>5, <1>6

\* The powers of 2, from the number of subsets of a set.
LEMMA PowerOfNone == 2 ^ 0 = 1
<1>1. Cardinality(SUBSET {}) = 2 ^ Cardinality({})
    BY FS_SUBSET, FS_EmptySet
<1>2. Cardinality({{}}) = 1 /\ SUBSET {} = {{}}
    BY FS_Singleton
<1> QED
    BY <1>1, <1>2, FS_EmptySet

LEMMA PowerDoubles ==
    ASSUME NEW n \in Nat
    PROVE  2 ^ n \in Nat \ {0} /\ 2 ^ (n + 1) = 2 * 2 ^ n
<1> DEFINE S == 1..n
           A == SUBSET S
           B == {s \cup {n + 1} : s \in A}
<1>1. IsFiniteSet(S) /\ Cardinality(S) = n /\ IsFiniteSet(1..(n + 1))
      /\ Cardinality(1..(n + 1)) = n + 1
    BY FS_Interval
<1>2. IsFiniteSet(A) /\ Cardinality(A) = 2 ^ n /\ Cardinality(SUBSET (1..(n + 1))) = 2 ^ (n + 1)
    BY <1>1, FS_SUBSET
<1>3. SUBSET (1..(n + 1)) = A \cup B
    <2>1. 1..(n + 1) = S \cup {n + 1}
        OBVIOUS
    <2>2. ASSUME NEW s \in SUBSET (S \cup {n + 1}) PROVE s \in A \cup B
        <3>1. CASE n + 1 \in s
            <4>1. s \ {n + 1} \in A /\ s = (s \ {n + 1}) \cup {n + 1}
                BY <3>1
            <4> QED
                BY <4>1
        <3>2. CASE n + 1 \notin s
            BY <3>2
        <3> QED
            BY <3>1, <3>2
    <2>3. A \subseteq SUBSET (1..(n + 1)) /\ B \subseteq SUBSET (1..(n + 1))
        BY <2>1
    <2> HIDE DEF A, B
    <2> QED
        BY <2>1, <2>2, <2>3
<1>4. A \cap B = {}
    <2>1. n + 1 \notin S
        OBVIOUS
    <2> QED
        BY <2>1
<1>5. IsFiniteSet(B) /\ Cardinality(B) = Cardinality(A)
    <2> DEFINE f == [s \in A |-> s \cup {n + 1}]
    <2>1. f \in Bijection(A, B)
        <3>1. n + 1 \notin S
            OBVIOUS
        <3>2. \A s, t \in A : f[s] = f[t] => s = t
            BY <3>1
        <3>3. f \in [A -> B] /\ \A b \in B : \E s \in A : f[s] = b
            OBVIOUS
        <3> HIDE DEF f
        <3> QED
            BY <3>2, <3>3 DEF Bijection, Injection, Surjection, IsInjective
    <2> QED
        BY <1>2, <2>1, FS_Bijection DEF ExistsBijection
<1> HIDE DEF A, B, S
<1>6. Cardinality(A \cup B) = Cardinality(A) + Cardinality(B) - Cardinality(A \cap B)
    BY <1>2, <1>5, FS_Union
<1>7. Cardinality(A \cap B) = 0 /\ Cardinality(A) \in Nat
    BY <1>2, <1>4, FS_EmptySet, FS_CardinalityType
<1>8. Cardinality(A) # 0
    <2>1. {} \in A
        BY DEF A
    <2> QED
        BY <1>2, <2>1, FS_EmptySet
<1>9. 2 ^ (n + 1) = Cardinality(A \cup B)
    BY <1>2, <1>3
<1> QED
    BY <1>2, <1>5, <1>6, <1>7, <1>8, <1>9

LEMMA PowersAdd ==
    ASSUME NEW m \in Nat, NEW n \in Nat
    PROVE  2 ^ (m + n) = 2 ^ m * 2 ^ n
<1> DEFINE T == {k \in Nat : 2 ^ (m + k) = 2 ^ m * 2 ^ k}
<1>1. 0 \in T
    BY PowerOfNone, PowerDoubles
<1>2. ASSUME NEW k \in Nat, k \in T PROVE k + 1 \in T
    <2> DEFINE a == 2 ^ m
               b == 2 ^ k
               c == 2 ^ (m + k)
    <2>1. a \in Nat /\ b \in Nat /\ c = a * b
        BY <1>2, PowerDoubles
    <2>2. 2 ^ (k + 1) = 2 * b
        BY PowerDoubles
    <2>3. 2 ^ (m + (k + 1)) = 2 * c
        <3>1. m + k \in Nat /\ m + (k + 1) = (m + k) + 1
            OBVIOUS
        <3> QED
            BY <3>1, PowerDoubles
    <2> HIDE DEF a, b, c
    <2>4. 2 * c = a * (2 * b)
        BY <2>1
    <2>5. 2 ^ (m + (k + 1)) = a * 2 ^ (k + 1)
        BY <2>2, <2>3, <2>4
    <2> QED
        BY <2>5 DEF a
<1> HIDE DEF T
<1>3. n \in T
    BY <1>1, <1>2, FromNextToNext
<1> QED
    BY <1>3 DEF T

\* The quotient and the remainder of a division are the ones that fit.
LEMMA Division ==
    ASSUME NEW d \in Nat \ {0}, NEW q \in Int, NEW r \in 0..(d - 1)
    PROVE  (d * q + r) \div d = q /\ (d * q + r) % d = r
OBVIOUS

LEMMA Divided ==
    ASSUME NEW a \in Nat, NEW d \in Nat \ {0}
    PROVE  /\ a \div d \in Nat /\ a % d \in 0..(d - 1)
           /\ a = d * (a \div d) + (a % d)
<1>1. a \div d \in Int /\ a % d \in 0..(d - 1)
    OBVIOUS
<1>2. a = d * (a \div d) + (a % d)
    OBVIOUS
<1>3. a \div d >= 0
    OBVIOUS
<1> QED
    BY <1>1, <1>2, <1>3

\* To divide by 2 * d, divide by d and halve.
LEMMA Halved ==
    ASSUME NEW a \in Nat, NEW d \in Nat \ {0}
    PROVE  a \div d = 2 * (a \div (2 * d)) + ((a \div d) % 2)
<1> DEFINE q == a \div d
           r == a % d
           h == q \div 2
           e == q % 2
<1>1. q \in Nat /\ r \in 0..(d - 1) /\ a = d * q + r
    BY Divided
<1> HIDE DEF q, r
<1>2. h \in Nat /\ e \in 0..1 /\ q = 2 * h + e
    BY <1>1
<1> HIDE DEF h, e
<1>3. d * e + r \in 0..(2 * d - 1)
    <2>1. CASE e = 0
        BY <1>1, <2>1
    <2>2. CASE e = 1
        BY <1>1, <2>2
    <2> QED
        BY <1>2, <2>1, <2>2
<1>4. a = (2 * d) * h + (d * e + r)
    <2>1. d * (2 * h + e) = (2 * d) * h + d * e
        BY <1>2
    <2>2. d * q = (2 * d) * h + d * e
        BY <1>2, <2>1
    <2>3. d * e \in Int /\ (2 * d) * h \in Int /\ d * q \in Int
        BY <1>1, <1>2
    <2> QED
        BY <1>1, <2>2, <2>3
<1>5. a \div (2 * d) = h
    <2>1. 2 * d \in Nat \ {0}
        OBVIOUS
    <2> DEFINE dd == 2 * d
               rr == d * e + r
    <2>2. dd \in Nat \ {0} /\ rr \in 0..(dd - 1) /\ a = dd * h + rr
        BY <1>3, <1>4, <2>1
    <2> HIDE DEF dd, rr
    <2>3. a \div dd = h
        BY <1>2, <2>2, Division
    <2> QED
        BY <2>3 DEF dd
<1>6. a \div d = 2 * h + e
    BY <1>2 DEF q
<1>7. e = (a \div d) % 2
    BY DEF e, q
<1> QED
    BY <1>5, <1>6, <1>7

\* A number of n digits is less than 2 ^ n, and is 0 if every digit is.
LEMMA BinaryBounded ==
    ASSUME NEW n \in Nat, NEW w \in [1..n -> {0, 1}]
    PROVE  /\ Binary(0, w) \in 0..(2 ^ n - 1)
           /\ Binary(0, w) = 0 <=> \A i \in 1..n : w[i] = 0
<1>1. w \in [1..n -> Int] /\ 0 \in Int
    OBVIOUS
<1>2. PICK f \in [0..n -> Int] :
          /\ f[0] = 0
          /\ \A i \in 1..n : f[i] = 2 * f[i - 1] + w[i]
          /\ Binary(0, w) = f[n]
    BY <1>1, BinaryMeans
<1> DEFINE Fits(i) == /\ f[i] \in 0..(2 ^ i - 1)
                      /\ f[i] = 0 <=> \A j \in 1..i : w[j] = 0
           T == {i \in Nat : i <= n => Fits(i)}
<1>3. 0 \in T
    BY <1>2, PowerOfNone
<1>4. ASSUME NEW i \in Nat, i \in T PROVE i + 1 \in T
    <2>1. CASE i + 1 <= n
        <3>1. Fits(i) /\ i + 1 \in 1..n
            BY <1>4, <2>1
        <3>2. f[i + 1] = 2 * f[i] + w[i + 1]
            <4>1. f[i + 1] = 2 * f[(i + 1) - 1] + w[i + 1]
                BY <1>2, <3>1
            <4> QED
                BY <4>1
        <3>3. w[i + 1] \in {0, 1}
            BY <3>1
        <3>4. 2 ^ i \in Nat /\ 2 ^ (i + 1) = 2 * 2 ^ i
            BY PowerDoubles
        <3>5. f[i + 1] \in 0..(2 ^ (i + 1) - 1)
            BY <3>1, <3>2, <3>3, <3>4
        <3>6. f[i + 1] = 0 <=> f[i] = 0 /\ w[i + 1] = 0
            BY <3>1, <3>2, <3>3, <3>4
        <3>7. 1..(i + 1) = (1..i) \cup {i + 1}
            OBVIOUS
        <3>8. f[i + 1] = 0 <=> \A j \in 1..(i + 1) : w[j] = 0
            BY <3>1, <3>6, <3>7
        <3> QED
            BY <3>5, <3>8
    <2> QED
        BY <2>1
<1> HIDE DEF T
<1>5. n \in T
    BY <1>3, <1>4, FromNextToNext
<1>6. Fits(n)
    BY <1>5 DEF T
<1> QED
    BY <1>2, <1>6

\* What stands before the digits weighs 2 ^ n.
LEMMA BinaryFrom ==
    ASSUME NEW n \in Nat, NEW base \in Int, NEW w \in [1..n -> Int]
    PROVE  Binary(base, w) = base * 2 ^ n + Binary(0, w) /\ Binary(0, w) \in Int
<1>1. PICK f \in [0..n -> Int] :
          /\ f[0] = base
          /\ \A i \in 1..n : f[i] = 2 * f[i - 1] + w[i]
          /\ Binary(base, w) = f[n]
    BY BinaryMeans
<1>2. PICK g \in [0..n -> Int] :
          /\ g[0] = 0
          /\ \A i \in 1..n : g[i] = 2 * g[i - 1] + w[i]
          /\ Binary(0, w) = g[n]
    <2>1. 0 \in Int
        OBVIOUS
    <2> QED
        BY <2>1, BinaryMeans
<1> DEFINE T == {i \in Nat : i <= n => f[i] = base * 2 ^ i + g[i]}
<1>3. 0 \in T
    BY <1>1, <1>2, PowerOfNone
<1>4. ASSUME NEW i \in Nat, i \in T PROVE i + 1 \in T
    <2>1. CASE i + 1 <= n
        <3>1. i + 1 \in 1..n /\ (i + 1) - 1 = i
            BY <2>1
        <3>2. f[i + 1] = 2 * f[i] + w[i + 1] /\ g[i + 1] = 2 * g[i] + w[i + 1]
            BY <1>1, <1>2, <3>1
        <3> DEFINE p == 2 ^ i
        <3>3. p \in Nat /\ 2 ^ (i + 1) = 2 * p
            BY PowerDoubles
        <3>4. f[i] = base * p + g[i] /\ f[i] \in Int /\ g[i] \in Int /\ w[i + 1] \in Int
            BY <1>4, <3>1
        <3> HIDE DEF p
        <3> DEFINE b == base * p
        <3>5. base * (2 * p) = 2 * b /\ b \in Int /\ f[i] = b + g[i]
            BY <3>3, <3>4
        <3> HIDE DEF b
        <3>6. f[i + 1] = 2 * b + g[i + 1]
            <4>1. b \in Int /\ g[i] \in Int /\ w[i + 1] \in Int
                BY <3>4, <3>5
            <4>2. \A x, y, z \in Int : 2 * (x + y) + z = 2 * x + (2 * y + z)
                OBVIOUS
            <4>3. 2 * (b + g[i]) + w[i + 1] = 2 * b + (2 * g[i] + w[i + 1])
                BY <4>1, <4>2, Zenon
            <4> QED
                BY <3>2, <3>5, <4>3
        <3>7. f[i + 1] = base * 2 ^ (i + 1) + g[i + 1]
            BY <3>3, <3>5, <3>6
        <3> QED
            BY <3>7
    <2> QED
        BY <2>1
<1> HIDE DEF T
<1>5. n \in T
    BY <1>3, <1>4, FromNextToNext
<1> QED
    BY <1>1, <1>2, <1>5 DEF T

\* The first digit may stand before the others.
LEMMA BinaryShift ==
    ASSUME NEW n \in Nat, NEW base \in Int, NEW w \in [1..(n + 1) -> Int]
    PROVE  Binary(base, w) = Binary(2 * base + w[1], [i \in 1..n |-> w[i + 1]])
<1> DEFINE v == [i \in 1..n |-> w[i + 1]]
<1>1. v \in [1..n -> Int] /\ w[1] \in Int /\ n + 1 \in Nat
    OBVIOUS
<1>2. PICK f \in [0..(n + 1) -> Int] :
          /\ f[0] = base
          /\ \A i \in 1..(n + 1) : f[i] = 2 * f[i - 1] + w[i]
          /\ Binary(base, w) = f[n + 1]
    BY <1>1, BinaryMeans
<1>3. PICK g \in [0..n -> Int] :
          /\ g[0] = 2 * base + w[1]
          /\ \A i \in 1..n : g[i] = 2 * g[i - 1] + v[i]
          /\ Binary(2 * base + w[1], v) = g[n]
    <2>1. 2 * base + w[1] \in Int
        BY <1>1
    <2> HIDE DEF v
    <2> QED
        BY <1>1, <2>1, BinaryMeans
<1> DEFINE T == {i \in Nat : i <= n => g[i] = f[i + 1]}
<1>4. 0 \in T
    <2>1. 1 \in 1..(n + 1) /\ 1 - 1 = 0 /\ 0 + 1 = 1
        OBVIOUS
    <2>2. f[1] = 2 * f[0] + w[1]
        BY <1>2, <2>1
    <2> QED
        BY <1>2, <1>3, <2>1, <2>2
<1>5. ASSUME NEW i \in Nat, i \in T PROVE i + 1 \in T
    <2>1. CASE i + 1 <= n
        <3>1. i + 1 \in 1..n /\ (i + 1) + 1 \in 1..(n + 1) /\ (i + 1) - 1 = i
              /\ ((i + 1) + 1) - 1 = i + 1
            BY <2>1
        <3>2. g[i] = f[i + 1] /\ v[i + 1] = w[(i + 1) + 1]
            BY <1>5, <2>1, <3>1
        <3> HIDE DEF v
        <3>3. g[i + 1] = 2 * g[i] + v[i + 1]
            BY <1>3, <3>1
        <3>4. f[(i + 1) + 1] = 2 * f[i + 1] + w[(i + 1) + 1]
            BY <1>2, <3>1
        <3> QED
            BY <3>2, <3>3, <3>4
    <2> QED
        BY <2>1
<1> HIDE DEF T
<1>6. n \in T
    BY <1>4, <1>5, FromNextToNext
<1> QED
    BY <1>2, <1>3, <1>6 DEF T

\* The first of n + 1 digits weighs 2 ^ n.
LEMMA BinarySplit ==
    ASSUME NEW n \in Nat, NEW w \in [1..(n + 1) -> {0, 1}]
    PROVE  LET low == Binary(0, [i \in 1..n |-> w[i + 1]])
           IN  Binary(0, w) = w[1] * 2 ^ n + low /\ low \in 0..(2 ^ n - 1)
<1> DEFINE v == [i \in 1..n |-> w[i + 1]]
<1>1. w \in [1..(n + 1) -> Int] /\ v \in [1..n -> {0, 1}] /\ v \in [1..n -> Int]
      /\ w[1] \in Int /\ 2 * 0 + w[1] = w[1]
    OBVIOUS
<1>2. Binary(0, w) = Binary(2 * 0 + w[1], v)
    BY <1>1, BinaryShift
<1> HIDE DEF v
<1>3. Binary(w[1], v) = w[1] * 2 ^ n + Binary(0, v)
    BY <1>1, BinaryFrom
<1>4. Binary(0, v) \in 0..(2 ^ n - 1)
    BY <1>1, BinaryBounded
<1> QED
    BY <1>1, <1>2, <1>3, <1>4 DEF v

-----------------------------------------------------------------------------
(* The GD3000 status probe: what its operators return *)

Bits(byte) == [bit \in 1..GdBits |-> BitAt(byte, bit)]

LEMMA BitTyped ==
    ASSUME NEW byte \in Byte, NEW place \in 1..GdBits
    PROVE  BitAt(byte, place) \in {0, 1}
<1>1. GdBits - place \in Nat
    BY GdAssumption DEF GdAssumption
<1> DEFINE d == 2 ^ (GdBits - place)
<1>2. d \in Nat \ {0} /\ byte \in Nat
    BY <1>1, PowerDoubles DEF Byte
<1> HIDE DEF d
<1>3. byte \div d \in Nat
    BY <1>2, Divided
<1>4. (byte \div d) % 2 \in {0, 1}
    BY <1>3
<1> QED
    BY <1>4 DEF BitAt, d

LEMMA ByteBound ==
    /\ 2 ^ GdBits \in Nat \ {0}
    /\ 2 ^ (GdBits - 1) \in Nat \ {0} /\ 2 ^ GdBits = 2 * 2 ^ (GdBits - 1)
    /\ Register \subseteq Byte /\ 0 \in Register
    /\ 0 \in Byte /\ 2 ^ GdBits - 1 \in Byte
<1>1. GdBits \in Nat /\ GdBits - 1 \in Nat /\ (GdBits - 1) + 1 = GdBits
      /\ Registers \in Nat \ {0} /\ Registers <= 2 ^ GdBits
    BY GdAssumption DEF GdAssumption
<1>2. 2 ^ GdBits \in Nat \ {0} /\ 2 ^ (GdBits - 1) \in Nat \ {0}
      /\ 2 ^ GdBits = 2 * 2 ^ (GdBits - 1)
    BY <1>1, PowerDoubles
<1> QED
    BY <1>1, <1>2 DEF Register, Byte

\* Whatever the bits, they make a byte.
LEMMA FromBitsTyped ==
    ASSUME NEW bits \in [1..GdBits -> {0, 1}]
    PROVE  FromBits(bits) \in Byte
<1>1. GdBits \in Nat
    BY GdAssumption DEF GdAssumption
<1>2. Binary(0, bits) \in 0..(2 ^ GdBits - 1)
    BY <1>1, BinaryBounded
<1> QED
    BY <1>2 DEF FromBits, Binary, Byte

\* A byte that is sent bit by bit arrives.
LEMMA BitsOfByte ==
    ASSUME NEW byte \in Byte
    PROVE  Bits(byte) \in [1..GdBits -> {0, 1}] /\ FromBits(Bits(byte)) = byte
<1> DEFINE w == Bits(byte)
<1>1. GdBits \in Nat /\ byte \in Nat /\ byte < 2 ^ GdBits /\ 2 ^ GdBits \in Nat \ {0}
    BY GdAssumption, ByteBound DEF GdAssumption, Byte
<1>2. w \in [1..GdBits -> {0, 1}]
    BY BitTyped DEF Bits
<1>3. w \in [1..GdBits -> Int] /\ 0 \in Int
    BY <1>2
<1>4. PICK f \in [0..GdBits -> Int] :
          /\ f[0] = 0
          /\ \A i \in 1..GdBits : f[i] = 2 * f[i - 1] + w[i]
          /\ Binary(0, w) = f[GdBits]
    BY <1>1, <1>3, BinaryMeans
<1> DEFINE T == {i \in Nat : i <= GdBits => f[i] = byte \div 2 ^ (GdBits - i)}
<1>5. 0 \in T
    <2> DEFINE d == 2 ^ GdBits
    <2>1. d \in Nat \ {0} /\ byte \in 0..(d - 1) /\ d * 0 + byte = byte
        BY <1>1
    <2> HIDE DEF d
    <2>2. byte \div d = 0
        BY <2>1, Division
    <2>3. GdBits - 0 = GdBits
        BY <1>1
    <2> QED
        BY <1>4, <2>2, <2>3 DEF d
<1>6. ASSUME NEW i \in Nat, i \in T PROVE i + 1 \in T
    <2>1. CASE i + 1 <= GdBits
        <3> DEFINE d == 2 ^ (GdBits - (i + 1))
        <3>1. /\ i + 1 \in 1..GdBits /\ (i + 1) - 1 = i /\ i <= GdBits
              /\ GdBits - (i + 1) \in Nat /\ (GdBits - (i + 1)) + 1 = GdBits - i
            BY <1>1, <2>1
        <3>2. d \in Nat \ {0} /\ 2 ^ (GdBits - i) = 2 * d
            BY <3>1, PowerDoubles
        <3>3. w[i + 1] = (byte \div d) % 2
            BY <3>1 DEF Bits, BitAt
        <3>4. f[i] = byte \div (2 * d)
            BY <1>6, <3>1, <3>2
        <3>5. f[i + 1] = 2 * f[i] + w[i + 1]
            BY <1>4, <3>1
        <3> HIDE DEF d, w
        <3>6. f[i + 1] = byte \div d
            BY <1>1, <3>2, <3>3, <3>4, <3>5, Halved
        <3> QED
            BY <3>6 DEF d
    <2> QED
        BY <2>1
<1> HIDE DEF T
<1>7. GdBits \in T
    BY <1>1, <1>5, <1>6, FromNextToNext
<1>8. f[GdBits] = byte
    <2>1. GdBits - GdBits = 0 /\ byte \div 1 = byte
        BY <1>1
    <2> QED
        BY <1>1, <1>7, <2>1, PowerOfNone DEF T
<1> QED
    BY <1>2, <1>4, <1>8 DEF FromBits, Binary

\* A bit that is not set can be added.
LEMMA RaiseTyped ==
    ASSUME NEW byte \in Byte, NEW place \in 1..GdBits
    PROVE  Raise(byte, place) \in Byte
<1> DEFINE d == 2 ^ (GdBits - place)
           e == 2 ^ (place - 1)
           q == byte \div d
           r == byte % d
<1>1. /\ GdBits - place \in Nat /\ place - 1 \in Nat /\ (place - 1) + 1 = place
      /\ (GdBits - place) + place = GdBits /\ place \in Nat
    BY GdAssumption DEF GdAssumption
<1>2. d \in Nat \ {0} /\ e \in Nat \ {0} /\ 2 ^ place = 2 * e
    BY <1>1, PowerDoubles
<1>3. 2 ^ GdBits = d * (2 * e)
    BY <1>1, <1>2, PowersAdd
<1>4. byte \in Nat /\ byte < 2 ^ GdBits
    BY ByteBound DEF Byte
<1>5. BitAt(byte, place) \in {0, 1} /\ BitAt(byte, place) = q % 2
    BY BitTyped DEF BitAt
<1>6. Raise(byte, place) = byte + (1 - BitAt(byte, place)) * d
    BY DEF Raise
<1> HIDE DEF d, e
<1>7. q \in Nat /\ r \in 0..(d - 1) /\ byte = d * q + r
    BY <1>2, <1>4, Divided
<1> HIDE DEF q, r
<1>8. CASE BitAt(byte, place) = 1
    BY <1>2, <1>4, <1>6, <1>8
<1>9. CASE BitAt(byte, place) = 0
    <2>1. q < 2 * e
        <3>1. SUFFICES ASSUME q >= 2 * e PROVE FALSE
            BY <1>2, <1>7
        <3>2. d * q >= d * (2 * e)
            BY <1>2, <1>7, <3>1
        <3> QED
            BY <1>2, <1>3, <1>4, <1>7, <3>2
    <2>2. q + 2 <= 2 * e
        BY <1>2, <1>5, <1>7, <1>9, <2>1
    <2>3. d * (q + 2) <= d * (2 * e)
        BY <1>2, <1>7, <2>2
    <2>4. d * (q + 2) = d * q + 2 * d
        BY <1>2, <1>7
    <2>5. Raise(byte, place) = byte + d
        BY <1>2, <1>4, <1>6, <1>9
    <2> DEFINE m == d * q
    <2>6. m \in Nat
        BY <1>2, <1>7
    <2>7. m + 2 * d <= 2 ^ GdBits /\ byte = m + r
        BY <1>3, <1>7, <2>3, <2>4
    <2>8. 2 ^ GdBits \in Nat
        BY ByteBound
    <2> HIDE DEF m
    <2>9. byte + d \in 0..(2 ^ GdBits - 1)
        BY <1>2, <1>7, <2>6, <2>7, <2>8
    <2> QED
        BY <2>5, <2>9 DEF Byte
<1> QED
    BY <1>5, <1>8, <1>9

LEMMA ResetStatusTyped == ResetStatus \in [Register -> Byte]
<1>1. 1 \in 1..GdBits
    BY GdAssumption DEF GdAssumption
<1>2. Raise(0, ResetEvent) \in Byte
    BY <1>1, ByteBound, RaiseTyped DEF ResetEvent
<1> QED
    BY <1>2, ByteBound DEF ResetStatus

\* print_status0 tells a fault from a mere reset.
LEMMA VerdictOnByte ==
    ASSUME NEW byte \in Byte
    PROVE  /\ HasFault(byte) <=> byte % 2 ^ (GdBits - 1) # 0
           /\ BitAt(byte, ResetEvent) = 1 <=> byte >= 2 ^ (GdBits - 1)
<1> DEFINE n == GdBits - 1
           w == Bits(byte)
           v == [i \in 1..n |-> w[i + 1]]
           d == 2 ^ n
           low == Binary(0, v)
<1>1. n \in Nat /\ n + 1 = GdBits
    BY GdAssumption DEF GdAssumption
<1>2. w \in [1..(n + 1) -> {0, 1}] /\ Binary(0, w) = byte
    BY <1>1, BitsOfByte DEF FromBits, Binary
<1>3. d \in Nat \ {0}
    BY <1>1, PowerDoubles
<1>4. w[1] \in {0, 1} /\ w[1] = BitAt(byte, ResetEvent)
    <2>1. 1 \in 1..(n + 1)
        BY <1>1
    <2> QED
        BY <1>1, <1>2, <2>1 DEF Bits, ResetEvent
<1>5. HasFault(byte) <=> ~(\A i \in 1..n : v[i] = 0)
    <2>1. \A place \in (1..GdBits) \ {ResetEvent} : place - 1 \in 1..n /\ (place - 1) + 1 = place
        BY <1>1 DEF ResetEvent
    <2>2. \A i \in 1..n : /\ i + 1 \in (1..GdBits) \ {ResetEvent}
                          /\ v[i] = BitAt(byte, i + 1) /\ v[i] \in {0, 1}
        <3>1. ASSUME NEW i \in 1..n PROVE i + 1 \in (1..GdBits) \ {ResetEvent}
            BY <1>1 DEF ResetEvent
        <3>2. ASSUME NEW i \in 1..n
              PROVE  v[i] = BitAt(byte, i + 1) /\ v[i] \in {0, 1}
            BY <3>1, BitTyped DEF Bits
        <3> QED
            BY <3>1, <3>2
    <2> HIDE DEF v
    <2>3. ASSUME HasFault(byte) PROVE ~(\A i \in 1..n : v[i] = 0)
        <3>1. PICK place \in (1..GdBits) \ {ResetEvent} : BitAt(byte, place) = 1
            BY <2>3 DEF HasFault
        <3>2. place - 1 \in 1..n /\ v[place - 1] = 1
            BY <2>1, <2>2, <3>1
        <3> QED
            BY <3>2
    <2>4. ASSUME NEW i \in 1..n, v[i] # 0 PROVE HasFault(byte)
        BY <2>2, <2>4 DEF HasFault
    <2> QED
        BY <2>3, <2>4
<1>6. v \in [1..n -> {0, 1}]
    <2>1. \A i \in 1..n : i + 1 \in 1..(n + 1)
        BY <1>1
    <2> HIDE DEF w
    <2> QED
        BY <1>2, <2>1
<1>7. byte = w[1] * d + low /\ low \in 0..(d - 1)
    <2> HIDE DEF w
    <2> QED
        BY <1>1, <1>2, BinarySplit
<1>8. low = 0 <=> \A i \in 1..n : v[i] = 0
    <2> HIDE DEF v
    <2> QED
        BY <1>1, <1>6, BinaryBounded
<1> HIDE DEF d, w, v, low, n
<1>9. byte = d * w[1] + low
    BY <1>3, <1>4, <1>7
<1>10. byte % d = low
    BY <1>3, <1>4, <1>7, <1>9, Division
<1>11. w[1] = 1 <=> byte >= d
    BY <1>3, <1>4, <1>7
<1> QED
    BY <1>4, <1>5, <1>8, <1>10, <1>11 DEF d, n

-----------------------------------------------------------------------------
(* The GD3000 status probe: its inductive invariant *)

\* The chip will answer the request that the probe flushes next.
Asked ==
    probe.transfer = "flush" /\ ~upset[probe.register] => chip.asked = probe.register

\* What has been read of this round is what the registers held.
ReadTruly ==
    \A r \in Register : r < probe.register /\ ~upset[r] => raw[r] = held[r]

GdInv == GdTypeOK /\ Asked /\ ReadTruly

LEMMA GdInitInv == GdInit => GdInv
<1> SUFFICES ASSUME GdInit PROVE GdInv
    OBVIOUS
<1>1. Unread \in [Register -> Byte]
    BY ByteBound DEF Unread
<1>2. chip \in [status : [Register -> Byte], asked : Register]
    BY ResetStatusTyped, ByteBound DEF GdInit
<1>3. 0 \in 0..Registers /\ 0 # Registers /\ 0 \in 0..MaxUpsets
    BY GdAssumption DEF GdAssumption
<1>4. GdTypeOK
    BY <1>1, <1>2, <1>3 DEF GdInit, GdTypeOK
<1>5. Asked /\ ReadTruly
    BY DEF GdInit, Asked, ReadTruly, Register
<1> QED
    BY <1>4, <1>5 DEF GdInv

\* The chip's registers change, and with them no more than what it was asked.
LEMMA ChipSteps ==
    ASSUME GdInv, FlagRises \/ StatusChanges \/ ChipResets
    PROVE  GdInv'
<1> USE DEF GdInv, GdTypeOK
<1>1. 0 \in Register
    BY ByteBound
<1>2. upsets' \in 0..MaxUpsets /\ UNCHANGED <<probe, raw, printed, held>>
    BY GdAssumption DEF FlagRises, StatusChanges, ChipResets, Upset, GdAssumption
<1>3. CASE FlagRises
    <2>1. PICK place \in 1..GdBits : chip' = [chip EXCEPT !.status[0] = Raise(@, place)]
        BY <1>3 DEF FlagRises
    <2>2. Raise(chip.status[0], place) \in Byte
        BY <1>1, RaiseTyped
    <2>3. chip' \in [status : [Register -> Byte], asked : Register] /\ chip'.asked = chip.asked
        BY <1>1, <2>1, <2>2
    <2>4. upset' = upset
        BY <1>3 DEF FlagRises
    <2> QED
        BY <1>2, <2>3, <2>4 DEF Asked, ReadTruly
<1>4. CASE StatusChanges
    <2>1. chip' \in [status : [Register -> Byte], asked : Register] /\ chip'.asked = chip.asked
        BY <1>4 DEF StatusChanges
    <2>2. upset' = upset
        BY <1>4 DEF StatusChanges
    <2> QED
        BY <1>2, <2>1, <2>2 DEF Asked, ReadTruly
<1>5. CASE ChipResets
    <2>1. chip' \in [status : [Register -> Byte], asked : Register]
        BY <1>1, <1>5, ResetStatusTyped DEF ChipResets
    <2>2. /\ upset' \in [Register -> BOOLEAN]
          /\ \A r \in Register : upset[r] => upset'[r]
          /\ \A r \in Register : r = probe.register /\ probe.transfer = "flush" => upset'[r]
        BY <1>5 DEF ChipResets
    <2>3. probe.transfer = "flush" => probe.register \in Register
        BY GdAssumption DEF Register, GdAssumption
    <2> QED
        BY <1>2, <2>1, <2>2, <2>3 DEF Asked, ReadTruly
<1> QED
    BY <1>3, <1>4, <1>5

\* A transfer that the chip takes in whole.
LEMMA WholeTransfer ==
    ASSUME GdInv, probe.register \in Register
    PROVE  /\ FromBits(Sent) = Command /\ Command % Registers = Command /\ Command \in Register
           /\ FromBits(Seen(GdBits + 1, 0)) = chip.status[chip.asked]
<1> USE DEF GdInv, GdTypeOK
<1>1. Command \in Register /\ Command \in Byte
    BY ByteBound DEF Command
<1>2. Sent = Bits(Command)
    BY DEF Sent, Bits
<1>3. Command % Registers = Command
    <2>1. Registers \in Nat \ {0} /\ Command \in 0..(Registers - 1)
        BY <1>1, GdAssumption DEF Register, GdAssumption
    <2>2. \A d \in Nat \ {0} : \A c \in 0..(d - 1) : c % d = c
        OBVIOUS
    <2> QED
        BY <2>1, <2>2
<1>4. Seen(GdBits + 1, 0) = Bits(chip.status[chip.asked])
    <2>1. \A bit \in 1..GdBits : bit < GdBits + 1 /\ bit # 0
        BY GdAssumption DEF GdAssumption
    <2> QED
        BY <2>1 DEF Seen, Bits
<1>5. chip.status[chip.asked] \in Byte
    OBVIOUS
<1> QED
    BY <1>1, <1>2, <1>3, <1>4, <1>5, BitsOfByte

\* Bits that are shifted by a missed clock are bits.
LEMMA ShiftedTransfer ==
    ASSUME GdInv, NEW missed \in 1..GdBits, NEW open \in {0, 1}
    PROVE  FromBits(Seen(missed, open)) \in Byte
<1> USE DEF GdInv, GdTypeOK
<1>1. chip.status[chip.asked] \in Byte
    OBVIOUS
<1>2. ASSUME NEW bit \in 1..GdBits
      PROVE  Seen(missed, open)[bit] \in {0, 1}
    <2> DEFINE shifted == IF bit < missed THEN bit ELSE bit - 1
    <2>1. shifted = 0 \/ shifted \in 1..GdBits
        BY GdAssumption DEF GdAssumption
    <2>2. Seen(missed, open)[bit] =
              IF shifted = 0 THEN open ELSE BitAt(chip.status[chip.asked], shifted)
        BY DEF Seen
    <2> HIDE DEF shifted
    <2> QED
        BY <1>1, <2>1, <2>2, BitTyped
<1>3. Seen(missed, open) = [bit \in 1..GdBits |-> Seen(missed, open)[bit]]
    BY DEF Seen
<1>4. Seen(missed, open) \in [1..GdBits -> {0, 1}]
    BY <1>2, <1>3
<1> QED
    BY <1>4, FromBitsTyped

LEMMA TransferStep == GdInv /\ Transfer => GdInv'
<1> SUFFICES ASSUME GdInv, Transfer PROVE GdInv'
    OBVIOUS
<1> USE DEF GdInv, GdTypeOK
<1> DEFINE reg == probe.register
<1>1. /\ reg \in Register /\ 0 \in Register /\ Registers \in Nat /\ reg + 1 \in 0..Registers
      /\ reg # Registers /\ \A r \in Register : r \in Int
    BY GdAssumption, ByteBound DEF Transfer, Register, GdAssumption
<1>2. held' \in [Register -> Byte] /\ printed' \in [fault : BOOLEAN, reset : BOOLEAN]
      /\ \A r \in Register : r # reg => held'[r] = held[r]
    BY <1>1 DEF Transfer
<1>3. /\ probe' \in [register : 0..Registers, transfer : {"request", "flush"}]
      /\ probe.transfer = "request" => probe'.register = reg /\ probe'.transfer = "flush"
      /\ probe.transfer = "flush" => probe'.register = reg + 1 /\ probe'.transfer = "request"
    BY <1>1 DEF Transfer, Advance
<1>4. CASE /\ Obey(FromBits(Sent))
           /\ Keep(FromBits(Seen(GdBits + 1, 0)))
           /\ UNCHANGED <<upsets, upset>>
    <2>1. chip' = [chip EXCEPT !.asked = Command] /\ Command \in Register
        BY <1>1, <1>4, WholeTransfer DEF Obey
    <2>2. raw' = IF probe.transfer = "flush" THEN [raw EXCEPT ![reg] = chip.status[chip.asked]]
                                             ELSE raw
        BY <1>1, <1>4, WholeTransfer DEF Keep, AnswersWith
    <2>3. chip' \in [status : [Register -> Byte], asked : Register] /\ chip'.asked = Command
        BY <2>1
    <2>4. raw' \in [Register -> Byte] /\ \A r \in Register : r # reg => raw'[r] = raw[r]
        BY <1>1, <2>2
    <2>5. GdTypeOK'
        BY <1>1, <1>2, <1>3, <1>4, <2>3, <2>4
    <2>6. Asked'
        BY <1>3, <1>4, <2>3 DEF Asked, Command
    <2>7. ReadTruly'
        <3>1. CASE probe.transfer = "request"
            <4>1. raw' = raw /\ held' = held /\ probe'.register = reg
                BY <1>3, <2>2, <3>1 DEF Transfer
            <4> QED
                BY <1>4, <4>1 DEF ReadTruly
        <3>2. CASE probe.transfer = "flush"
            <4>1. ~upset[reg] => raw'[reg] = held'[reg]
                <5>1. raw'[reg] = chip.status[chip.asked] /\ held'[reg] = chip.status[reg]
                    BY <1>1, <2>2, <3>2 DEF Transfer
                <5> QED
                    BY <3>2, <5>1 DEF Asked
            <4>2. \A r \in Register : r < reg + 1 => r < reg \/ r = reg
                BY <1>1
            <4> QED
                BY <1>2, <1>3, <1>4, <2>4, <3>2, <4>1, <4>2 DEF ReadTruly
        <3> QED
            BY <3>1, <3>2
    <2> QED
        BY <2>5, <2>6, <2>7
<1>5. CASE /\ Upset
           /\ Refuse
           /\ \E missed \in 1..GdBits, open \in {0, 1} : Keep(FromBits(Seen(missed, open)))
           /\ upset' = [upset EXCEPT ![probe.register] = TRUE]
    <2>1. PICK r \in Register :
              chip' = [chip EXCEPT !.asked = r, !.status[0] = Raise(@, FramingError)]
        BY <1>5 DEF Refuse
    <2>2. Raise(chip.status[0], FramingError) \in Byte
        <3>1. FramingError \in 1..GdBits
            BY GdAssumption DEF GdAssumption, FramingError
        <3> QED
            BY <1>1, <3>1, RaiseTyped
    <2>3. chip' \in [status : [Register -> Byte], asked : Register]
        BY <1>1, <2>1, <2>2
    <2>4. raw' \in [Register -> Byte] /\ \A i \in Register : i # reg => raw'[i] = raw[i]
        <3>1. PICK missed \in 1..GdBits, open \in {0, 1} : Keep(FromBits(Seen(missed, open)))
            BY <1>5
        <3>2. FromBits(Seen(missed, open)) \in Byte
            BY ShiftedTransfer
        <3> QED
            BY <1>1, <3>1, <3>2 DEF Keep
    <2>5. upset' \in [Register -> BOOLEAN] /\ upset'[reg]
          /\ \A i \in Register : upset[i] => upset'[i]
        BY <1>1, <1>5
    <2>6. upsets' \in 0..MaxUpsets
        BY <1>5, GdAssumption DEF Upset, GdAssumption
    <2>7. GdTypeOK'
        BY <1>1, <1>2, <1>3, <2>3, <2>4, <2>5, <2>6
    <2>8. Asked'
        BY <1>3, <2>5 DEF Asked
    <2>9. ReadTruly'
        <3>1. \A i \in Register : i < probe'.register => i < reg \/ i = reg
            BY <1>1, <1>3
        <3> QED
            BY <1>2, <2>4, <2>5, <3>1 DEF ReadTruly
    <2> QED
        BY <2>7, <2>8, <2>9
<1>6. CASE /\ Upset
           /\ Obey(FromBits(Sent)) \/ UNCHANGED chip
           /\ Keep(FromBits(Undriven))
           /\ upset' = [upset EXCEPT ![probe.register] = TRUE]
    <2>1. chip' \in [status : [Register -> Byte], asked : Register]
        BY <1>1, <1>6, WholeTransfer DEF Obey
    <2>2. FromBits(Undriven) \in Byte
        <3>1. Undriven \in [1..GdBits -> {0, 1}]
            BY DEF Undriven
        <3> QED
            BY <3>1, FromBitsTyped
    <2>3. raw' \in [Register -> Byte] /\ \A i \in Register : i # reg => raw'[i] = raw[i]
        BY <1>1, <1>6, <2>2 DEF Keep
    <2>4. upset' \in [Register -> BOOLEAN] /\ upset'[reg]
          /\ \A i \in Register : upset[i] => upset'[i]
        BY <1>1, <1>6
    <2>5. upsets' \in 0..MaxUpsets
        BY <1>6, GdAssumption DEF Upset, GdAssumption
    <2>6. GdTypeOK'
        BY <1>1, <1>2, <1>3, <2>1, <2>3, <2>4, <2>5
    <2>7. Asked'
        BY <1>3, <2>4 DEF Asked
    <2>8. ReadTruly'
        <3>1. \A i \in Register : i < probe'.register => i < reg \/ i = reg
            BY <1>1, <1>3
        <3> QED
            BY <1>2, <2>3, <2>4, <3>1 DEF ReadTruly
    <2> QED
        BY <2>6, <2>7, <2>8
<1> QED
    BY <1>4, <1>5, <1>6 DEF Transfer

LEMMA ReportStep == GdInv /\ Report => GdInv'
<1> SUFFICES ASSUME GdInv, Report PROVE GdInv'
    OBVIOUS
<1> USE DEF GdInv, GdTypeOK
<1>1. Unread \in [Register -> Byte]
    BY ByteBound DEF Unread
<1>2. 0 \in 0..Registers /\ 0 # Registers
    BY GdAssumption DEF GdAssumption
<1>3. printed' \in [fault : BOOLEAN, reset : BOOLEAN]
    BY DEF Report, HasFault
<1>4. GdTypeOK'
    BY <1>1, <1>2, <1>3 DEF Report
<1>5. Asked' /\ ReadTruly'
    BY DEF Report, Asked, ReadTruly, Register
<1> QED
    BY <1>4, <1>5

LEMMA GdNextInv == GdInv /\ [GdNext]_gdVars => GdInv'
<1> SUFFICES ASSUME GdInv, [GdNext]_gdVars PROVE GdInv'
    OBVIOUS
<1>1. CASE UNCHANGED gdVars
    BY <1>1 DEF gdVars, GdInv, GdTypeOK, Asked, ReadTruly
<1> QED
    BY <1>1, ChipSteps, TransferStep, ReportStep DEF GdNext

LEMMA ReportIsTrue ==
    ASSUME GdInv, Report
    PROVE  /\ \A r \in Register : ~upset[r] => raw[r] = held[r]
           /\ ~upset[0] =>
                 /\ printed'.fault <=> held[0] % 2 ^ (GdBits - 1) # 0
                 /\ printed'.reset <=> held[0] >= 2 ^ (GdBits - 1)
<1> USE DEF GdInv, GdTypeOK
<1>1. \A r \in Register : r < probe.register
    BY GdAssumption DEF Report, Register, GdAssumption
<1>2. \A r \in Register : ~upset[r] => raw[r] = held[r]
    BY <1>1 DEF ReadTruly
<1>3. 0 \in Register /\ held[0] \in Byte
    BY ByteBound
<1>4. printed'.fault = HasFault(raw[0]) /\ printed'.reset = (BitAt(raw[0], ResetEvent) = 1)
    BY DEF Report
<1>5. /\ HasFault(held[0]) <=> held[0] % 2 ^ (GdBits - 1) # 0
      /\ BitAt(held[0], ResetEvent) = 1 <=> held[0] >= 2 ^ (GdBits - 1)
    BY <1>3, VerdictOnByte
<1> QED
    BY <1>2, <1>3, <1>4, <1>5

-----------------------------------------------------------------------------
(* The load-cell probe: what its operators return *)

\* All but the sign of a conversion.
Low(word) == Binary(0, [i \in 1..(AdsBits - 1) |-> word[i + 1]])

LEMMA AdsPowers ==
    /\ 2 ^ (AdsBits - 1) \in Nat \ {0} /\ 2 ^ AdsBits = 2 * 2 ^ (AdsBits - 1)
    /\ 2 ^ (AdsWidth - 1) \in Nat \ {0} /\ 2 ^ AdsWidth = 2 * 2 ^ (AdsWidth - 1)
    /\ 2 ^ AdsBits <= 2 ^ (AdsWidth - 1)
<1> DEFINE gap == AdsWidth - 1 - AdsBits
           a == 2 ^ AdsBits
           b == 2 ^ gap
<1>1. /\ AdsBits - 1 \in Nat /\ (AdsBits - 1) + 1 = AdsBits /\ AdsBits \in Nat
      /\ AdsWidth - 1 \in Nat /\ (AdsWidth - 1) + 1 = AdsWidth
      /\ gap \in Nat /\ AdsBits + gap = AdsWidth - 1
    BY AdsAssumption DEF AdsAssumption
<1>2. a \in Nat \ {0} /\ b \in Nat \ {0}
    BY <1>1, PowerDoubles
<1>3. 2 ^ (AdsWidth - 1) = a * b
    BY <1>1, PowersAdd
<1> HIDE DEF a, b
<1>4. a <= a * b
    BY <1>2
<1>5. 2 ^ AdsBits <= 2 ^ (AdsWidth - 1)
    BY <1>3, <1>4 DEF a
<1> QED
    BY <1>1, <1>5, PowerDoubles

\* The sign of a conversion weighs 2 ^ (AdsBits - 1), negatively.
LEMMA ConversionMeans ==
    ASSUME NEW word \in Conversions
    PROVE  /\ word[1] \in {0, 1} /\ Low(word) \in 0..(2 ^ (AdsBits - 1) - 1)
           /\ Raw(word) = word[1] * 2 ^ (AdsBits - 1) + Low(word)
           /\ Counts(word) = (-word[1]) * 2 ^ (AdsBits - 1) + Low(word)
<1> DEFINE n == AdsBits - 1
           v == [i \in 1..n |-> word[i + 1]]
<1>1. n \in Nat /\ n + 1 = AdsBits
    BY AdsAssumption DEF AdsAssumption
<1>2. word \in [1..(n + 1) -> {0, 1}]
    BY <1>1 DEF Conversions
<1>3. word[1] \in {0, 1}
    BY <1>1, <1>2
<1>4. Binary(0, word) = word[1] * 2 ^ n + Low(word) /\ Low(word) \in 0..(2 ^ n - 1)
    BY <1>1, <1>2, BinarySplit DEF Low
<1>5. Tail(word) = v
    <2>1. word \in Seq({0, 1}) /\ Len(word) = n + 1 /\ (n + 1) - 1 = n
        BY <1>1, <1>2
    <2>2. word # <<>> /\ Tail(word) \in Seq({0, 1}) /\ Len(Tail(word)) = n
        BY <1>1, <2>1
    <2>3. \A i \in 1..n : Tail(word)[i] = word[i + 1]
        BY <1>1, <2>1, <2>2
    <2>4. Tail(word) = [i \in 1..n |-> Tail(word)[i]]
        <3> DEFINE rest == Tail(word)
        <3>1. rest \in Seq({0, 1}) /\ Len(rest) = n
            BY <2>2
        <3> HIDE DEF rest, n
        <3>2. rest = [i \in 1..n |-> rest[i]]
            BY <3>1
        <3> QED
            BY <3>2 DEF rest
    <2> QED
        BY <2>3, <2>4
<1>6. v \in [1..n -> Int]
    <2>1. \A i \in 1..n : i + 1 \in 1..(n + 1)
        BY <1>1
    <2> QED
        BY <1>2, <2>1
<1>7. Binary(-word[1], v) = (-word[1]) * 2 ^ n + Low(word)
    <2>1. -word[1] \in Int /\ Low(word) = Binary(0, v)
        BY <1>3 DEF Low
    <2> HIDE DEF v, n
    <2> QED
        BY <1>1, <1>6, <2>1, BinaryFrom
<1>8. Raw(word) = Binary(0, word) /\ Counts(word) = Binary(-word[1], v)
    BY <1>5 DEF Raw, Counts, Binary
<1> QED
    BY <1>3, <1>4, <1>7, <1>8

\* read_sample extends the sign to the width of an int32_t.
LEMMA SampleMeans ==
    ASSUME NEW word \in Conversions
    PROVE  /\ Extended(Raw(word)) = Counts(word)
           /\ Counts(word) \in -(2 ^ (AdsBits - 1))..(2 ^ (AdsBits - 1) - 1)
<1> DEFINE s == 2 ^ (AdsBits - 1)
           t == 2 ^ (AdsWidth - 1)
           low == Low(word)
<1>1. /\ s \in Nat \ {0} /\ t \in Nat \ {0} /\ 2 * s <= t
      /\ 2 ^ AdsBits = 2 * s /\ 2 ^ AdsWidth = 2 * t
    BY AdsPowers
<1>2. /\ word[1] \in {0, 1} /\ low \in 0..(s - 1)
      /\ Raw(word) = word[1] * s + low /\ Counts(word) = (-word[1]) * s + low
    BY ConversionMeans
<1>3. Extended(Raw(word)) =
          LET bits == IF Raw(word) >= s THEN Raw(word) + 2 * t - 2 * s ELSE Raw(word)
          IN  IF bits >= t THEN bits - 2 * t ELSE bits
    BY <1>1 DEF Extended
<1> HIDE DEF s, t, low
<1>4. CASE word[1] = 0
    <2>1. Raw(word) = low /\ Counts(word) = low
        BY <1>1, <1>2, <1>4
    <2> QED
        BY <1>1, <1>2, <1>3, <2>1 DEF s
<1>5. CASE word[1] = 1
    <2>1. Raw(word) = s + low /\ Counts(word) = low - s
        BY <1>1, <1>2, <1>5
    <2>2. Extended(Raw(word)) = low - s
        BY <1>1, <1>2, <1>3, <2>1
    <2>3. low - s \in -s..(s - 1)
        BY <1>1, <1>2
    <2> QED
        BY <2>1, <2>2, <2>3 DEF s
<1> QED
    BY <1>2, <1>4, <1>5

-----------------------------------------------------------------------------
(* The load-cell probe: its inductive invariant *)

InWord == adc.clocks \in 1..AdsBits

\* Only a read that broke off stops within a conversion, and unless the error
\* is the last thing printed, a level that is low does not come from there.
BrokenOff ==
    InWord /\ report.kind # "ERROR" => Level(adc.clocks) = 1

\* A poll that has found DOUT high finds it high again, or a new conversion.
HighUntilDone ==
    sampler.at = "waiting" /\ sampler.polls # 0 =>
        IF adc.clocks = 0 THEN adc.age = 0 ELSE Level(adc.clocks) = 1

\* What a read takes for a conversion is one, but after an error.
ReadyForOne == sampler.at = "ready" /\ adc.clocks # 0 => report.kind = "ERROR"

\* A conversion that is left unread while the probe prints is new, but after
\* an error.
LeftUnread ==
    sampler.at = "printing" /\ adc.clocks = 0 => adc.age = 0 \/ report.kind = "ERROR"

AdsInv == AdsTypeOK /\ BrokenOff /\ HighUntilDone /\ ReadyForOne /\ LeftUnread

LEMMA AdsBounds ==
    /\ AdsBits \in Nat \ {0} /\ Spent = AdsBits + 1 /\ Spent \in Nat
    /\ Conversion \in Nat /\ Conversion > 1
    /\ ReadyTimeout \in Nat \ {0} /\ MaxPinErrors \in Nat /\ MaxStalls \in Nat
BY AdsAssumption DEF AdsAssumption, Spent

LEMMA LevelTyped ==
    ASSUME AdsTypeOK, NEW n \in 0..Spent
    PROVE  /\ Level(n) \in {0, 1}
           /\ n = 0 => Level(n) = 0
           /\ n \in 1..AdsBits => Level(n) = adc.word[n]
           /\ n = Spent => Level(n) = 1
<1>1. n = 0 \/ n \in 1..AdsBits \/ n = Spent
    BY AdsBounds
<1>2. CASE n = 0
    BY <1>2, AdsBounds DEF Level
<1>3. CASE n \in 1..AdsBits
    <2>1. n # 0 /\ n # Spent /\ Level(n) = adc.word[n]
        BY <1>3, AdsBounds DEF Level
    <2>2. adc.word[n] \in {0, 1}
        BY <1>3 DEF AdsTypeOK, Conversions
    <2> QED
        BY <1>3, <2>1, <2>2
<1>4. CASE n = Spent
    <2>1. n # 0 /\ n \notin 1..AdsBits
        BY <1>4, AdsBounds
    <2> QED
        BY <1>4, <2>1 DEF Level
<1> QED
    BY <1>1, <1>2, <1>3, <1>4

LEMMA AdsInitInv == AdsInit => AdsInv
<1> SUFFICES ASSUME AdsInit PROVE AdsInv
    OBVIOUS
<1>1. [i \in 1..AdsBits |-> 0] \in Conversions
    BY DEF Conversions
<1>2. 0 \in -(2 ^ (AdsBits - 1))..(2 ^ (AdsBits - 1) - 1)
    BY AdsPowers
<1>3. AdsTypeOK
    BY <1>1, <1>2, AdsBounds DEF AdsInit, AdsTypeOK
<1>4. Spent \notin 1..AdsBits /\ Spent # 0
    BY AdsBounds
<1> QED
    BY <1>3, <1>4 DEF AdsInit, AdsInv, BrokenOff, InWord, HighUntilDone, ReadyForOne, LeftUnread

\* A conversion ends, or none does, or it is left out.
LEMMA PassReturns ==
    ASSUME AdsTypeOK, PollPasses
    PROVE  /\ adc' \in [word : Conversions, clocks : 0..Spent, age : 0..(Conversion - 1)]
           /\ stalls' \in 0..MaxStalls
           /\ \/ adc'.clocks = 0 /\ adc'.age = 0 /\ stalls' = stalls
              \/ /\ adc'.clocks = adc.clocks /\ adc'.word = adc.word
                 /\ \/ adc'.age = adc.age + 1 /\ stalls' = stalls
                    \/ adc'.age = 0 /\ stalls' = stalls + 1
           /\ adc'.age = 0 => adc.age + 1 = Conversion
<1> USE AdsBounds DEF AdsTypeOK
<1>1. CASE adc.age + 1 < Conversion
    <2>1. adc' = [adc EXCEPT !.age = adc.age + 1] /\ stalls' = stalls
        BY <1>1 DEF PollPasses
    <2>2. adc.age + 1 \in 0..(Conversion - 1) /\ adc.age + 1 # 0
        BY <1>1
    <2> QED
        BY <2>1, <2>2
<1>2. CASE ~(adc.age + 1 < Conversion)
    <2>1. adc.age + 1 = Conversion /\ 0 \in 0..(Conversion - 1)
        BY <1>2
    <2>2. CASE /\ \E word \in Conversions : adc' = [word |-> word, clocks |-> 0, age |-> 0]
               /\ UNCHANGED stalls
        BY <2>1, <2>2
    <2>3. CASE /\ stalls < MaxStalls /\ stalls' = stalls + 1
               /\ adc' = [adc EXCEPT !.age = 0]
        BY <2>1, <2>3
    <2> QED
        BY <1>2, <2>2, <2>3 DEF PollPasses
<1> QED
    BY <1>1, <1>2

\* A level depends on the conversion and on the clocks.
LEMMA SameLevel ==
    ASSUME AdsTypeOK, adc'.word = adc.word, NEW n \in 0..Spent
    PROVE  Level(n)' = Level(n)
BY DEF Level

LEMMA PinErrorTyped == AdsTypeOK /\ PinError => pinErrors' \in 0..MaxPinErrors
BY AdsBounds DEF AdsTypeOK, PinError

LEMMA AwaitStep == AdsInv /\ AwaitReady => AdsInv'
<1> SUFFICES ASSUME AdsInv, AwaitReady PROVE AdsInv'
    OBVIOUS
<1> USE AdsBounds DEF AdsInv
<1>1. sampler.at = "waiting" /\ sampler.polls < ReadyTimeout /\ adc.clocks \in 0..Spent
    BY DEF AwaitReady, AdsTypeOK
<1>2. CASE /\ PinError
           /\ Printed("ERROR", report.counts)
           /\ UNCHANGED <<adc, stalls>>
    <2>1. report'.kind = "ERROR" /\ sampler'.at = "printing"
        BY <1>2 DEF Printed, AdsTypeOK
    <2>2. AdsTypeOK'
        BY <1>2, PinErrorTyped DEF Printed, AdsTypeOK
    <2> QED
        BY <2>1, <2>2 DEF BrokenOff, HighUntilDone, ReadyForOne, LeftUnread
<1>3. CASE /\ Level(adc.clocks) = 0
           /\ sampler' = [sampler EXCEPT !.at = "ready"]
           /\ UNCHANGED <<adc, report, pinErrors, stalls>>
    <2>1. AdsTypeOK'
        BY <1>3 DEF AdsTypeOK
    <2>2. sampler'.at = "ready"
        BY <1>3 DEF AdsTypeOK
    <2>3. adc.clocks # 0 => InWord /\ report.kind = "ERROR"
        <3>1. adc.clocks # 0 => adc.clocks \in 1..AdsBits
            BY <1>1, <1>3, LevelTyped
        <3> QED
            BY <1>3, <3>1 DEF BrokenOff, InWord
    <2>4. Level(adc.clocks)' = Level(adc.clocks)
        BY <1>3 DEF Level
    <2> QED
        BY <1>3, <2>1, <2>2, <2>3, <2>4
        DEF BrokenOff, InWord, HighUntilDone, ReadyForOne, LeftUnread
<1>4. CASE /\ Level(adc.clocks) = 1
           /\ sampler' = [sampler EXCEPT !.polls = @ + 1]
           /\ PollPasses
           /\ UNCHANGED <<report, pinErrors>>
    <2>1. sampler' \in [at : {"waiting", "ready", "printing"}, polls : 0..ReadyTimeout]
          /\ sampler'.at = "waiting"
        BY <1>1, <1>4 DEF AdsTypeOK
    <2>2. AdsTypeOK'
        BY <1>4, <2>1, PassReturns DEF AdsTypeOK
    <2>3. adc.clocks # 0
        BY <1>1, <1>4, LevelTyped
    <2>4. CASE adc'.clocks = 0 /\ adc'.age = 0
        BY <2>1, <2>2, <2>4 DEF BrokenOff, InWord, HighUntilDone, ReadyForOne, LeftUnread
    <2>5. CASE adc'.clocks = adc.clocks /\ adc'.word = adc.word
        <3>1. Level(adc.clocks)' = 1
            BY <1>1, <1>4, <2>5 DEF Level
        <3> QED
            BY <2>1, <2>2, <2>3, <2>5, <3>1
            DEF BrokenOff, InWord, HighUntilDone, ReadyForOne, LeftUnread
    <2> QED
        BY <1>4, <2>4, <2>5, PassReturns
<1> QED
    BY <1>2, <1>3, <1>4 DEF AwaitReady

LEMMA GiveUpStep == AdsInv /\ GiveUp => AdsInv'
<1> SUFFICES ASSUME AdsInv, GiveUp PROVE AdsInv'
    OBVIOUS
<1> USE AdsBounds DEF AdsInv
<1>1. sampler'.at = "printing" /\ report'.kind = "TIMEOUT" /\ UNCHANGED adc
    BY DEF GiveUp, Printed, AdsTypeOK
<1>2. AdsTypeOK'
    BY DEF GiveUp, Printed, AdsTypeOK
<1>3. sampler.at = "waiting" /\ sampler.polls # 0
    BY DEF GiveUp
<1>4. BrokenOff' /\ LeftUnread'
    <2>1. Level(adc.clocks)' = Level(adc.clocks)
        BY <1>1 DEF Level
    <2>2. InWord => adc.clocks # 0
        BY DEF InWord
    <2> QED
        BY <1>1, <1>3, <2>1, <2>2 DEF BrokenOff, InWord, LeftUnread, HighUntilDone
<1> QED
    BY <1>1, <1>2, <1>4 DEF HighUntilDone, ReadyForOne

\* A whole read-out of a conversion sees the conversion.
LEMMA LevelsOfConversion ==
    ASSUME AdsTypeOK
    PROVE  /\ Levels \in Conversions
           /\ adc.clocks = 0 => Levels = adc.word
           /\ Clocked(AllClocks) = Spent
           /\ \A n \in 1..AdsBits : Clocked(n) \in 1..Spent
<1>1. adc.clocks \in 0..Spent /\ adc.word \in [1..AdsBits -> {0, 1}]
    BY DEF AdsTypeOK, Conversions
<1>2. \A n \in 1..AdsBits : Clocked(n) \in 1..Spent /\ (adc.clocks = 0 => Clocked(n) = n)
    BY <1>1, AdsBounds DEF Clocked
<1>3. Clocked(AllClocks) = Spent
    BY <1>1, AdsBounds DEF Clocked, AllClocks
<1>4. \A n \in 1..AdsBits : Level(Clocked(n)) \in {0, 1}
    BY <1>2, LevelTyped
<1>5. \A n \in 1..AdsBits : adc.clocks = 0 => Level(Clocked(n)) = adc.word[n]
    <2>1. ASSUME NEW n \in 1..AdsBits, adc.clocks = 0 PROVE Level(Clocked(n)) = adc.word[n]
        <3>1. Clocked(n) = n /\ n \in 0..Spent
            BY <1>2, <2>1, AdsBounds
        <3> QED
            BY <3>1, LevelTyped
    <2> QED
        BY <2>1
<1>6. Levels \in Conversions
    BY <1>4 DEF Levels, Conversions
<1>7. adc.clocks = 0 => Levels = adc.word
    BY <1>1, <1>5 DEF Levels
<1> QED
    BY <1>2, <1>3, <1>6, <1>7

LEMMA ReadOutStep == AdsInv /\ ReadOut => AdsInv'
<1> SUFFICES ASSUME AdsInv, ReadOut PROVE AdsInv'
    OBVIOUS
<1> USE AdsBounds DEF AdsInv
<1>1. sampler'.at = "printing" /\ sampler' \in [at : {"waiting", "ready", "printing"},
                                               polls : 0..ReadyTimeout]
    BY DEF ReadOut, Printed, AdsTypeOK
<1>2. adc' = [adc EXCEPT !.clocks = Spent]
    BY LevelsOfConversion DEF ReadOut
<1>3. report' = [kind |-> "SAMPLE", counts |-> Extended(Raw(Levels))]
    BY DEF ReadOut, Printed
<1>4. Extended(Raw(Levels)) \in -(2 ^ (AdsBits - 1))..(2 ^ (AdsBits - 1) - 1)
    BY LevelsOfConversion, SampleMeans
<1>5. Extended(Raw(Levels)) \in Int
    BY <1>4, AdsPowers
<1>6. adc' \in [word : Conversions, clocks : 0..Spent, age : 0..(Conversion - 1)] /\ adc'.clocks = Spent
    BY <1>2 DEF AdsTypeOK
<1>7. AdsTypeOK'
    BY <1>1, <1>3, <1>4, <1>5, <1>6 DEF ReadOut, AdsTypeOK
<1>8. adc'.clocks # 0 /\ adc'.clocks \notin 1..AdsBits
    BY <1>6
<1> QED
    BY <1>1, <1>7, <1>8 DEF BrokenOff, InWord, HighUntilDone, ReadyForOne, LeftUnread

LEMMA BreakOffStep == AdsInv /\ BreakOff => AdsInv'
<1> SUFFICES ASSUME AdsInv, BreakOff PROVE AdsInv'
    OBVIOUS
<1> USE AdsBounds DEF AdsInv
<1>1. sampler'.at = "printing" /\ report'.kind = "ERROR"
    BY DEF BreakOff, Printed, AdsTypeOK
<1>2. PICK n \in 1..AdsBits : adc' = [adc EXCEPT !.clocks = Clocked(n)]
    BY DEF BreakOff
<1>3. Clocked(n) \in 0..Spent
    BY LevelsOfConversion
<1>4. AdsTypeOK'
    <2>1. adc' \in [word : Conversions, clocks : 0..Spent, age : 0..(Conversion - 1)]
        BY <1>2, <1>3 DEF AdsTypeOK
    <2> QED
        BY <2>1, PinErrorTyped DEF BreakOff, Printed, AdsTypeOK
<1> QED
    BY <1>1, <1>4 DEF BrokenOff, HighUntilDone, ReadyForOne, LeftUnread

LEMMA RestartStep == AdsInv /\ Restart => AdsInv'
<1> SUFFICES ASSUME AdsInv, Restart PROVE AdsInv'
    OBVIOUS
<1> USE AdsBounds DEF AdsInv
<1>1. sampler' = [at |-> "waiting", polls |-> 0] /\ UNCHANGED <<report, pinErrors>>
    BY DEF Restart
<1>2. AdsTypeOK'
    BY <1>1, PassReturns DEF Restart, AdsTypeOK
<1>3. BrokenOff'
    <2>1. CASE adc'.clocks = 0
        BY <2>1 DEF BrokenOff, InWord
    <2>2. CASE adc'.clocks = adc.clocks /\ adc'.word = adc.word
        <3>1. InWord => Level(adc.clocks)' = Level(adc.clocks)
            BY <2>2 DEF Level
        <3> QED
            BY <1>1, <2>2, <3>1 DEF BrokenOff, InWord
    <2> QED
        BY <2>1, <2>2, PassReturns DEF Restart
<1> QED
    BY <1>1, <1>2, <1>3 DEF HighUntilDone, ReadyForOne, LeftUnread

LEMMA AdsNextInv == AdsInv /\ [AdsNext]_adsVars => AdsInv'
<1> SUFFICES ASSUME AdsInv, [AdsNext]_adsVars PROVE AdsInv'
    OBVIOUS
<1>1. CASE UNCHANGED adsVars
    BY <1>1 DEF adsVars, AdsInv, AdsTypeOK, BrokenOff, InWord, HighUntilDone, ReadyForOne,
       LeftUnread, Level
<1> QED
    BY <1>1, AwaitStep, GiveUpStep, ReadOutStep, BreakOffStep, RestartStep DEF AdsNext

-----------------------------------------------------------------------------
(* The two bench probes *)

BenchInv == board \in {"nrf5340", "kv31f"} /\ AdsInv /\ GdInv

LEMMA BenchInvHolds == BenchSpec => []BenchInv
<1>1. BenchInit => BenchInv
    BY AdsInitInv, GdInitInv DEF BenchInit, BenchInv
<1>2. BenchInv /\ [BenchNext]_benchVars => BenchInv'
    <2> SUFFICES ASSUME BenchInv, [BenchNext]_benchVars PROVE BenchInv'
        OBVIOUS
    <2>1. board' = board /\ [AdsNext]_adsVars /\ [GdNext]_gdVars
        BY DEF BenchNext, benchVars
    <2> QED
        BY <2>1, AdsNextInv, GdNextInv DEF BenchInv
<1> QED
    BY <1>1, <1>2, PTL DEF BenchSpec

\* The bench probes and their devices stay well-typed: every sum of digits
\* that either probe forms fits the word it is kept in, and no sample leaves
\* the range of the converter.
THEOREM BenchTypeCorrect == BenchSpec => []BenchTypeOK
<1>1. BenchInv => BenchTypeOK
    BY DEF BenchInv, AdsInv, GdInv, BenchTypeOK
<1> QED
    BY BenchInvHolds, <1>1, PTL

\* Whatever the width of a conversion, the pins that cannot be read and the
\* conversions that are left out: what the load-cell probe prints is true.
THEOREM ReportsAlwaysTrue == BenchSpec => ReportsAreTrue
<1>1. ASSUME BenchInv, ReadOut
      PROVE  \/ adc.clocks = 0 /\ report'.counts = Counts(adc.word)
             \/ report.kind = "ERROR"
    <2>1. CASE adc.clocks = 0
        <3>1. report'.counts = Extended(Raw(adc.word))
            BY <1>1, <2>1, LevelsOfConversion DEF BenchInv, AdsInv, ReadOut, Printed
        <3>2. adc.word \in Conversions
            BY <1>1 DEF BenchInv, AdsInv, AdsTypeOK
        <3> QED
            BY <2>1, <3>1, <3>2, SampleMeans
    <2>2. CASE adc.clocks # 0
        BY <1>1, <2>2 DEF BenchInv, AdsInv, ReadyForOne, ReadOut
    <2> QED
        BY <2>1, <2>2
<1>2. ASSUME BenchInv, GiveUp
      PROVE  adc.clocks # 0 \/ adc.age = 0 \/ report.kind = "ERROR"
    <2>1. sampler.polls # 0 /\ sampler.at = "waiting"
        BY <1>2, AdsBounds DEF GiveUp
    <2> QED
        BY <1>2, <2>1 DEF BenchInv, AdsInv, HighUntilDone
<1>3. ASSUME BenchInv, [BenchNext]_benchVars, adc.clocks = 0, adc'.age = 0, adc.age # 0
      PROVE  stalls' > stalls \/ report.kind = "ERROR"
    <2>1. AdsNext /\ AdsInv /\ AdsTypeOK
        BY <1>3 DEF BenchNext, benchVars, adsVars, BenchInv, AdsInv
    <2>2. adc'.age # adc.age
        BY <1>3
    <2>3. CASE AwaitReady
        <3>1. Level(adc.clocks) = 0
            BY <1>3, <2>1, AdsBounds, LevelTyped
        <3> QED
            BY <2>2, <2>3, <3>1 DEF AwaitReady
    <2>4. CASE Restart
        BY <1>3, <2>1, <2>4 DEF Restart, AdsInv, LeftUnread
    <2>5. CASE GiveUp \/ ReadOut \/ BreakOff
        BY <2>1, <2>2, <2>5 DEF GiveUp, ReadOut, BreakOff, AdsTypeOK
    <2> QED
        BY <2>1, <2>3, <2>4, <2>5 DEF AdsNext
<1>4. BenchInv /\ [BenchNext]_benchVars =>
          /\ [ReadOut =>
                 \/ adc.clocks = 0 /\ report'.counts = Counts(adc.word)
                 \/ report.kind = "ERROR"]_adsVars
          /\ [GiveUp => adc.clocks # 0 \/ adc.age = 0 \/ report.kind = "ERROR"]_adsVars
          /\ [adc.clocks = 0 /\ adc'.age = 0 /\ adc.age # 0 =>
                 stalls' > stalls \/ report.kind = "ERROR"]_adsVars
    BY <1>1, <1>2, <1>3
<1> QED
    BY BenchInvHolds, <1>4, PTL DEF BenchSpec, ReportsAreTrue

\* Whatever the length of a byte, the number of registers, the clocks that the
\* chip misses and its resets: a round prints what the registers held, but of
\* those whose own read was upset.
THEOREM StatusAlwaysAnswersRequest == BenchSpec => StatusAnswersRequest
<1>1. BenchInv => [Report =>
          /\ \A r \in Register : ~upset[r] => raw[r] = held[r]
          /\ ~upset[0] =>
                /\ printed'.fault <=> held[0] % 2 ^ (GdBits - 1) # 0
                /\ printed'.reset <=> held[0] >= 2 ^ (GdBits - 1)]_gdVars
    BY ReportIsTrue DEF BenchInv
<1> QED
    BY BenchInvHolds, <1>1, PTL DEF StatusAnswersRequest

-----------------------------------------------------------------------------
(* Codecs: the digits of a number *)

\* The powers of 2 that the links need.
LEMMA Powers ==
    /\ 2 ^ 0 = 1 /\ 2 ^ 1 = 2 /\ 2 ^ 2 = 4 /\ 2 ^ 3 = 8 /\ 2 ^ 4 = 16 /\ 2 ^ 5 = 32
    /\ 2 ^ 6 = 64 /\ 2 ^ 7 = 128 /\ 2 ^ 8 = 256 /\ 2 ^ 9 = 512 /\ 2 ^ 10 = 1024
    /\ 2 ^ 11 = 2048 /\ 2 ^ 12 = 4096 /\ 2 ^ 13 = 8192 /\ 2 ^ 14 = 16384 /\ 2 ^ 15 = 32768
    /\ 2 ^ 16 = 65536 /\ 2 ^ 24 = 16777216
<1>1. /\ 0 + 1 = 1 /\ 1 + 1 = 2 /\ 2 + 1 = 3 /\ 3 + 1 = 4 /\ 4 + 1 = 5 /\ 5 + 1 = 6
      /\ 6 + 1 = 7 /\ 7 + 1 = 8 /\ 8 + 1 = 9 /\ 9 + 1 = 10 /\ 10 + 1 = 11 /\ 11 + 1 = 12
      /\ 12 + 1 = 13 /\ 13 + 1 = 14 /\ 14 + 1 = 15 /\ 15 + 1 = 16 /\ 16 + 8 = 24
    OBVIOUS
<1>2. \A n \in Nat : 2 ^ (n + 1) = 2 * 2 ^ n
    BY PowerDoubles
<1>3. 2 ^ 1 = 2 /\ 2 ^ 2 = 4 /\ 2 ^ 3 = 8 /\ 2 ^ 4 = 16
    BY <1>1, <1>2, PowerOfNone
<1>4. 2 ^ 5 = 32 /\ 2 ^ 6 = 64 /\ 2 ^ 7 = 128 /\ 2 ^ 8 = 256
    BY <1>1, <1>2, <1>3
<1>5. 2 ^ 9 = 512 /\ 2 ^ 10 = 1024 /\ 2 ^ 11 = 2048 /\ 2 ^ 12 = 4096
    BY <1>1, <1>2, <1>4
<1>6. 2 ^ 13 = 8192 /\ 2 ^ 14 = 16384 /\ 2 ^ 15 = 32768 /\ 2 ^ 16 = 65536
    BY <1>1, <1>2, <1>5
<1>7. 2 ^ (16 + 8) = 2 ^ 16 * 2 ^ 8
    BY PowersAdd
<1>8. 2 ^ 24 = 16777216
    BY <1>1, <1>4, <1>6, <1>7
<1> QED
    BY PowerOfNone, <1>3, <1>4, <1>5, <1>6, <1>8

\* A binary digit of a number, and whether it is negative does not matter.
Digit(number, i) == (number \div 2 ^ i) % 2

\* To divide by d * e, divide by d and then by e.
LEMMA DividedTwice ==
    ASSUME NEW a \in Int, NEW d \in Nat \ {0}, NEW e \in Nat \ {0}
    PROVE  (a \div d) \div e = a \div (d * e)
<1> DEFINE q == a \div d
           r == a % d
           h == q \div e
           s == q % e
<1>1. q \in Int /\ r \in 0..(d - 1) /\ a = d * q + r
    OBVIOUS
<1> HIDE DEF q, r
<1>2. h \in Int /\ s \in 0..(e - 1) /\ q = e * h + s
    BY <1>1
<1> HIDE DEF h, s
<1>3. d * e \in Nat \ {0}
    OBVIOUS
<1>4. d * s + r \in 0..(d * e - 1)
    <2>1. d * s >= 0 /\ d * s <= d * (e - 1)
        BY <1>2
    <2>2. d * (e - 1) = d * e - d
        OBVIOUS
    <2>3. d * s \in Int /\ d * e \in Int /\ d * (e - 1) \in Int
        BY <1>2
    <2> QED
        BY <1>1, <2>1, <2>2, <2>3
<1>5. a = (d * e) * h + (d * s + r)
    <2>1. d * (e * h + s) = (d * e) * h + d * s
        BY <1>2
    <2>2. d * s \in Int /\ (d * e) * h \in Int
        BY <1>2, <1>3
    <2> QED
        BY <1>1, <1>2, <2>1, <2>2
<1> DEFINE de == d * e
           rest == d * s + r
<1>6. de \in Nat \ {0} /\ rest \in 0..(de - 1) /\ a = de * h + rest
    BY <1>3, <1>4, <1>5
<1> HIDE DEF de, rest
<1>7. a \div de = h
    BY <1>2, <1>6, Division
<1> QED
    BY <1>3, <1>7 DEF de, h, q

\* A multiple of the divisor stays in front.
LEMMA DividedSum ==
    ASSUME NEW a \in Int, NEW q \in Int, NEW d \in Nat \ {0}
    PROVE  (a + d * q) \div d = (a \div d) + q
<1> DEFINE x == a \div d
           r == a % d
<1>1. x \in Int /\ r \in 0..(d - 1) /\ a = d * x + r
    OBVIOUS
<1> HIDE DEF x, r
<1>2. d * (x + q) = d * x + d * q
    BY <1>1
<1>3. d * x \in Int /\ d * q \in Int /\ d * (x + q) \in Int /\ x + q \in Int
    BY <1>1
<1>4. a + d * q = d * (x + q) + r
    BY <1>1, <1>2, <1>3
<1>5. (d * (x + q) + r) \div d = x + q
    BY <1>1, <1>3, Division
<1> QED
    BY <1>4, <1>5 DEF x

\* A digit is 0 or 1.
LEMMA DigitTyped ==
    ASSUME NEW a \in Int, NEW i \in Nat
    PROVE  Digit(a, i) \in 0..1 /\ a \div 2 ^ i \in Int
<1>1. 2 ^ i \in Nat \ {0}
    BY PowerDoubles
<1>2. a \div 2 ^ i \in Int
    BY <1>1
<1> QED
    BY <1>2 DEF Digit

\* The digits above a place, shifted down.
LEMMA DigitOfShifted ==
    ASSUME NEW a \in Int, NEW i \in Nat, NEW j \in Nat
    PROVE  Digit(a \div 2 ^ i, j) = Digit(a, i + j)
<1>1. 2 ^ i \in Nat \ {0} /\ 2 ^ j \in Nat \ {0} /\ 2 ^ (i + j) = 2 ^ i * 2 ^ j
    BY PowerDoubles, PowersAdd
<1> DEFINE p == 2 ^ i
           r == 2 ^ j
<1>2. p \in Nat \ {0} /\ r \in Nat \ {0} /\ 2 ^ (i + j) = p * r
    BY <1>1
<1> HIDE DEF p, r
<1>3. (a \div p) \div r = a \div (p * r)
    BY <1>2, DividedTwice
<1>4. (a \div p) \div r = a \div 2 ^ (i + j)
    BY <1>2, <1>3
<1> QED
    BY <1>4 DEF Digit, p, r

\* What is added at a higher place leaves a digit alone.
LEMMA DigitBelow ==
    ASSUME NEW a \in Int, NEW q \in Int, NEW i \in Nat, NEW j \in Nat, i < j
    PROVE  Digit(a + 2 ^ j * q, i) = Digit(a, i)
<1> DEFINE p == 2 ^ i
           m == 2 ^ (j - i - 1)
<1>1. j - i - 1 \in Nat /\ (j - i - 1) + 1 = j - i /\ i + (j - i) = j /\ j - i \in Nat
    OBVIOUS
<1>2. p \in Nat \ {0} /\ m \in Nat \ {0} /\ 2 ^ (j - i) = 2 * m /\ 2 ^ j = p * (2 * m)
    <2>1. p \in Nat \ {0} /\ m \in Nat \ {0}
        BY <1>1, PowerDoubles
    <2>2. 2 ^ ((j - i - 1) + 1) = 2 * m
        BY <1>1, PowerDoubles
    <2>3. 2 ^ (i + (j - i)) = p * 2 ^ (j - i)
        BY <1>1, PowersAdd
    <2> QED
        BY <1>1, <2>1, <2>2, <2>3
<1>3. (p * (2 * m)) * q = p * (2 * (m * q)) /\ m * q \in Int
    BY <1>2
<1> HIDE DEF p, m
<1> DEFINE z == 2 * (m * q)
<1>4. z \in Int
    BY <1>3
<1> HIDE DEF z
<1>5. (a + p * z) \div p = (a \div p) + z
    BY <1>2, <1>4, DividedSum
<1>6. (a + p * (2 * (m * q))) \div p = (a \div p) + 2 * (m * q)
    BY <1>5 DEF z
<1> DEFINE x == a \div p
           y == m * q
<1>7. x \in Int /\ y \in Int
    BY <1>2, <1>3
<1>8. (x + 2 * y) % 2 = x % 2
    BY <1>7
<1>9. ((a + p * (2 * (m * q))) \div p) % 2 = (a \div p) % 2
    BY <1>6, <1>8
<1> QED
    BY <1>2, <1>3, <1>9 DEF Digit, p

\* A number with the digit at a place toggled.
Toggled(a, e) == IF Digit(a, e) = 1 THEN a - 2 ^ e ELSE a + 2 ^ e

\* No other digit changes.
LEMMA ToggledDigits ==
    ASSUME NEW a \in Int, NEW e \in Nat
    PROVE  /\ Toggled(a, e) \in Int
           /\ \A i \in Nat : i > e => Toggled(a, e) \div 2 ^ i = a \div 2 ^ i
           /\ \A i \in Nat : Digit(Toggled(a, e), i) = IF i = e THEN 1 - Digit(a, i)
                                                       ELSE Digit(a, i)
<1> DEFINE p == 2 ^ e
           x == Digit(a, e)
           s == 1 - 2 * x
           b == Toggled(a, e)
<1>1. p \in Nat \ {0} /\ x \in 0..1 /\ s \in Int /\ a \div p \in Int
    BY PowerDoubles, DigitTyped
<1>2. b = a + p * s
    <2>1. CASE x = 1
        BY <1>1, <2>1 DEF Toggled
    <2>2. CASE x = 0
        BY <1>1, <2>2 DEF Toggled
    <2> QED
        BY <1>1, <2>1, <2>2
<1>3. b \in Int
    BY <1>1, <1>2
<1>4. b \div p = (a \div p) + s
    BY <1>1, <1>2, DividedSum
<1>5. x = (a \div p) % 2
    BY DEF Digit
<1>6. ((a \div p) + s) % 2 = 1 - x /\ ((a \div p) + s) \div 2 = (a \div p) \div 2
    <2> DEFINE y == a \div p
               h == y \div 2
    <2>1. h \in Int /\ y = 2 * h + x
        BY <1>1, <1>5
    <2> HIDE DEF h, y, x
    <2>2. y + s = 2 * h + (1 - x) /\ 1 - x \in 0..1
        BY <1>1, <2>1
    <2>3. (2 * h + (1 - x)) % 2 = 1 - x /\ (2 * h + (1 - x)) \div 2 = h
        BY <2>1, <2>2
    <2>4. h = y \div 2
        BY DEF h
    <2> QED
        BY <2>2, <2>3, <2>4 DEF y
<1>7. Digit(b, e) = 1 - x
    BY <1>4, <1>6 DEF Digit
<1>8. ASSUME NEW i \in Nat, i < e PROVE Digit(b, i) = Digit(a, i)
    BY <1>1, <1>2, <1>8, DigitBelow
<1>9. ASSUME NEW i \in Nat, i > e PROVE b \div 2 ^ i = a \div 2 ^ i
    <2> DEFINE u == 2 ^ (e + 1)
               w == 2 ^ (i - (e + 1))
    <2>1. u = p * 2 /\ e + 1 \in Nat /\ i - (e + 1) \in Nat /\ (e + 1) + (i - (e + 1)) = i
        BY <1>1, <1>9, PowerDoubles
    <2>2. b \div (p * 2) = a \div (p * 2)
        <3>1. (a \div p) \div 2 = a \div (p * 2)
            BY <1>1, DividedTwice
        <3>2. (b \div p) \div 2 = b \div (p * 2)
            BY <1>1, <1>3, DividedTwice
        <3> QED
            BY <1>4, <1>6, <3>1, <3>2
    <2>3. u \in Nat \ {0} /\ w \in Nat \ {0}
        BY <2>1, PowerDoubles
    <2>4. 2 ^ ((e + 1) + (i - (e + 1))) = u * w
        BY <2>1, PowersAdd
    <2>5. 2 ^ i = u * w /\ b \div u = a \div u
        BY <2>1, <2>2, <2>4
    <2> HIDE DEF b, p, u, w
    <2>6. (b \div u) \div w = b \div (u * w)
        BY <1>3, <2>3, DividedTwice
    <2>7. (a \div u) \div w = a \div (u * w)
        BY <2>3, DividedTwice
    <2> QED
        BY <2>5, <2>6, <2>7
<1> HIDE DEF b, x
<1>10. ASSUME NEW i \in Nat
       PROVE  Digit(b, i) = IF i = e THEN 1 - Digit(a, i) ELSE Digit(a, i)
    <2>1. i < e \/ i > e \/ i = e
        OBVIOUS
    <2> QED
        BY <2>1, <1>7, <1>8, <1>9 DEF x, Digit
<1> QED
    BY <1>3, <1>9, <1>10 DEF b

\* A number of n digits still has n when one of them is toggled.
LEMMA ToggledTyped ==
    ASSUME NEW c \in Nat, NEW e \in Nat, NEW n \in Nat, e < n, c < 2 ^ n
    PROVE  Toggled(c, e) \in Nat /\ Toggled(c, e) < 2 ^ n
<1> DEFINE p == 2 ^ n
           b == Toggled(c, e)
<1>1. p \in Nat \ {0} /\ c \in Int /\ c < p
    BY PowerDoubles
<1>2. b \in Int /\ b \div 2 ^ n = c \div 2 ^ n
    <2>1. c \in Int /\ n > e
        OBVIOUS
    <2>2. Toggled(c, e) \in Int /\ \A i \in Nat : i > e => Toggled(c, e) \div 2 ^ i = c \div 2 ^ i
        BY <2>1, ToggledDigits
    <2> QED
        BY <2>1, <2>2
<1>3. b \div p = c \div p
    BY <1>2
<1> HIDE DEF p, b
<1>4. c \div p = 0
    <2>1. c \in 0..(p - 1) /\ c = p * 0 + c
        BY <1>1
    <2>2. (p * 0 + c) \div p = 0
        BY <1>1, <2>1, Division
    <2> QED
        BY <2>1, <2>2
<1>5. b = p * (b \div p) + (b % p) /\ b % p \in 0..(p - 1)
    BY <1>1, <1>2
<1>6. p * (b \div p) = 0
    BY <1>1, <1>3, <1>4
<1>7. b \in Nat /\ b < p
    BY <1>1, <1>2, <1>5, <1>6
<1> QED
    BY <1>7 DEF b, p

-----------------------------------------------------------------------------
(* Codecs: the CRC register, digit by digit *)

\* What moves to a place when the register shifts.
Moved(c, i) == IF i = 0 THEN 0 ELSE Digit(c, i - 1)

\* Words in numbers
LEMMA WordMeans ==
    /\ \A x : x \in Word(1) <=> x \in Nat /\ x < 256
    /\ \A x : x \in Word(2) <=> x \in Nat /\ x < 65536
<1>1. \A x : x \in Word(1) <=> x \in 0..(2 ^ 8 - 1)
    BY DEF Word
<1>2. \A x : x \in Word(2) <=> x \in 0..(2 ^ 16 - 1)
    BY DEF Word
<1>3. \A n \in Nat : \A x : x \in 0..(n - 1) <=> x \in Nat /\ x < n
    OBVIOUS
<1>4. 2 ^ 8 \in Nat /\ 2 ^ 16 \in Nat
    BY PowerDoubles
<1>5. \A x : x \in Word(1) <=> x \in Nat /\ x < 2 ^ 8
    BY <1>1, <1>3, <1>4
<1>6. \A x : x \in Word(2) <=> x \in Nat /\ x < 2 ^ 16
    BY <1>2, <1>3, <1>4
<1> QED
    BY <1>5, <1>6, Powers

\* To double a number and drop the carry, drop its top digit and double.
LEMMA Wrapped ==
    ASSUME NEW q \in Nat \ {0}, NEW c \in Nat, c < 2 * q
    PROVE  /\ c \div q \in 0..1 /\ c % q \in Nat /\ c % q < q
           /\ c = (c % q) + q * (c \div q)
           /\ (2 * c) % (2 * q) = 2 * (c % q)
<1> DEFINE top == c \div q
           low == c % q
<1>1. top \in Int /\ low \in 0..(q - 1) /\ c = q * top + low
    OBVIOUS
<1> HIDE DEF top, low
<1>2. top \in 0..1
    <2>1. top >= 2 => q * top >= 2 * q
        BY <1>1
    <2>2. top <= -1 => q * top <= -q
        BY <1>1
    <2>3. q * top \in Int
        BY <1>1
    <2> QED
        BY <1>1, <2>1, <2>2, <2>3
<1> DEFINE qq == 2 * q
           ll == 2 * low
<1>3. 2 * c = qq * top + ll
    BY <1>1, <1>2
<1>4. qq \in Nat \ {0} /\ ll \in 0..(qq - 1)
    BY <1>1
<1> HIDE DEF qq, ll
<1>5. (qq * top + ll) % qq = ll
    BY <1>1, <1>4, Division
<1>6. (2 * c) % (2 * q) = 2 * low
    BY <1>3, <1>5 DEF qq, ll
<1> QED
    BY <1>1, <1>2, <1>6 DEF top, low

\* A register that shifts left: each digit moves to the next place, the top one leaves.
LEMMA Shifted ==
    ASSUME NEW c \in Word(2)
    PROVE  /\ (2 * c) % 65536 \in Word(2) /\ c \div 32768 = Digit(c, 15)
           /\ \A i \in 0..15 : Digit((2 * c) % 65536, i) = Moved(c, i)
<1> DEFINE q == 2 ^ 15
           low == c % q
           top == c \div q
<1>1. q \in Nat \ {0} /\ c \in Nat /\ 2 * q = 65536 /\ q = 32768 /\ c < 2 * q
    BY Powers, WordMeans
<1> HIDE DEF q
<1>2. top \in 0..1 /\ low \in Nat /\ low < q /\ c = low + q * top
      /\ (2 * c) % (2 * q) = 2 * low
    BY <1>1, Wrapped
<1>3. top = Digit(c, 15)
    <2>1. top % 2 = top
        BY <1>2
    <2>2. top = c \div 2 ^ 15
        BY DEF q
    <2> QED
        BY <2>1, <2>2 DEF Digit
<1>4. top = c \div 32768 /\ (2 * c) % 65536 = 2 * low
    BY <1>1, <1>2
<1>5. 2 * low \in Word(2)
    BY <1>1, <1>2, WordMeans
<1> HIDE DEF low, top
<1>6. Digit(2 * low, 0) = 0
    <2>1. (2 * low) % 2 = 0 /\ (2 * low) \div 1 = 2 * low
        BY <1>2
    <2> QED
        BY <2>1, PowerOfNone DEF Digit
<1>7. ASSUME NEW i \in 1..15 PROVE Digit(2 * low, i) = Digit(c, i - 1)
    <2> DEFINE j == 15
               one == 1
    <2>1. i - 1 \in Nat /\ i - 1 < j /\ j \in Nat /\ one \in Nat /\ one + (i - 1) = i
        OBVIOUS
    <2>2. q = 2 ^ j /\ 2 ^ one = 2
        BY Powers DEF q
    <2> HIDE DEF j, one
    <2>3. low \in Int /\ top \in Int /\ 2 * low \in Int
        BY <1>2
    <2>4. Digit(low + 2 ^ j * top, i - 1) = Digit(low, i - 1)
        BY <2>1, <2>3, DigitBelow
    <2>5. Digit((2 * low) \div 2 ^ one, i - 1) = Digit(2 * low, one + (i - 1))
        BY <2>1, <2>3, DigitOfShifted
    <2>6. (2 * low) \div 2 = low
        BY <1>2
    <2> QED
        BY <1>2, <2>1, <2>2, <2>4, <2>5, <2>6
<1>8. \A i \in 0..15 : Digit(2 * low, i) = Moved(c, i)
    <2> SUFFICES ASSUME NEW i \in 0..15 PROVE Digit(2 * low, i) = Moved(c, i)
        OBVIOUS
    <2>1. i = 0 \/ i \in 1..15
        OBVIOUS
    <2> QED
        BY <2>1, <1>6, <1>7 DEF Moved
<1> QED
    BY <1>3, <1>4, <1>5, <1>8

\* The register after a shift, digit by digit.
LEMMA ShiftInDigits ==
    ASSUME NEW c \in Word(2), NEW bit \in 0..1
    PROVE  /\ ShiftIn(c, bit) \in Word(2)
           /\ \A i \in 0..15 :
                 Digit(ShiftIn(c, bit), i) =
                     IF Digit(c, 15) # bit /\ i \in {0, 5, 12} THEN 1 - Moved(c, i)
                     ELSE Moved(c, i)
<1> DEFINE s == (2 * c) % 65536
           x == Toggled(s, 0)
           y == Toggled(x, 5)
           z == Toggled(y, 12)
<1>1. s \in Word(2) /\ c \div 32768 = Digit(c, 15) /\ Digit(c, 15) \in 0..1
      /\ \A i \in 0..15 : Digit(s, i) = Moved(c, i)
    <2>1. c \in Int /\ 15 \in Nat
        BY WordMeans
    <2>2. Digit(c, 15) \in 0..1
        BY <2>1, DigitTyped
    <2> QED
        BY <2>2, Shifted
<1>2. (c \div 32768 + bit) % 2 = 0 <=> Digit(c, 15) = bit
    BY <1>1
<1>3. CASE Digit(c, 15) = bit
    <2>1. ShiftIn(c, bit) = s
        BY <1>2, <1>3 DEF ShiftIn
    <2> QED
        BY <1>1, <1>3, <2>1
<1>4. CASE Digit(c, 15) # bit
    <2> DEFINE n == 16
    <2>1. 2 ^ n = 65536 /\ n \in Nat /\ 0 \in Nat /\ 5 \in Nat /\ 12 \in Nat
          /\ 0 < n /\ 5 < n /\ 12 < n
        BY Powers
    <2> HIDE DEF n
    <2>2. x \in Word(2)
        <3>1. s \in Nat /\ s < 2 ^ n
            BY <1>1, <2>1, WordMeans
        <3>2. x \in Nat /\ x < 2 ^ n
            BY <2>1, <3>1, ToggledTyped
        <3> QED
            BY <2>1, <3>2, WordMeans
    <2>3. y \in Word(2)
        <3>1. x \in Nat /\ x < 2 ^ n
            BY <2>2, <2>1, WordMeans
        <3>2. y \in Nat /\ y < 2 ^ n
            BY <2>1, <3>1, ToggledTyped
        <3> QED
            BY <2>1, <3>2, WordMeans
    <2>4. z \in Word(2)
        <3>1. y \in Nat /\ y < 2 ^ n
            BY <2>3, <2>1, WordMeans
        <3>2. z \in Nat /\ z < 2 ^ n
            BY <2>1, <3>1, ToggledTyped
        <3> QED
            BY <2>1, <3>2, WordMeans
    <2>5. s \in Int /\ x \in Int /\ y \in Int
        BY <1>1, <2>2, <2>3, WordMeans
    <2> HIDE DEF s, x, y, z
    <2>6. \A i \in Nat : Digit(x, i) = IF i = 0 THEN 1 - Digit(s, i) ELSE Digit(s, i)
        BY <2>1, <2>5, ToggledDigits DEF x
    <2>7. \A i \in Nat : Digit(y, i) = IF i = 5 THEN 1 - Digit(x, i) ELSE Digit(x, i)
        BY <2>1, <2>5, ToggledDigits DEF y
    <2>8. \A i \in Nat : Digit(z, i) = IF i = 12 THEN 1 - Digit(y, i) ELSE Digit(y, i)
        <3>1. 12 \in Nat
            OBVIOUS
        <3> QED
            BY <2>5, <3>1, ToggledDigits DEF z
    <2>9. Digit(s, 0) = 0
        BY <1>1 DEF Moved
    <2>10. Digit(x, 5) = Digit(s, 5) /\ Digit(y, 12) = Digit(s, 12)
        BY <2>6, <2>7
    <2>11. x = s + 1
        BY <2>9, Powers DEF x, Toggled
    <2>12. y = s + 1 + (IF Digit(s, 5) = 1 THEN -32 ELSE 32)
        BY <2>5, <2>10, <2>11, Powers DEF y, Toggled
    <2>13. z = s + 1 + (IF Digit(s, 5) = 1 THEN -32 ELSE 32)
                 + (IF Digit(s, 12) = 1 THEN -4096 ELSE 4096)
        BY <2>5, <2>10, <2>12, Powers DEF z, Toggled
    <2>14. /\ Digit(s, 5) = (s \div 32) % 2
           /\ Digit(s, 12) = (s \div 4096) % 2
        BY Powers DEF Digit
    <2>15. ShiftIn(c, bit) = z
        BY <1>2, <1>4, <2>13, <2>14 DEF ShiftIn, s
    <2>16. ASSUME NEW i \in 0..15
           PROVE  Digit(z, i) = IF i \in {0, 5, 12} THEN 1 - Moved(c, i) ELSE Moved(c, i)
        BY <1>1, <2>6, <2>7, <2>8
    <2> QED
        BY <1>4, <2>4, <2>15, <2>16
<1> QED
    BY <1>3, <1>4

\* The digits in which two registers differ.
Apart(c, d) == {i \in 0..15 : Digit(c, i) # Digit(d, i)}

\* Differences between two registers, as the set of the places where they differ.
\* A shift moves them up,
Up(S) == {i \in 1..15 : i - 1 \in S}

\* With the polynomial added at its places
Fed(S) == (Up(S) \ {0, 5, 12}) \cup ({0, 5, 12} \ Up(S))

\* What two registers differ in moves up when both take in a bit, and the
\* polynomial goes to one of them if their top digits differ, or else the bits.
Same(S) == IF 15 \in S THEN Fed(S) ELSE Up(S)
Hit(S) == IF 15 \in S THEN Up(S) ELSE Fed(S)

\* What two registers differ in after a shift is determined by what they
\* differed in before it, and by whether the bits that came in are the same.
LEMMA ApartAfterShift ==
    ASSUME NEW c \in Word(2), NEW d \in Word(2), NEW a \in 0..1, NEW b \in 0..1
    PROVE  Apart(ShiftIn(c, a), ShiftIn(d, b)) =
              IF a = b THEN Same(Apart(c, d)) ELSE Hit(Apart(c, d))
<1> DEFINE cc == ShiftIn(c, a)
           dd == ShiftIn(d, b)
           S == Apart(c, d)
<1>1. \A i \in 0..15 : Digit(c, i) \in 0..1 /\ Digit(d, i) \in 0..1
    <2>1. c \in Int /\ d \in Int /\ 0..15 \subseteq Nat
        BY WordMeans
    <2> QED
        BY <2>1, DigitTyped
<1>2. \A i \in 0..15 : Digit(cc, i) = IF Digit(c, 15) # a /\ i \in {0, 5, 12}
                                      THEN 1 - Moved(c, i) ELSE Moved(c, i)
    BY ShiftInDigits
<1>3. \A i \in 0..15 : Digit(dd, i) = IF Digit(d, 15) # b /\ i \in {0, 5, 12}
                                      THEN 1 - Moved(d, i) ELSE Moved(d, i)
    BY ShiftInDigits
<1>4. \A i \in 0..15 : /\ Moved(c, i) \in 0..1 /\ Moved(d, i) \in 0..1
                       /\ Moved(c, i) # Moved(d, i) <=> i \in Up(S)
    <2> SUFFICES ASSUME NEW i \in 0..15
                 PROVE  /\ Moved(c, i) \in 0..1 /\ Moved(d, i) \in 0..1
                        /\ Moved(c, i) # Moved(d, i) <=> i \in Up(S)
        OBVIOUS
    <2>1. CASE i = 0
        BY <2>1 DEF Moved, Up
    <2>2. CASE i # 0
        <3>1. i \in 1..15 /\ i - 1 \in 0..15
            BY <2>2
        <3> QED
            BY <1>1, <2>2, <3>1 DEF Moved, Up, Apart
    <2> QED
        BY <2>1, <2>2
<1>5. 15 \in S <=> Digit(c, 15) # Digit(d, 15)
    BY DEF Apart
<1>6. Digit(c, 15) \in 0..1 /\ Digit(d, 15) \in 0..1
    BY <1>1
<1>7. (15 \in S) = (a = b) <=> ((Digit(c, 15) # a) # (Digit(d, 15) # b))
    BY <1>5, <1>6
<1> HIDE DEF cc, dd, S
<1>8. \A i \in 0..15 : i \in Apart(cc, dd) <=>
          IF (15 \in S) = (a = b) /\ i \in {0, 5, 12} THEN i \notin Up(S) ELSE i \in Up(S)
    <2> SUFFICES ASSUME NEW i \in 0..15
                 PROVE  Digit(cc, i) # Digit(dd, i) <=>
                          IF (15 \in S) = (a = b) /\ i \in {0, 5, 12} THEN i \notin Up(S)
                          ELSE i \in Up(S)
        BY DEF Apart
    <2>1. /\ Moved(c, i) \in 0..1 /\ Moved(d, i) \in 0..1
          /\ Moved(c, i) # Moved(d, i) <=> i \in Up(S)
        BY <1>4
    <2>2. /\ Digit(cc, i) = IF Digit(c, 15) # a /\ i \in {0, 5, 12}
                            THEN 1 - Moved(c, i) ELSE Moved(c, i)
          /\ Digit(dd, i) = IF Digit(d, 15) # b /\ i \in {0, 5, 12}
                            THEN 1 - Moved(d, i) ELSE Moved(d, i)
        BY <1>2, <1>3
    <2>3. CASE i \in {0, 5, 12}
        BY <1>7, <2>1, <2>2, <2>3
    <2>4. CASE i \notin {0, 5, 12}
        BY <2>1, <2>2, <2>4
    <2> QED
        BY <2>3, <2>4
<1>9. Apart(cc, dd) \subseteq 0..15 /\ Up(S) \subseteq 0..15 /\ {0, 5, 12} \subseteq 0..15
    BY DEF Apart, Up
<1> QED
    BY <1>8, <1>9 DEF cc, dd, S, Same, Hit, Fed

-----------------------------------------------------------------------------
(* Codecs: the CRC as a run over the bits of a frame *)

\* A function that starts at a value and goes on by a step exists.
Goes(f, S, N, base, G) ==
    f \in [0..N -> S] /\ f[0] = base /\ \A n \in 1..N : f[n] = G[n][f[n - 1]]

\* By induction on N, without a recursive definition.
LEMMA RunExists ==
    ASSUME NEW S, NEW N \in Nat, NEW base \in S, NEW G \in [1..N -> [S -> S]]
    PROVE  \E f : Goes(f, S, N, base, G)
<1> DEFINE Upto(f, k) == /\ f \in [0..N -> S] /\ f[0] = base
                         /\ \A n \in 1..N : n <= k => f[n] = G[n][f[n - 1]]
           T == {k \in Nat : \E f : Upto(f, k)}
<1>1. 0 \in T
    <2>1. Upto([n \in 0..N |-> base], 0)
        OBVIOUS
    <2> QED
        BY <2>1
<1>2. ASSUME NEW k \in Nat, k \in T PROVE k + 1 \in T
    <2>1. PICK f : Upto(f, k)
        BY <1>2
    <2>2. CASE k + 1 \in 1..N
        <3> DEFINE x == G[k + 1][f[k]]
                   h == [f EXCEPT ![k + 1] = x]
        <3>1. x \in S
            <4>1. k \in 0..N /\ f[k] \in S /\ G[k + 1] \in [S -> S]
                BY <2>1, <2>2
            <4> QED
                BY <4>1
        <3> HIDE DEF x
        <3>2. h \in [0..N -> S] /\ h[0] = base
            BY <2>1, <2>2, <3>1
        <3>3. h[k + 1] = x /\ h[k] = f[k]
            BY <2>1, <2>2
        <3>4. ASSUME NEW n \in 1..N, n <= k + 1 PROVE h[n] = G[n][h[n - 1]]
            <4>1. CASE n = k + 1
                BY <3>3, <4>1 DEF x
            <4>2. CASE n <= k
                <5>1. h[n] = f[n] /\ h[n - 1] = f[n - 1]
                    BY <2>1, <4>2
                <5> QED
                    BY <2>1, <4>2, <5>1
            <4> QED
                BY <3>4, <4>1, <4>2
        <3> HIDE DEF h
        <3>5. Upto(h, k + 1)
            BY <3>2, <3>4
        <3> QED
            BY <3>5
    <2>3. CASE k + 1 \notin 1..N
        <3>1. \A n \in 1..N : n <= k + 1 => n <= k
            BY <2>3
        <3>2. Upto(f, k + 1)
            BY <2>1, <3>1
        <3> QED
            BY <3>2
    <2> QED
        BY <2>2, <2>3
<1> HIDE DEF T
<1>3. N \in T
    BY <1>1, <1>2, FromNextToNext
<1>4. PICK f : Upto(f, N)
    BY <1>3 DEF T
<1>5. Goes(f, S, N, base, G)
    BY <1>4 DEF Goes
<1> QED
    BY <1>5

\* What a byte does to the register is what its bits do, the highest first.
LEMMA ByteInRuns ==
    ASSUME NEW byte, NEW c \in Word(2), NEW r \in [0..8 -> Word(2)], r[0] = c,
           \A k \in 1..8 : r[k] = ShiftIn(r[k - 1], (byte \div 2 ^ (8 - k)) % 2)
    PROVE  ByteIn(byte)[c] = r[8]
<1> DEFINE Equation(a) ==
              a = [k \in 0..8 |-> IF k = 0 THEN c
                                  ELSE ShiftIn(a[k - 1], (byte \div 2 ^ (8 - k)) % 2)]
           after == CHOOSE a : Equation(a)
<1>1. Equation(r)
    <2> DEFINE e == [k \in 0..8 |-> IF k = 0 THEN c
                                    ELSE ShiftIn(r[k - 1], (byte \div 2 ^ (8 - k)) % 2)]
    <2>1. \A k \in 0..8 : e[k] = r[k]
        <3>1. \A k \in 0..8 : k = 0 \/ k \in 1..8
            OBVIOUS
        <3> QED
            BY <3>1
    <2>2. e = [k \in 0..8 |-> e[k]] /\ r = [k \in 0..8 |-> r[k]]
        OBVIOUS
    <2> HIDE DEF e
    <2>3. r = e
        BY <2>1, <2>2
    <2> QED
        BY <2>3 DEF e
<1>2. Equation(after)
    BY <1>1
<1> HIDE DEF after
<1>3. after[0] = r[0]
    BY <1>2
<1>4. \A k \in 1..8 : after[k] = ShiftIn(after[k - 1], (byte \div 2 ^ (8 - k)) % 2)
    <2> SUFFICES ASSUME NEW k \in 1..8
                 PROVE  after[k] = ShiftIn(after[k - 1], (byte \div 2 ^ (8 - k)) % 2)
        OBVIOUS
    <2>1. k \in 0..8 /\ k # 0
        OBVIOUS
    <2> QED
        BY <1>2, <2>1
<1>5. after[8] = r[8]
    <2> DEFINE T == {k \in Nat : k \in 0..8 => after[k] = r[k]}
    <2>1. 0 \in T
        BY <1>3
    <2>2. ASSUME NEW k \in Nat, k \in T PROVE k + 1 \in T
        <3>1. CASE k + 1 \in 1..8
            <4>1. (k + 1) - 1 = k /\ k \in 0..8
                BY <3>1
            <4> QED
                BY <1>4, <2>2, <3>1, <4>1
        <3>2. CASE k + 1 \notin 1..8
            BY <3>2
        <3> QED
            BY <3>1, <3>2
    <2> HIDE DEF T
    <2>3. 8 \in T
        BY <2>1, <2>2, FromNextToNext
    <2> QED
        BY <2>3 DEF T
<1>6. ByteIn(byte)[c] = after[8]
    BY DEF ByteIn, after
<1> QED
    BY <1>5, <1>6

\* Bit n of a frame is a digit of the byte it lies in.
Down(n) == (8 - (n % 8)) % 8

\* Its weight, and so the bit, are those of that digit.
LEMMA BitOfDigit ==
    ASSUME NEW data, NEW n \in Nat \ {0}, data[PlaceOf(n)] \in Word(1)
    PROVE  /\ Down(n) \in 0..7 /\ WeightOf(n) = 2 ^ Down(n)
           /\ BitOf(data, n) = Digit(data[PlaceOf(n)], Down(n))
           /\ BitOf(data, n) \in 0..1
<1>1. Down(n) \in 0..7
    BY DEF Down
<1>2. WeightOf(n) = 2 ^ Down(n)
    BY DEF WeightOf, Down
<1>3. BitOf(data, n) = Digit(data[PlaceOf(n)], Down(n))
    BY <1>2 DEF BitOf, Digit
<1>4. data[PlaceOf(n)] \in Int /\ Down(n) \in Nat
    BY <1>1, WordMeans
<1>5. BitOf(data, n) \in 0..1
    BY <1>3, <1>4, DigitTyped
<1> QED
    BY <1>1, <1>2, <1>3, <1>5

\* The bits of byte m + 1, the highest first.
LEMMA Places ==
    ASSUME NEW m \in Nat, NEW k \in 1..8
    PROVE  8 * m + k \in Nat \ {0} /\ PlaceOf(8 * m + k) = m + 1 /\ Down(8 * m + k) = 8 - k
<1>1. k \in {1, 2, 3, 4, 5, 6, 7, 8}
    OBVIOUS
<1>2. 8 * m + k \in Nat \ {0}
    OBVIOUS
<1>3. PlaceOf(8 * m + k) = m + 1
    BY DEF PlaceOf
<1>4. Down(8 * m + k) = 8 - k
    BY <1>1 DEF Down
<1> QED
    BY <1>2, <1>3, <1>4

\* Every bit lies in a byte, and no two bits in the same place of one.
LEMMA PlacesCover ==
    ASSUME NEW n \in Nat \ {0}
    PROVE  /\ PlaceOf(n) \in Nat \ {0} /\ n = 8 * PlaceOf(n) - Down(n) /\ Down(n) \in 0..7
           /\ \A s \in Nat : n <= 8 * s <=> PlaceOf(n) <= s
<1>1. PlaceOf(n) \in Nat \ {0}
    BY DEF PlaceOf
<1>2. Down(n) \in 0..7
    BY DEF Down
<1>3. n = 8 * PlaceOf(n) - Down(n)
    BY DEF PlaceOf, Down
<1>4. \A s \in Nat : n <= 8 * s <=> PlaceOf(n) <= s
    BY <1>1, <1>2, <1>3
<1> QED
    BY <1>1, <1>2, <1>3, <1>4

\* What travels on a link.
Bytes == Seq(Word(1))

\* The register after each of the first bits of a frame.
Run(r, data, last) ==
    /\ r \in [0..last -> Word(2)]
    /\ r[0] = 65535
    /\ \A n \in 1..last : r[n] = ShiftIn(r[n - 1], BitOf(data, n))

\* Every frame has a run.
LEMMA RunOfBits ==
    ASSUME NEW data, NEW last \in Nat, \A n \in 1..last : BitOf(data, n) \in 0..1
    PROVE  \E r : Run(r, data, last)
<1> DEFINE G == [n \in 1..last |-> [c \in Word(2) |-> ShiftIn(c, BitOf(data, n))]]
           base == 65535
<1>1. base \in Word(2)
    BY WordMeans
<1> HIDE DEF base
<1>2. \A n \in 1..last : \A c \in Word(2) : ShiftIn(c, BitOf(data, n)) \in Word(2)
    BY ShiftInDigits
<1>3. G \in [1..last -> [Word(2) -> Word(2)]]
    BY <1>2
<1>4. \A n \in 1..last : \A c \in Word(2) : G[n][c] = ShiftIn(c, BitOf(data, n))
    OBVIOUS
<1> HIDE DEF G
<1>5. PICK r : Goes(r, Word(2), last, base, G)
    BY <1>1, <1>3, RunExists
<1>6. \A n \in 1..last : r[n] = ShiftIn(r[n - 1], BitOf(data, n))
    <2> SUFFICES ASSUME NEW n \in 1..last PROVE r[n] = ShiftIn(r[n - 1], BitOf(data, n))
        OBVIOUS
    <2>1. n - 1 \in 0..last
        OBVIOUS
    <2>2. r[n - 1] \in Word(2)
        BY <1>5, <2>1 DEF Goes
    <2> QED
        BY <1>4, <1>5, <2>2 DEF Goes
<1>7. Run(r, data, last)
    BY <1>5, <1>6 DEF Run, base, Goes
<1> QED
    BY <1>7

\* The CRC of a frame's first bytes is where the run over their bits ends.
LEMMA CrcIsRun ==
    ASSUME NEW data \in Bytes, NEW size \in Nat, size <= Len(data),
           NEW r, Run(r, data, 8 * size)
    PROVE  Crc16(data, size) = r[8 * size]
<1> DEFINE base == 65535
           Equation(t) ==
              t = [n \in 0..size |-> IF n = 0 THEN base ELSE ByteIn(data[n])[t[n - 1]]]
           through == CHOOSE t : Equation(t)
           ends == [n \in 0..size |-> r[8 * n]]
<1>1. \A n \in 1..size : data[n] \in Word(1)
    BY DEF Bytes
<1>2. ASSUME NEW n \in 1..size
      PROVE  r[8 * n] = ByteIn(data[n])[r[8 * (n - 1)]]
    <2> DEFINE m == n - 1
               byte == data[n]
               part == [k \in 0..8 |-> r[8 * m + k]]
    <2>1. m \in Nat /\ m + 1 = n /\ 8 * m + 8 = 8 * n /\ 8 * n <= 8 * size
        OBVIOUS
    <2>2. \A k \in 0..8 : 8 * m + k \in 0..(8 * size)
        BY <2>1
    <2>3. part \in [0..8 -> Word(2)]
        BY <2>2 DEF Run
    <2>4. ASSUME NEW k \in 1..8
          PROVE  part[k] = ShiftIn(part[k - 1], (byte \div 2 ^ (8 - k)) % 2)
        <3>1. 8 * m + k \in 1..(8 * size) /\ (8 * m + k) - 1 = 8 * m + (k - 1)
            BY <2>1
        <3>2. r[8 * m + k] = ShiftIn(r[8 * m + (k - 1)], BitOf(data, 8 * m + k))
            BY <3>1 DEF Run
        <3>3. PlaceOf(8 * m + k) = n /\ Down(8 * m + k) = 8 - k /\ 8 * m + k \in Nat \ {0}
            BY <2>1, Places
        <3>4. BitOf(data, 8 * m + k) = Digit(byte, 8 - k)
            BY <1>1, <3>3, BitOfDigit
        <3>5. BitOf(data, 8 * m + k) = (byte \div 2 ^ (8 - k)) % 2
            BY <3>4 DEF Digit
        <3>6. part[k] = r[8 * m + k] /\ part[k - 1] = r[8 * m + (k - 1)]
            OBVIOUS
        <3> HIDE DEF part, byte, m
        <3> QED
            BY <3>2, <3>5, <3>6
    <2>5. part[0] = r[8 * m] /\ part[8] = r[8 * n] /\ part[0] \in Word(2)
        BY <2>1, <2>3
    <2> HIDE DEF part, byte
    <2>6. ByteIn(byte)[r[8 * m]] = part[8]
        BY <2>3, <2>4, <2>5, ByteInRuns
    <2> QED
        BY <2>5, <2>6 DEF byte
<1>3. Equation(ends)
    <2> DEFINE e == [n \in 0..size |-> IF n = 0 THEN base ELSE ByteIn(data[n])[ends[n - 1]]]
    <2>1. \A n \in 0..size : ends[n] = e[n]
        <3> SUFFICES ASSUME NEW n \in 0..size PROVE ends[n] = e[n]
            OBVIOUS
        <3>1. CASE n = 0
            BY <3>1 DEF Run
        <3>2. CASE n \in 1..size
            <4>1. ends[n - 1] = r[8 * (n - 1)] /\ ends[n] = r[8 * n]
                BY <3>2
            <4>2. e[n] = ByteIn(data[n])[ends[n - 1]]
                BY <3>2
            <4> HIDE DEF e, ends
            <4> QED
                BY <1>2, <3>2, <4>1, <4>2
        <3> QED
            BY <3>1, <3>2
    <2>2. e = [n \in 0..size |-> e[n]] /\ ends = [n \in 0..size |-> ends[n]]
        OBVIOUS
    <2> HIDE DEF e, ends
    <2>3. ends = e
        BY <2>1, <2>2
    <2> QED
        BY <2>3 DEF e
<1>4. Equation(through)
    <2> HIDE DEF ends, base
    <2> QED
        BY <1>3
<1> HIDE DEF through
<1>5. \A n \in 1..size : through[n] = ByteIn(data[n])[through[n - 1]]
    <2> SUFFICES ASSUME NEW n \in 1..size PROVE through[n] = ByteIn(data[n])[through[n - 1]]
        OBVIOUS
    <2>1. n \in 0..size /\ n # 0
        OBVIOUS
    <2> QED
        BY <1>4, <2>1
<1>6. through[size] = r[8 * size]
    <2> DEFINE T == {n \in Nat : n \in 0..size => through[n] = r[8 * n]}
    <2>1. 0 \in T
        <3>1. through[0] = 65535
            BY <1>4
        <3>2. r[8 * 0] = 65535
            BY DEF Run
        <3> QED
            BY <3>1, <3>2
    <2>2. ASSUME NEW n \in Nat, n \in T PROVE n + 1 \in T
        <3>1. CASE n + 1 \in 1..size
            <4>1. (n + 1) - 1 = n /\ n \in 0..size
                BY <3>1
            <4>2. r[8 * (n + 1)] = ByteIn(data[n + 1])[r[8 * ((n + 1) - 1)]]
                BY <1>2, <3>1
            <4>3. through[n + 1] = ByteIn(data[n + 1])[through[(n + 1) - 1]]
                BY <1>5, <3>1
            <4>4. through[n] = r[8 * n]
                BY <2>2, <4>1
            <4> QED
                BY <4>1, <4>2, <4>3, <4>4
        <3>2. CASE n + 1 \notin 1..size
            BY <3>2
        <3> QED
            BY <3>1, <3>2
    <2> HIDE DEF T
    <2>3. size \in T
        BY <2>1, <2>2, FromNextToNext
    <2> QED
        BY <2>3 DEF T
<1>7. Crc16(data, size) = through[size]
    BY DEF Crc16, through
<1> QED
    BY <1>6, <1>7

\* And so the CRC of a frame is where some run over its bits ends.
LEMMA CrcRuns ==
    ASSUME NEW data \in Bytes, NEW size \in Nat, size <= Len(data)
    PROVE  \E r : Run(r, data, 8 * size) /\ Crc16(data, size) = r[8 * size]
<1>1. \A n \in 1..(8 * size) : BitOf(data, n) \in 0..1
    <2> SUFFICES ASSUME NEW n \in 1..(8 * size) PROVE BitOf(data, n) \in 0..1
        OBVIOUS
    <2>1. n \in Nat \ {0} /\ n <= 8 * size
        OBVIOUS
    <2>2. PlaceOf(n) \in 1..Len(data)
        <3>1. PlaceOf(n) \in Nat \ {0} /\ PlaceOf(n) <= size
            BY <2>1, PlacesCover
        <3>2. Len(data) \in Nat
            BY DEF Bytes
        <3> QED
            BY <3>1, <3>2
    <2>3. data[PlaceOf(n)] \in Word(1)
        BY <2>2 DEF Bytes
    <2> QED
        BY <2>1, <2>3, BitOfDigit
<1>2. PICK r : Run(r, data, 8 * size)
    BY <1>1, RunOfBits
<1> QED
    BY <1>2, CrcIsRun

-----------------------------------------------------------------------------
(* Codecs: what the registers of two frames differ in *)

\* What the registers of two frames that differ in one bit differ in, after
\* that bit and after each of the next fourteen.
Pattern ==
    <<{0, 5, 12}, {1, 6, 13}, {2, 7, 14}, {3, 8, 15}, {0, 4, 5, 9, 12},
      {1, 5, 6, 10, 13}, {2, 6, 7, 11, 14}, {3, 7, 8, 12, 15},
      {0, 4, 5, 8, 9, 12, 13}, {1, 5, 6, 9, 10, 13, 14}, {2, 6, 7, 10, 11, 14, 15},
      {0, 3, 5, 7, 8, 11, 15}, {0, 1, 4, 5, 6, 8, 9}, {1, 2, 5, 6, 7, 9, 10},
      {2, 3, 6, 7, 8, 10, 11}>>

\* A hit leaves the polynomial,
LEMMA PatternStarts == Hit({}) = Pattern[1]
BY DEF Hit, Fed, Up, Pattern

\* and each of the next fourteen shifts goes on to the next entry.
LEMMA PatternGoesOn ==
    \A j \in 1..14 : Same(Pattern[j]) = Pattern[j + 1]
<1>1. /\ Pattern[1] = {0, 5, 12}
      /\ Pattern[2] = {1, 6, 13}
      /\ Pattern[3] = {2, 7, 14}
      /\ Pattern[4] = {3, 8, 15}
      /\ Pattern[5] = {0, 4, 5, 9, 12}
      /\ Pattern[6] = {1, 5, 6, 10, 13}
      /\ Pattern[7] = {2, 6, 7, 11, 14}
      /\ Pattern[8] = {3, 7, 8, 12, 15}
      /\ Pattern[9] = {0, 4, 5, 8, 9, 12, 13}
      /\ Pattern[10] = {1, 5, 6, 9, 10, 13, 14}
      /\ Pattern[11] = {2, 6, 7, 10, 11, 14, 15}
      /\ Pattern[12] = {0, 3, 5, 7, 8, 11, 15}
      /\ Pattern[13] = {0, 1, 4, 5, 6, 8, 9}
      /\ Pattern[14] = {1, 2, 5, 6, 7, 9, 10}
      /\ Pattern[15] = {2, 3, 6, 7, 8, 10, 11}
    BY DEF Pattern
<1>2. Same({0, 5, 12}) = {1, 6, 13}
    BY DEF Same, Fed, Up
<1>3. Same({1, 6, 13}) = {2, 7, 14}
    BY DEF Same, Fed, Up
<1>4. Same({2, 7, 14}) = {3, 8, 15}
    BY DEF Same, Fed, Up
<1>5. Same({3, 8, 15}) = {0, 4, 5, 9, 12}
    BY DEF Same, Fed, Up
<1>6. Same({0, 4, 5, 9, 12}) = {1, 5, 6, 10, 13}
    BY DEF Same, Fed, Up
<1>7. Same({1, 5, 6, 10, 13}) = {2, 6, 7, 11, 14}
    BY DEF Same, Fed, Up
<1>8. Same({2, 6, 7, 11, 14}) = {3, 7, 8, 12, 15}
    BY DEF Same, Fed, Up
<1>9. Same({3, 7, 8, 12, 15}) = {0, 4, 5, 8, 9, 12, 13}
    BY DEF Same, Fed, Up
<1>10. Same({0, 4, 5, 8, 9, 12, 13}) = {1, 5, 6, 9, 10, 13, 14}
    BY DEF Same, Fed, Up
<1>11. Same({1, 5, 6, 9, 10, 13, 14}) = {2, 6, 7, 10, 11, 14, 15}
    BY DEF Same, Fed, Up
<1>12. Same({2, 6, 7, 10, 11, 14, 15}) = {0, 3, 5, 7, 8, 11, 15}
    BY DEF Same, Fed, Up
<1>13. Same({0, 3, 5, 7, 8, 11, 15}) = {0, 1, 4, 5, 6, 8, 9}
    BY DEF Same, Fed, Up
<1>14. Same({0, 1, 4, 5, 6, 8, 9}) = {1, 2, 5, 6, 7, 9, 10}
    BY DEF Same, Fed, Up
<1>15. Same({1, 2, 5, 6, 7, 9, 10}) = {2, 3, 6, 7, 8, 10, 11}
    BY DEF Same, Fed, Up
<1>16. /\ Same(Pattern[1]) = Pattern[2]
       /\ Same(Pattern[2]) = Pattern[3]
       /\ Same(Pattern[3]) = Pattern[4]
       /\ Same(Pattern[4]) = Pattern[5]
       /\ Same(Pattern[5]) = Pattern[6]
       /\ Same(Pattern[6]) = Pattern[7]
       /\ Same(Pattern[7]) = Pattern[8]
       /\ Same(Pattern[8]) = Pattern[9]
       /\ Same(Pattern[9]) = Pattern[10]
       /\ Same(Pattern[10]) = Pattern[11]
       /\ Same(Pattern[11]) = Pattern[12]
       /\ Same(Pattern[12]) = Pattern[13]
       /\ Same(Pattern[13]) = Pattern[14]
       /\ Same(Pattern[14]) = Pattern[15]
    BY <1>1, <1>2, <1>3, <1>4, <1>5, <1>6, <1>7, <1>8, <1>9, <1>10, <1>11, <1>12, <1>13, <1>14, <1>15
<1> SUFFICES ASSUME NEW j \in 1..14 PROVE Same(Pattern[j]) = Pattern[j + 1]
    OBVIOUS
<1>17. j \in {1, 2, 3, 4, 5, 6, 7, 8, 9, 10, 11, 12, 13, 14}
    OBVIOUS
<1>18. /\ 1 + 1 = 2 /\ 2 + 1 = 3 /\ 3 + 1 = 4 /\ 4 + 1 = 5 /\ 5 + 1 = 6 /\ 6 + 1 = 7
       /\ 7 + 1 = 8 /\ 8 + 1 = 9 /\ 9 + 1 = 10 /\ 10 + 1 = 11 /\ 11 + 1 = 12
       /\ 12 + 1 = 13 /\ 13 + 1 = 14 /\ 14 + 1 = 15
    OBVIOUS
<1> HIDE DEF Pattern
<1> QED
    BY <1>16, <1>17, <1>18

\* No entry is a single place, and each has a place that is not the top one.
LEMMA PatternIsWide ==
    \A j \in 1..15 : \E x, y \in Pattern[j] : x \in 0..14 /\ y \in 0..15 /\ x # y
<1> SUFFICES ASSUME NEW j \in 1..15
             PROVE  \E x, y \in Pattern[j] : x \in 0..14 /\ y \in 0..15 /\ x # y
    OBVIOUS
<1>1. CASE j \in {1, 5, 9, 12, 13}
    <2>1. 0 \in Pattern[j] /\ 5 \in Pattern[j]
        BY <1>1 DEF Pattern
    <2> QED
        BY <2>1
<1>2. CASE j \in {2, 6, 10, 14}
    <2>1. 1 \in Pattern[j] /\ 6 \in Pattern[j]
        BY <1>2 DEF Pattern
    <2> QED
        BY <2>1
<1>3. CASE j \in {3, 7, 11, 15}
    <2>1. 2 \in Pattern[j] /\ 7 \in Pattern[j]
        BY <1>3 DEF Pattern
    <2> QED
        BY <2>1
<1>4. CASE j \in {4, 8}
    <2>1. 3 \in Pattern[j] /\ 8 \in Pattern[j]
        BY <1>4 DEF Pattern
    <2> QED
        BY <2>1
<1> QED
    BY <1>1, <1>2, <1>3, <1>4

\* A register does not differ from itself.
LEMMA ApartNone == \A c : Apart(c, c) = {}
BY DEF Apart

\* Registers that differ go on differing while the bits are the same,
LEMMA SameOfSomething ==
    ASSUME NEW S \in SUBSET (0..15), S # {}
    PROVE  Same(S) # {}
<1>1. CASE 15 \in S
    <2>1. 0 \notin Up(S)
        BY DEF Up
    <2> QED
        BY <1>1, <2>1 DEF Same, Hit, Fed
<1>2. CASE 15 \notin S
    <2>1. PICK i \in S : TRUE
        OBVIOUS
    <2>2. i + 1 \in 1..15 /\ (i + 1) - 1 = i
        BY <1>2, <2>1
    <2>3. i + 1 \in Up(S)
        BY <2>1, <2>2 DEF Up
    <2> QED
        BY <1>2, <2>3 DEF Same, Hit, Fed
<1> QED
    BY <1>1, <1>2

\* and one differing bit does not mend a difference in a low digit.
LEMMA HitOfLowDigit ==
    ASSUME NEW S \in SUBSET (0..15), NEW x \in S, x \in 0..14
    PROVE  Hit(S) # {}
<1>1. x + 1 \in 1..15 /\ (x + 1) - 1 = x
    OBVIOUS
<1>2. x + 1 \in Up(S)
    BY <1>1 DEF Up
<1>3. 0 \notin Up(S)
    BY DEF Up
<1> QED
    BY <1>2, <1>3 DEF Same, Hit, Fed

\* What the registers of two frames differ in, bit by bit, where H are the bits
\* in which the frames differ.
Trail(D, H, last) ==
    /\ D \in [0..last -> SUBSET (0..15)]
    /\ D[0] = {}
    /\ \A n \in 1..last : D[n] = IF n \in H THEN Hit(D[n - 1]) ELSE Same(D[n - 1])

\* Until the first hit nothing differs.
LEMMA TogetherSoFar ==
    ASSUME NEW D, NEW H, NEW last \in Nat, Trail(D, H, last),
           NEW m \in 0..last, \A n \in 1..m : n \notin H
    PROVE  D[m] = {}
<1> DEFINE T == {k \in Nat : k <= m => D[k] = {}}
<1>1. 0 \in T
    BY DEF Trail
<1>2. ASSUME NEW k \in Nat, k \in T PROVE k + 1 \in T
    <2>1. CASE k + 1 <= m
        <3>1. k + 1 \in 1..last /\ k + 1 \in 1..m /\ (k + 1) - 1 = k
            BY <2>1
        <3>2. D[k] = {}
            BY <1>2, <2>1
        <3>3. D[k + 1] = Same(D[k])
            BY <3>1 DEF Trail
        <3>4. Same({}) = {}
            BY DEF Same, Up
        <3> QED
            BY <3>2, <3>3, <3>4
    <2>2. CASE ~(k + 1 <= m)
        BY <2>2
    <2> QED
        BY <2>1, <2>2
<1> HIDE DEF T
<1>3. m \in T
    BY <1>1, <1>2, FromNextToNext
<1> QED
    BY <1>3 DEF T

\* What differs goes on differing until the next hit.
LEMMA StaysApart ==
    ASSUME NEW D, NEW H, NEW last \in Nat, Trail(D, H, last),
           NEW m \in 0..last, D[m] # {}, \A n \in (m + 1)..last : n \notin H
    PROVE  D[last] # {}
<1> DEFINE T == {k \in Nat : m + k <= last => D[m + k] # {}}
<1>1. 0 \in T
    <2>1. m + 0 = m
        OBVIOUS
    <2> QED
        BY <2>1
<1>2. ASSUME NEW k \in Nat, k \in T PROVE k + 1 \in T
    <2>1. CASE m + (k + 1) <= last
        <3> DEFINE n == m + (k + 1)
                   S == D[m + k]
        <3>1. n \in 1..last /\ n \in (m + 1)..last /\ n - 1 = m + k /\ m + k \in 0..last
            BY <2>1
        <3>2. S # {} /\ S \in SUBSET (0..15)
            BY <1>2, <2>1, <3>1 DEF Trail
        <3>3. D[n] = Same(S)
            BY <3>1 DEF Trail
        <3> HIDE DEF n, S
        <3>4. D[n] # {}
            BY <3>2, <3>3, SameOfSomething
        <3> QED
            BY <3>4 DEF n
    <2>2. CASE ~(m + (k + 1) <= last)
        BY <2>2
    <2> QED
        BY <2>1, <2>2
<1> HIDE DEF T
<1>3. last - m \in T
    <2>1. last - m \in Nat
        OBVIOUS
    <2> QED
        BY <1>1, <1>2, <2>1, FromNextToNext
<1>4. m + (last - m) = last
    OBVIOUS
<1> QED
    BY <1>3, <1>4 DEF T

\* For fourteen bits after the first hit the difference is the pattern's.
LEMMA PatternAfterHit ==
    ASSUME NEW D, NEW H, NEW last \in Nat, Trail(D, H, last),
           NEW p \in 1..last, NEW q \in p..last, q <= p + 14, p \in H,
           \A n \in 1..q : n # p => n \notin H
    PROVE  D[q] = Pattern[q - p + 1]
<1> DEFINE T == {k \in Nat : p + k <= q => D[p + k] = Pattern[k + 1]}
<1>1. 0 \in T
    <2>1. p + 0 = p /\ 0 + 1 = 1 /\ p - 1 \in 0..last
        OBVIOUS
    <2>2. D[p - 1] = {}
        <3>1. \A n \in 1..(p - 1) : n \notin H
            OBVIOUS
        <3> QED
            BY <2>1, <3>1, TogetherSoFar
    <2>3. D[p] = Hit(D[p - 1])
        BY DEF Trail
    <2> QED
        BY <2>1, <2>2, <2>3, PatternStarts
<1>2. ASSUME NEW k \in Nat, k \in T PROVE k + 1 \in T
    <2>1. CASE p + (k + 1) <= q
        <3> DEFINE n == p + (k + 1)
        <3>1. n \in 1..last /\ n \in 1..q /\ n # p /\ n - 1 = p + k /\ k + 1 \in 1..14
            BY <2>1
        <3>2. D[p + k] = Pattern[k + 1]
            BY <1>2, <2>1
        <3>3. D[n] = Same(D[p + k])
            BY <3>1 DEF Trail
        <3> HIDE DEF n
        <3>4. Same(Pattern[k + 1]) = Pattern[(k + 1) + 1]
            BY <3>1, PatternGoesOn
        <3>5. D[n] = Pattern[(k + 1) + 1]
            BY <3>2, <3>3, <3>4
        <3> QED
            BY <3>5 DEF n
    <2>2. CASE ~(p + (k + 1) <= q)
        BY <2>2
    <2> QED
        BY <2>1, <2>2
<1> HIDE DEF T
<1>3. q - p \in T
    <2>1. q - p \in Nat
        OBVIOUS
    <2> QED
        BY <1>1, <1>2, <2>1, FromNextToNext
<1>4. p + (q - p) = q
    OBVIOUS
<1> QED
    BY <1>3, <1>4 DEF T

\* One hit leaves a difference; soon after it, it is a known one.
LEMMA OneHit ==
    ASSUME NEW D, NEW H, NEW last \in Nat, Trail(D, H, last),
           NEW p \in 1..last, p \in H, \A n \in 1..last : n # p => n \notin H
    PROVE  D[last] # {} /\ (last <= p + 14 => D[last] = Pattern[last - p + 1])
<1>1. p \in p..last /\ last \in p..last /\ p <= p + 14 /\ p \in 0..last
      /\ p - p + 1 = 1 /\ 1 \in 1..15
    OBVIOUS
<1>2. D[p] = Pattern[1]
    <2>1. \A n \in 1..p : n # p => n \notin H
        OBVIOUS
    <2>2. D[p] = Pattern[p - p + 1]
        BY <1>1, <2>1, PatternAfterHit
    <2> QED
        BY <1>1, <2>2
<1>3. D[p] # {}
    BY <1>1, <1>2, PatternIsWide
<1>4. \A n \in (p + 1)..last : n \notin H
    OBVIOUS
<1>5. D[last] # {}
    BY <1>1, <1>3, <1>4, StaysApart
<1>6. last <= p + 14 => D[last] = Pattern[last - p + 1]
    BY <1>1, PatternAfterHit
<1> QED
    BY <1>5, <1>6

\* A second hit within fifteen bits does not mend what the first has left.
LEMMA TwoHits ==
    ASSUME NEW D, NEW H, NEW last \in Nat, Trail(D, H, last),
           NEW p \in 1..last, NEW q \in (p + 1)..last, q <= p + 15, p \in H, q \in H,
           \A n \in 1..last : n # p /\ n # q => n \notin H
    PROVE  D[last] # {}
<1>1. /\ q \in 1..last /\ q \in 0..last /\ q - 1 \in 0..last
      /\ q - 1 \in p..last /\ q - 1 <= p + 14 /\ (q - 1) - p + 1 \in 1..15
    OBVIOUS
<1> DEFINE S == D[q - 1]
           j == (q - 1) - p + 1
<1>2. S = Pattern[j]
    <2>1. \A n \in 1..(q - 1) : n # p => n \notin H
        OBVIOUS
    <2> QED
        BY <1>1, <2>1, PatternAfterHit
<1>3. S \in SUBSET (0..15)
    BY <1>1 DEF Trail
<1>4. D[q] = Hit(S)
    BY <1>1 DEF Trail
<1>5. j \in 1..15
    BY <1>1
<1> HIDE DEF S, j
<1>6. PICK x \in S : x \in 0..14
    BY <1>2, <1>5, PatternIsWide
<1>7. D[q] # {}
    BY <1>3, <1>4, <1>6, HitOfLowDigit
<1>8. \A n \in (q + 1)..last : n \notin H
    OBVIOUS
<1> QED
    BY <1>1, <1>7, <1>8, StaysApart

\* A frame of bytes, and the bits of its first bytes.
LEMMA BitsOfBytes ==
    ASSUME NEW f \in Bytes, NEW size \in Nat, size <= Len(f)
    PROVE  \A n \in 1..(8 * size) : BitOf(f, n) \in 0..1
<1> SUFFICES ASSUME NEW n \in 1..(8 * size) PROVE BitOf(f, n) \in 0..1
    OBVIOUS
<1>1. n \in Nat \ {0} /\ n <= 8 * size
    OBVIOUS
<1>2. PlaceOf(n) \in 1..Len(f)
    <2>1. PlaceOf(n) \in Nat \ {0} /\ PlaceOf(n) <= size
        BY <1>1, PlacesCover
    <2>2. Len(f) \in Nat
        BY DEF Bytes
    <2> QED
        BY <2>1, <2>2
<1>3. f[PlaceOf(n)] \in Word(1)
    BY <1>2 DEF Bytes
<1> QED
    BY <1>1, <1>3, BitOfDigit

\* The bits in which two frames differ.
Differing(f, g, last) == {n \in 1..last : BitOf(f, n) # BitOf(g, n)}

\* The differences of the runs of two frames end in the difference of their CRCs.
LEMMA TrailOfFrames ==
    ASSUME NEW f \in Bytes, NEW g \in Bytes, NEW size \in Nat, size <= Len(f), size <= Len(g)
    PROVE  \E D : /\ Trail(D, Differing(f, g, 8 * size), 8 * size)
                  /\ D[8 * size] = Apart(Crc16(f, size), Crc16(g, size))
<1> DEFINE last == 8 * size
           H == Differing(f, g, last)
<1>1. PICK r : Run(r, f, 8 * size) /\ Crc16(f, size) = r[8 * size]
    BY CrcRuns
<1>2. PICK s : Run(s, g, 8 * size) /\ Crc16(g, size) = s[8 * size]
    BY CrcRuns
<1>3. last \in Nat /\ Run(r, f, last) /\ Run(s, g, last)
      /\ Crc16(f, size) = r[last] /\ Crc16(g, size) = s[last]
    BY <1>1, <1>2
<1>4. \A n \in 1..last : BitOf(f, n) \in 0..1 /\ BitOf(g, n) \in 0..1
    BY BitsOfBytes
<1> DEFINE D == [n \in 0..last |-> Apart(r[n], s[n])]
<1>5. ASSUME NEW n \in 1..last
      PROVE  D[n] = IF n \in H THEN Hit(D[n - 1]) ELSE Same(D[n - 1])
    <2>1. n - 1 \in 0..last /\ n \in 0..last
        BY <1>3
    <2>2. r[n - 1] \in Word(2) /\ s[n - 1] \in Word(2)
        BY <1>3, <2>1 DEF Run
    <2>3. r[n] = ShiftIn(r[n - 1], BitOf(f, n)) /\ s[n] = ShiftIn(s[n - 1], BitOf(g, n))
        BY <1>3 DEF Run
    <2>4. Apart(ShiftIn(r[n - 1], BitOf(f, n)), ShiftIn(s[n - 1], BitOf(g, n))) =
              IF BitOf(f, n) = BitOf(g, n) THEN Same(Apart(r[n - 1], s[n - 1]))
              ELSE Hit(Apart(r[n - 1], s[n - 1]))
        BY <1>4, <2>2, ApartAfterShift
    <2>5. n \in H <=> BitOf(f, n) # BitOf(g, n)
        BY DEF Differing
    <2>6. D[n] = Apart(r[n], s[n]) /\ D[n - 1] = Apart(r[n - 1], s[n - 1])
        BY <2>1
    <2> HIDE DEF D, H
    <2> QED
        BY <2>3, <2>4, <2>5, <2>6
<1>6. D[0] = {}
    <2>1. r[0] = s[0] /\ D[0] = Apart(r[0], s[0])
        BY <1>3 DEF Run
    <2> QED
        BY <2>1, ApartNone
<1>7. D \in [0..last -> SUBSET (0..15)]
    BY DEF Apart
<1>8. D[last] = Apart(Crc16(f, size), Crc16(g, size))
    BY <1>3
<1> HIDE DEF D, H
<1>9. Trail(D, H, last)
    BY <1>5, <1>6, <1>7 DEF Trail
<1> QED
    BY <1>8, <1>9 DEF H

\* The CRC depends on the bits only.
LEMMA SameCrc ==
    ASSUME NEW f \in Bytes, NEW g \in Bytes, NEW size \in Nat, size <= Len(f), size <= Len(g),
           \A n \in 1..(8 * size) : BitOf(f, n) = BitOf(g, n)
    PROVE  Crc16(f, size) = Crc16(g, size)
<1>1. PICK r : Run(r, f, 8 * size) /\ Crc16(f, size) = r[8 * size]
    BY CrcRuns
<1>2. Run(r, g, 8 * size)
    BY <1>1 DEF Run
<1> QED
    BY <1>1, <1>2, CrcIsRun

-----------------------------------------------------------------------------
(* Codecs: words in bytes *)

\* A bit that is flipped, and no other, differs.
LEMMA FlipsOneBit ==
    ASSUME NEW f \in Bytes, NEW bit \in 1..(8 * Len(f))
    PROVE  /\ Flipped(f, bit) \in Bytes /\ Len(Flipped(f, bit)) = Len(f)
           /\ \A k \in 1..Len(f) : Flipped(f, bit)[k] =
                  IF k = PlaceOf(bit) THEN Toggled(f[k], Down(bit)) ELSE f[k]
           /\ \A n \in 1..(8 * Len(f)) : BitOf(Flipped(f, bit), n) =
                  IF n = bit THEN 1 - BitOf(f, n) ELSE BitOf(f, n)
<1> DEFINE g == Flipped(f, bit)
           p == PlaceOf(bit)
           e == Down(bit)
<1>1. Len(f) \in Nat /\ f \in [1..Len(f) -> Word(1)]
    BY DEF Bytes
<1>2. bit \in Nat \ {0} /\ bit <= 8 * Len(f)
    BY <1>1
<1>3. p \in 1..Len(f) /\ e \in 0..7 /\ bit = 8 * p - e
    BY <1>1, <1>2, PlacesCover
<1>4. f[p] \in Word(1)
    BY <1>1, <1>3
<1>5. BitOf(f, bit) = Digit(f[p], e) /\ WeightOf(bit) = 2 ^ e
    BY <1>2, <1>4, BitOfDigit
<1>6. g = [f EXCEPT ![p] = Toggled(f[p], e)]
    BY <1>5 DEF Flipped, Toggled
<1>7. Toggled(f[p], e) \in Word(1)
    <2> DEFINE n == 8
    <2>1. n \in Nat /\ 2 ^ n = 256 /\ e \in Nat /\ e < n
        BY <1>3, Powers
    <2> HIDE DEF n
    <2>2. f[p] \in Nat /\ f[p] < 2 ^ n
        BY <1>4, <2>1, WordMeans
    <2>3. Toggled(f[p], e) \in Nat /\ Toggled(f[p], e) < 2 ^ n
        BY <2>1, <2>2, ToggledTyped
    <2> QED
        BY <2>1, <2>3, WordMeans
<1> HIDE DEF g
<1>8. g \in [1..Len(f) -> Word(1)]
    BY <1>1, <1>3, <1>6, <1>7
<1>9. g \in Bytes /\ Len(g) = Len(f)
    <2>1. g \in Seq(Word(1))
        BY <1>1, <1>8
    <2> QED
        BY <1>1, <1>8, <2>1 DEF Bytes
<1>10. \A k \in 1..Len(f) : g[k] = IF k = p THEN Toggled(f[k], e) ELSE f[k]
    BY <1>1, <1>6
<1>11. ASSUME NEW n \in 1..(8 * Len(f))
       PROVE  BitOf(g, n) = IF n = bit THEN 1 - BitOf(f, n) ELSE BitOf(f, n)
    <2> DEFINE k == PlaceOf(n)
               i == Down(n)
    <2>1. n \in Nat \ {0} /\ n <= 8 * Len(f)
        BY <1>1
    <2>2. k \in 1..Len(f) /\ i \in 0..7 /\ n = 8 * k - i
        BY <1>1, <2>1, PlacesCover
    <2>3. f[k] \in Word(1) /\ g[k] \in Word(1)
        BY <1>1, <1>8, <2>2
    <2>4. BitOf(f, n) = Digit(f[k], i) /\ BitOf(g, n) = Digit(g[k], i)
        BY <2>1, <2>3, BitOfDigit
    <2> HIDE DEF k, i, p, e
    <2>5. f[k] \in Int /\ i \in Nat /\ e \in Nat
        <3>1. f[k] \in Int
            BY <2>3, WordMeans
        <3> QED
            BY <1>3, <2>2, <3>1
    <2>6. CASE k # p
        <3>1. n # bit
            BY <2>6 DEF k, p
        <3> QED
            BY <1>10, <2>2, <2>4, <2>6, <3>1
    <2>7. CASE k = p
        <3>1. n = bit <=> i = e
            BY <1>3, <2>2, <2>7
        <3>2. g[k] = Toggled(f[k], e)
            BY <1>10, <2>2, <2>7
        <3>3. Digit(Toggled(f[k], e), i) = IF i = e THEN 1 - Digit(f[k], i) ELSE Digit(f[k], i)
            BY <2>5, ToggledDigits
        <3> QED
            BY <2>4, <3>1, <3>2, <3>3
    <2> QED
        BY <2>6, <2>7
<1> QED
    BY <1>9, <1>10, <1>11 DEF g, p, e

\* The top byte of a word has its sign.
Top(b, width) == IF width = 4 /\ b[width] > 127 THEN b[width] - 256 ELSE b[width]

\* What get_u16 and get_u32 compute, for each width.
LEMMA GetMeans ==
    ASSUME NEW b, NEW width \in {1, 2, 4}, Len(b) = width
    PROVE  Get(b) = CASE width = 1 -> Top(b, width)
                      [] width = 2 -> b[1] + 256 * Top(b, width)
                      [] width = 4 -> b[1] + 256 * (b[2] + 256 * (b[3] + 256 * Top(b, width)))
<1> DEFINE t0 == Top(b, width)
           t1 == b[width - 1] + 256 * t0
           t2 == b[width - 2] + 256 * t1
           t3 == b[width - 3] + 256 * t2
           Equation(f) == f = [k \in 1..width |-> IF k < width THEN b[k] + 256 * f[k + 1]
                                    ELSE IF width = 4 /\ b[k] > 127 THEN b[k] - 256 ELSE b[k]]
           from == CHOOSE f : Equation(f)
           e == [k \in 1..width |-> IF k = width THEN t0 ELSE IF k = width - 1 THEN t1
                                    ELSE IF k = width - 2 THEN t2 ELSE t3]
<1>1. Equation(e)
    <2> DEFINE g == [k \in 1..width |-> IF k < width THEN b[k] + 256 * e[k + 1]
                                    ELSE IF width = 4 /\ b[k] > 127 THEN b[k] - 256 ELSE b[k]]
    <2>1. ASSUME NEW k \in 1..width PROVE e[k] = g[k]
        <3>1. CASE k = width
            BY <3>1 DEF Top
        <3>2. CASE k < width
            <4>1. k + 1 \in 1..width /\ g[k] = b[k] + 256 * e[k + 1]
                BY <3>2
            <4>2. CASE k = width - 1
                <5>1. e[k] = t1 /\ e[k + 1] = t0
                    BY <4>1, <4>2
                <5> HIDE DEF e, g
                <5> QED
                    BY <4>1, <4>2, <5>1
            <4>3. CASE k = width - 2
                <5>1. e[k] = t2 /\ e[k + 1] = t1
                    BY <4>1, <4>3
                <5> HIDE DEF e, g
                <5> QED
                    BY <4>1, <4>3, <5>1
            <4>4. CASE k = width - 3
                <5>1. e[k] = t3 /\ e[k + 1] = t2
                    BY <4>1, <4>4
                <5> HIDE DEF e, g
                <5> QED
                    BY <4>1, <4>4, <5>1
            <4>5. k = width - 1 \/ k = width - 2 \/ k = width - 3
                BY <3>2
            <4> QED
                BY <4>2, <4>3, <4>4, <4>5
        <3> QED
            BY <3>1, <3>2
    <2>2. e = [k \in 1..width |-> e[k]] /\ g = [k \in 1..width |-> g[k]]
        OBVIOUS
    <2> HIDE DEF e, g
    <2>3. e = g
        BY <2>1, <2>2
    <2> QED
        BY <2>3 DEF g
<1>2. Equation(from)
    <2> HIDE DEF e, Equation
    <2>1. \E f : Equation(f)
        BY <1>1
    <2> QED
        BY <2>1
<1> HIDE DEF from
<1>3. \A k \in 1..width : from[k] = IF k < width THEN b[k] + 256 * from[k + 1] ELSE t0
    <2> SUFFICES ASSUME NEW k \in 1..width
                 PROVE  from[k] = IF k < width THEN b[k] + 256 * from[k + 1] ELSE t0
        OBVIOUS
    <2>1. from[k] = IF k < width THEN b[k] + 256 * from[k + 1]
                    ELSE IF width = 4 /\ b[k] > 127 THEN b[k] - 256 ELSE b[k]
        BY <1>2
    <2>2. k < width \/ k = width
        OBVIOUS
    <2> QED
        BY <2>1, <2>2 DEF Top
<1>4. Get(b) = from[1]
    BY DEF Get, from
<1>5. CASE width = 1
    BY <1>3, <1>4, <1>5
<1>6. CASE width = 2
    <2>1. from[1] = b[1] + 256 * from[2] /\ from[2] = t0
        BY <1>3, <1>6
    <2> QED
        BY <1>4, <1>6, <2>1
<1>7. CASE width = 4
    <2>1. /\ from[1] = b[1] + 256 * from[2] /\ from[2] = b[2] + 256 * from[3]
          /\ from[3] = b[3] + 256 * from[4] /\ from[4] = t0
        <3>1. 1 \in 1..width /\ 2 \in 1..width /\ 3 \in 1..width /\ 4 \in 1..width
              /\ 1 < width /\ 2 < width /\ 3 < width /\ ~(4 < width)
              /\ 1 + 1 = 2 /\ 2 + 1 = 3 /\ 3 + 1 = 4
            BY <1>7
        <3> HIDE DEF t0
        <3> QED
            BY <1>3, <3>1
    <2> QED
        BY <1>4, <1>7, <2>1
<1> QED
    BY <1>5, <1>6, <1>7

\* The bytes of a word, the lowest first, as put_u16 and put_u32 write them.
Cut(b, word, width) ==
    /\ Len(b) = width
    /\ b[1] = word % 256
    /\ width > 1 => b[2] = (word \div 256) % 256
    /\ width = 4 => b[3] = (word \div 65536) % 256 /\ b[4] = (word \div 16777216) % 256

\* What Put writes are bytes, the lowest first.
LEMMA PutMeans ==
    ASSUME NEW word \in Int, NEW width \in {1, 2, 4}
    PROVE  Put(word, width) \in Bytes /\ Cut(Put(word, width), word, width)
<1> DEFINE b == Put(word, width)
<1>1. b = [k \in 1..width |-> (word \div 2 ^ (8 * (k - 1))) % 256]
    BY DEF Put
<1>2. ASSUME NEW k \in 1..width PROVE b[k] \in Word(1)
    <2>1. 8 * (k - 1) \in Nat
        OBVIOUS
    <2>2. 2 ^ (8 * (k - 1)) \in Nat \ {0}
        BY <2>1, PowerDoubles
    <2> DEFINE d == 2 ^ (8 * (k - 1))
    <2>3. b[k] = (word \div d) % 256
        BY <1>1
    <2> HIDE DEF d, b
    <2>4. (word \div d) % 256 \in Nat /\ (word \div d) % 256 < 256
        BY <2>2 DEF d
    <2> QED
        BY <2>3, <2>4, WordMeans
<1>3. b \in Bytes /\ Len(b) = width
    <2>1. b \in [1..width -> Word(1)]
        BY <1>1, <1>2
    <2> HIDE DEF b
    <2>2. b \in Seq(Word(1)) /\ Len(b) = width
        BY <2>1
    <2> QED
        BY <2>2 DEF Bytes
<1> DEFINE none == 0
           eight == 8
           sixteen == 16
           most == 24
<1>4. /\ 2 ^ none = 1 /\ 2 ^ eight = 256 /\ 2 ^ sixteen = 65536 /\ 2 ^ most = 16777216
    BY Powers
<1>5. word \div 1 = word
    OBVIOUS
<1>6. \A k \in 1..width : \A e \in Nat : e = 8 * (k - 1) => b[k] = (word \div 2 ^ e) % 256
    BY <1>1
<1>7. /\ none \in Nat /\ eight \in Nat /\ sixteen \in Nat /\ most \in Nat
      /\ none = 8 * (1 - 1) /\ eight = 8 * (2 - 1) /\ sixteen = 8 * (3 - 1)
      /\ most = 8 * (4 - 1)
    OBVIOUS
<1> HIDE DEF b, none, eight, sixteen, most
<1>8. b[1] = (word \div 2 ^ none) % 256
    <2>1. 1 \in 1..width
        OBVIOUS
    <2> QED
        BY <1>6, <1>7, <2>1
<1>9. width > 1 => b[2] = (word \div 2 ^ eight) % 256
    <2>1. width > 1 => 2 \in 1..width
        OBVIOUS
    <2> QED
        BY <1>6, <1>7, <2>1
<1>10. width = 4 => b[3] = (word \div 2 ^ sixteen) % 256 /\ b[4] = (word \div 2 ^ most) % 256
    <2>1. width = 4 => 3 \in 1..width /\ 4 \in 1..width
        OBVIOUS
    <2>2. width = 4 => b[3] = (word \div 2 ^ sixteen) % 256
        BY <1>6, <1>7, <2>1
    <2>3. width = 4 => b[4] = (word \div 2 ^ most) % 256
        BY <1>6, <1>7, <2>1
    <2> QED
        BY <2>2, <2>3
<1> QED
    BY <1>3, <1>4, <1>5, <1>8, <1>9, <1>10 DEF b, Cut

\* The top byte of an int32_t is one of a signed char.
LEMMA WideWord ==
    ASSUME NEW word \in Word(4)
    PROVE  word \in Int /\ word \div 16777216 \in Int
           /\ word \div 16777216 >= -128 /\ word \div 16777216 <= 127
<1> DEFINE six == 6
           tf == 24
           thirty == 30
           p == 2 ^ tf
           h == 2 ^ thirty
<1>1. six \in Nat /\ tf \in Nat /\ thirty = tf + six /\ thirty \in Nat
      /\ 2 ^ six = 64 /\ p = 16777216
    BY Powers
<1>2. word \in (-1 - (h - 1 + h))..(h - 1 + h)
    BY DEF Word
<1> HIDE DEF six, tf, thirty
<1>3. h = p * 64
    BY <1>1, PowersAdd
<1>4. p \in Nat \ {0}
    BY <1>1, PowerDoubles
<1> HIDE DEF p, h
<1>5. h \in Int
    BY <1>3, <1>4
<1>6. word \in Int /\ word >= -1 - (h - 1 + h) /\ word <= h - 1 + h
    BY <1>2, <1>5
<1>7. word >= p * (-128) /\ word < p * 128
    BY <1>3, <1>4, <1>6
<1> DEFINE q == word \div p
           r == word % p
<1>8. q \in Int /\ r \in 0..(p - 1) /\ word = p * q + r
    BY <1>4, <1>6
<1> HIDE DEF q, r
<1>9. q >= -128
    <2>1. q <= -129 => p * q <= p * (-129)
        BY <1>4, <1>8
    <2>2. p * q \in Int
        BY <1>4, <1>8
    <2> QED
        BY <1>4, <1>7, <1>8, <2>1, <2>2
<1>10. q <= 127
    <2>1. q >= 128 => p * q >= p * 128
        BY <1>4, <1>8
    <2>2. p * q \in Int
        BY <1>4, <1>8
    <2> QED
        BY <1>4, <1>7, <1>8, <2>1, <2>2
<1>11. q \in Int
    BY <1>8
<1>12. q = word \div 16777216
    BY <1>1 DEF q
<1> QED
    BY <1>6, <1>9, <1>10, <1>11, <1>12

\* Get reads what Put has written.
LEMMA GetsWhatWasPut ==
    ASSUME NEW width \in {1, 2, 4}, NEW word \in Word(width)
    PROVE  word \in Int /\ Get(Put(word, width)) = word
<1> DEFINE b == Put(word, width)
<1>1. CASE width = 1
    <2>1. word \in Nat /\ word < 256
        BY <1>1, WordMeans
    <2>2. Len(b) = 1 /\ b[1] = word % 256
        BY <1>1, <2>1, PutMeans DEF Cut
    <2>3. Get(b) = b[1]
        BY <1>1, <2>2, GetMeans DEF Top
    <2> QED
        BY <2>1, <2>2, <2>3
<1>2. CASE width = 2
    <2>1. word \in Nat /\ word < 65536
        BY <1>2, WordMeans
    <2>2. Len(b) = 2 /\ b[1] = word % 256 /\ b[2] = (word \div 256) % 256
        BY <1>2, <2>1, PutMeans DEF Cut
    <2>3. Get(b) = b[1] + 256 * b[2]
        BY <1>2, <2>2, GetMeans DEF Top
    <2>4. word = 256 * (word \div 256) + (word % 256) /\ (word \div 256) \in 0..255
        BY <2>1
    <2> DEFINE q == word \div 256
    <2>5. q % 256 = q
        BY <2>4
    <2> QED
        BY <2>1, <2>2, <2>3, <2>4, <2>5
<1>3. CASE width = 4
    <2>1. word \in Int /\ word \div 16777216 \in Int
           /\ word \div 16777216 >= -128 /\ word \div 16777216 <= 127
        BY <1>3, WideWord
    <2>2. /\ Len(b) = 4 /\ b[1] = word % 256 /\ b[2] = (word \div 256) % 256
          /\ b[3] = (word \div 65536) % 256 /\ b[4] = (word \div 16777216) % 256
        <3> HIDE DEF b
        <3>1. Cut(b, word, width)
            BY <2>1, PutMeans DEF b
        <3>2. width > 1 /\ width = 4
            BY <1>3
        <3> QED
            BY <3>1, <3>2 DEF Cut
    <2>3. Get(b) = b[1] + 256 * (b[2] + 256 * (b[3] + 256 *
                       (IF b[4] > 127 THEN b[4] - 256 ELSE b[4])))
        <3> HIDE DEF b
        <3> QED
            BY <1>3, <2>2, GetMeans DEF Top
    <2> DEFINE q1 == word \div 256
               q2 == word \div 65536
               q3 == word \div 16777216
    <2>4. q1 \in Int /\ q2 \in Int /\ q3 \in Int /\ q3 >= -128 /\ q3 <= 127
        BY <2>1
    <2>5. q1 \div 256 = q2 /\ q2 \div 256 = q3
        <3>1. 256 \in Nat \ {0} /\ 65536 \in Nat \ {0} /\ 256 * 256 = 65536
              /\ 65536 * 256 = 16777216
            OBVIOUS
        <3>2. (word \div 256) \div 256 = word \div (256 * 256)
            BY <2>1, DividedTwice
        <3>3. (word \div 65536) \div 256 = word \div (65536 * 256)
            BY <2>1, <3>1, DividedTwice
        <3> QED
            BY <3>1, <3>2, <3>3
    <2>6. word = 256 * q1 + b[1]
        BY <2>1, <2>2
    <2> HIDE DEF q1, q2, q3, b
    <2>7. q1 = 256 * q2 + b[2]
        BY <2>2, <2>4, <2>5 DEF q1
    <2>8. q2 = 256 * q3 + b[3]
        BY <2>2, <2>4, <2>5 DEF q2
    <2>9. (IF b[4] > 127 THEN b[4] - 256 ELSE b[4]) = q3
        <3>1. b[4] = q3 % 256
            BY <2>2 DEF q3
        <3>2. CASE q3 >= 0
            BY <2>4, <3>1, <3>2
        <3>3. CASE q3 < 0
            <4>1. q3 % 256 = q3 + 256
                BY <2>4, <3>3
            <4> QED
                BY <2>4, <3>1, <3>3, <4>1
        <3> QED
            BY <2>4, <3>2, <3>3
    <2>10. b[1] \in Int /\ b[2] \in Int /\ b[3] \in Int
        BY <2>1, <2>2
    <2>11. Get(b) = word
        <3>1. b[3] + 256 * q3 = q2
            BY <2>4, <2>8, <2>10
        <3>2. b[2] + 256 * q2 = q1
            BY <2>4, <2>7, <2>10
        <3>3. b[1] + 256 * q1 = word
            BY <2>4, <2>6, <2>10
        <3> QED
            BY <2>3, <2>9, <3>1, <3>2, <3>3
    <2> QED
        BY <2>1, <2>11 DEF b
<1> QED
    BY <1>1, <1>2, <1>3

-----------------------------------------------------------------------------
(* Codecs: the CRC field, and damage *)

\* The CRC that a frame carries, and the bit of the frame that holds a digit of it.
Stored(f) == Get(SubSeq(f, Len(f) - 1, Len(f)))
FieldBit(i, size) == IF i < 8 THEN 8 * (size - 1) - i ELSE 8 * size - (i - 8)

\* The CRC that a frame carries is a word of its last two bytes,
LEMMA StoredBytes ==
    ASSUME NEW f \in Bytes, Len(f) >= 2
    PROVE  /\ Stored(f) = f[Len(f) - 1] + 256 * f[Len(f)]
           /\ f[Len(f) - 1] \in Word(1) /\ f[Len(f)] \in Word(1) /\ Len(f) \in Nat
<1> DEFINE size == Len(f)
           b == SubSeq(f, size - 1, size)
<1>1. size \in Nat /\ size - 1 \in Int /\ size \in Int
    BY DEF Bytes
<1>2. \A i \in (size - 1)..size : f[i] \in Word(1)
    <2>1. \A i \in (size - 1)..size : i \in 1..size
        BY <1>1
    <2>2. \A i \in 1..size : f[i] \in Word(1)
        BY DEF Bytes
    <2> QED
        BY <2>1, <2>2
<1>3. /\ Len(b) = IF size - 1 <= size THEN size - (size - 1) + 1 ELSE 0
      /\ \A i \in 1..(size - (size - 1) + 1) : b[i] = f[(size - 1) + i - 1]
    <2> HIDE DEF size
    <2> QED
        BY <1>1, <1>2, SubSeqProperties
<1>4. Len(b) = 2 /\ b[1] = f[size - 1] /\ b[2] = f[size]
    <2>1. size - (size - 1) + 1 = 2 /\ size - 1 <= size
          /\ (size - 1) + 1 - 1 = size - 1 /\ (size - 1) + 2 - 1 = size
        BY <1>1
    <2>2. 1 \in 1..2 /\ 2 \in 1..2
        OBVIOUS
    <2> HIDE DEF b, size
    <2> QED
        BY <1>3, <2>1, <2>2
<1>5. f[size - 1] \in Word(1) /\ f[size] \in Word(1)
    BY <1>1, <1>2
<1>6. Get(b) = b[1] + 256 * b[2]
    <2> HIDE DEF b
    <2> QED
        BY <1>4, GetMeans DEF Top
<1> QED
    BY <1>1, <1>4, <1>5, <1>6 DEF Stored

\* Two bytes as a word: its low digits are those of the first.
LEMMA WordOfBytes ==
    ASSUME NEW low \in Word(1), NEW high \in Word(1)
    PROVE  /\ low + 256 * high \in Word(2)
           /\ \A i \in 0..15 : Digit(low + 256 * high, i) =
                  IF i < 8 THEN Digit(low, i) ELSE Digit(high, i - 8)
<1>1. low \in Nat /\ low < 256 /\ high \in Nat /\ high < 256
    BY WordMeans
<1>2. low + 256 * high \in Nat /\ low + 256 * high < 65536
    BY <1>1
<1>3. low + 256 * high \in Word(2)
    BY <1>2, WordMeans
<1> DEFINE eight == 8
           d == 256
<1>4. eight \in Nat /\ 2 ^ eight = d /\ eight = 8 /\ d \in Nat \ {0} /\ low \in 0..(d - 1)
    BY <1>1, Powers
<1>5. low \in Int /\ high \in Int
    BY <1>1
<1> HIDE DEF eight, d
<1>6. ASSUME NEW i \in 0..15, i < 8 PROVE Digit(low + d * high, i) = Digit(low, i)
    <2>1. i \in Nat /\ i < eight
        BY <1>4, <1>6
    <2>2. Digit(low + 2 ^ eight * high, i) = Digit(low, i)
        <3>1. eight \in Nat
            BY <1>4
        <3> QED
            BY <3>1, <1>5, <2>1, DigitBelow
    <2> QED
        BY <1>4, <2>2
<1>7. ASSUME NEW i \in 0..15, ~(i < 8) PROVE Digit(low + d * high, i) = Digit(high, i - 8)
    <2>1. i - 8 \in Nat /\ eight + (i - 8) = i
        BY <1>4, <1>7
    <2>2. (d * high + low) \div d = high
        BY <1>4, <1>5, Division
    <2>3. low + d * high = d * high + low /\ low + d * high \in Int
        BY <1>4, <1>5
    <2>4. Digit((low + d * high) \div 2 ^ eight, i - 8) = Digit(low + d * high, eight + (i - 8))
        BY <1>4, <2>1, <2>3, DigitOfShifted
    <2> QED
        BY <1>4, <2>1, <2>2, <2>3, <2>4
<1>8. \A i \in 0..15 : Digit(low + d * high, i) =
                  IF i < 8 THEN Digit(low, i) ELSE Digit(high, i - 8)
    BY <1>6, <1>7
<1> QED
    BY <1>3, <1>8 DEF d

\* and each of its digits is a bit of the frame.
LEMMA FieldBits ==
    ASSUME NEW f \in Bytes, NEW size, size = Len(f), size >= 2
    PROVE  /\ Stored(f) \in Word(2)
           /\ \A i \in 0..15 : /\ FieldBit(i, size) \in (8 * (size - 2) + 1)..(8 * size)
                               /\ BitOf(f, FieldBit(i, size)) = Digit(Stored(f), i)
<1> DEFINE low == f[size - 1]
           high == f[size]
<1>1. Stored(f) = low + 256 * high /\ low \in Word(1) /\ high \in Word(1) /\ size \in Nat
    BY StoredBytes
<1> HIDE DEF low, high
<1>2. /\ low + 256 * high \in Word(2)
      /\ \A i \in 0..15 : Digit(low + 256 * high, i) =
                  IF i < 8 THEN Digit(low, i) ELSE Digit(high, i - 8)
    BY <1>1, WordOfBytes
<1>3. ASSUME NEW i \in 0..15
      PROVE  /\ FieldBit(i, size) \in (8 * (size - 2) + 1)..(8 * size)
             /\ BitOf(f, FieldBit(i, size)) = Digit(Stored(f), i)
    <2> DEFINE n == FieldBit(i, size)
    <2>1. n \in (8 * (size - 2) + 1)..(8 * size)
        BY <1>1 DEF FieldBit
    <2>2. CASE i < 8
        <3>1. size - 2 \in Nat /\ 8 - i \in 1..8 /\ n = 8 * (size - 2) + (8 - i)
              /\ (size - 2) + 1 = size - 1 /\ 8 - (8 - i) = i
            BY <1>1, <2>2 DEF FieldBit
        <3> HIDE DEF n
        <3>2. n \in Nat \ {0} /\ PlaceOf(n) = size - 1 /\ Down(n) = i
            BY <3>1, Places
        <3>3. f[PlaceOf(n)] \in Word(1)
            BY <1>1, <3>2 DEF low
        <3>4. BitOf(f, n) = Digit(f[PlaceOf(n)], Down(n))
            BY <3>2, <3>3, BitOfDigit
        <3>5. BitOf(f, n) = Digit(low, i)
            BY <3>2, <3>4 DEF low
        <3> QED
            BY <1>1, <1>2, <2>1, <2>2, <3>5 DEF n
    <2>3. CASE ~(i < 8)
        <3>1. size - 1 \in Nat /\ 16 - i \in 1..8 /\ n = 8 * (size - 1) + (16 - i)
              /\ (size - 1) + 1 = size /\ 8 - (16 - i) = i - 8
            BY <1>1, <2>3 DEF FieldBit
        <3> HIDE DEF n
        <3>2. n \in Nat \ {0} /\ PlaceOf(n) = size /\ Down(n) = i - 8
            BY <3>1, Places
        <3>3. f[PlaceOf(n)] \in Word(1)
            BY <1>1, <3>2 DEF high
        <3>4. BitOf(f, n) = Digit(f[PlaceOf(n)], Down(n))
            BY <3>2, <3>3, BitOfDigit
        <3>5. BitOf(f, n) = Digit(high, i - 8)
            BY <3>2, <3>4 DEF high
        <3> QED
            BY <1>1, <1>2, <2>1, <2>3, <3>5 DEF n
    <2> QED
        BY <2>2, <2>3
<1> QED
    BY <1>1, <1>2, <1>3

\* Every bit of the field holds a digit, and no two digits share one.
LEMMA FieldBitsCover ==
    ASSUME NEW size \in Nat, size >= 2
    PROVE  /\ \A n \in (8 * (size - 2) + 1)..(8 * size) : \E i \in 0..15 : n = FieldBit(i, size)
           /\ \A i, j \in 0..15 : FieldBit(i, size) = FieldBit(j, size) => i = j
<1>1. ASSUME NEW n \in (8 * (size - 2) + 1)..(8 * size)
      PROVE  \E i \in 0..15 : n = FieldBit(i, size)
    <2>1. CASE n <= 8 * (size - 1)
        <3>1. 8 * (size - 1) - n \in 0..15 /\ 8 * (size - 1) - n < 8
              /\ n = 8 * (size - 1) - (8 * (size - 1) - n)
            BY <2>1
        <3> QED
            BY <3>1 DEF FieldBit
    <2>2. CASE n > 8 * (size - 1)
        <3>1. 8 * size - n + 8 \in 0..15 /\ ~(8 * size - n + 8 < 8)
              /\ n = 8 * size - ((8 * size - n + 8) - 8)
            BY <2>2
        <3> QED
            BY <3>1 DEF FieldBit
    <2> QED
        BY <2>1, <2>2
<1>2. \A i, j \in 0..15 : FieldBit(i, size) = FieldBit(j, size) => i = j
    BY DEF FieldBit
<1> QED
    BY <1>1, <1>2

\* A frame that differs from an undamaged one in one bit, or in two at most
\* fifteen apart, does not carry its own CRC.
LEMMA DamageNoticed ==
    ASSUME NEW f \in Bytes, NEW g \in Bytes, NEW size, size = Len(f), size = Len(g), size >= 2,
           Crc16(f, size - 2) = Stored(f),
           NEW p \in 1..(8 * size), NEW q \in p..(8 * size), q <= p + 15,
           \A n \in 1..(8 * size) : BitOf(f, n) # BitOf(g, n) <=> n \in {p, q}
    PROVE  Crc16(g, size - 2) # Stored(g)
<1> SUFFICES ASSUME Crc16(g, size - 2) = Stored(g) PROVE FALSE
    OBVIOUS
<1> DEFINE body == size - 2
           last == 8 * body
           A == Apart(Stored(f), Stored(g))
           H == Differing(f, g, last)
<1>1. size \in Nat /\ body \in Nat /\ body <= Len(f) /\ body <= Len(g) /\ last \in Nat
      /\ last <= 8 * size /\ last = 8 * (size - 2)
    <2>1. Len(f) \in Nat
        BY DEF Bytes
    <2> QED
        BY <2>1
<1>2. \A i \in 0..15 : FieldBit(i, size) \in (last + 1)..(8 * size)
                       /\ (i \in A <=> FieldBit(i, size) \in {p, q})
    <2> SUFFICES ASSUME NEW i \in 0..15
                 PROVE  FieldBit(i, size) \in (last + 1)..(8 * size)
                        /\ (i \in A <=> FieldBit(i, size) \in {p, q})
        OBVIOUS
    <2>1. /\ FieldBit(i, size) \in (8 * (size - 2) + 1)..(8 * size)
          /\ BitOf(f, FieldBit(i, size)) = Digit(Stored(f), i)
          /\ BitOf(g, FieldBit(i, size)) = Digit(Stored(g), i)
        BY FieldBits
    <2> DEFINE n == FieldBit(i, size)
    <2>2. n \in (last + 1)..(8 * size)
        BY <2>1
    <2>3. n \in 1..(8 * size)
        BY <1>1, <2>2
    <2>4. i \in A <=> BitOf(f, n) # BitOf(g, n)
        BY <2>1 DEF Apart
    <2> QED
        BY <2>2, <2>3, <2>4
<1>3. PICK D : Trail(D, H, last) /\ D[last] = A
    <2>1. \E D : /\ Trail(D, Differing(f, g, 8 * body), 8 * body)
                 /\ D[8 * body] = Apart(Crc16(f, body), Crc16(g, body))
        <3> HIDE DEF body
        <3> QED
            BY <1>1, TrailOfFrames
    <2> QED
        BY <2>1
<1>4. \A n \in 1..last : n \in H <=> n \in {p, q}
    BY <1>1 DEF Differing
<1> HIDE DEF body, last, A, H
<1>5. CASE p > last
    <2>1. last \in 0..last /\ \A n \in 1..last : n \notin H
        BY <1>1, <1>4, <1>5
    <2>2. A = {}
        BY <1>1, <1>3, <2>1, TogetherSoFar
    <2>3. p \in (8 * (size - 2) + 1)..(8 * size)
        BY <1>1, <1>5
    <2>4. PICK i \in 0..15 : p = FieldBit(i, size)
        BY <1>1, <2>3, FieldBitsCover
    <2> QED
        BY <1>2, <2>2, <2>4
<1>6. CASE q <= last
    <2>1. A = {}
        <3>1. ASSUME NEW i \in 0..15 PROVE i \notin A
            <4>1. FieldBit(i, size) \in (last + 1)..(8 * size)
                BY <1>2
            <4>2. FieldBit(i, size) # p /\ FieldBit(i, size) # q
                BY <1>1, <1>6, <4>1
            <4> QED
                BY <1>2, <4>2
        <3> QED
            BY <3>1 DEF A, Apart
    <2>2. p \in 1..last /\ p \in H /\ q \in H
        BY <1>1, <1>4, <1>6
    <2>3. CASE p = q
        <3>1. \A n \in 1..last : n # p => n \notin H
            BY <1>4, <2>3
        <3>2. D[last] # {}
            BY <1>1, <1>3, <2>2, <3>1, OneHit
        <3> QED
            BY <1>3, <2>1, <3>2
    <2>4. CASE p # q
        <3>1. q \in (p + 1)..last
            BY <1>1, <1>6, <2>4
        <3>2. \A n \in 1..last : n # p /\ n # q => n \notin H
            BY <1>4
        <3>3. D[last] # {}
            BY <1>1, <1>3, <2>2, <3>1, <3>2, TwoHits
        <3> QED
            BY <1>3, <2>1, <3>3
    <2> QED
        BY <2>3, <2>4
<1>7. CASE p <= last /\ q > last
    <2>1. p \in 1..last /\ last <= p + 14 /\ last - p + 1 \in 1..15
        <3>1. last \in Nat /\ p \in Nat /\ p >= 1 /\ q \in Nat
            BY <1>1
        <3> QED
            BY <1>7, <3>1
    <2>2. p \in H
        BY <1>4, <2>1
    <2>3. ASSUME NEW n \in 1..last, n # p PROVE n \notin H
        <3>1. n # q
            BY <1>1, <1>7, <2>3
        <3> QED
            BY <1>4, <2>3, <3>1
    <2>4. p \in 1..last /\ p \in H /\ (\A n \in 1..last : n # p => n \notin H)
          /\ last <= p + 14 /\ last - p + 1 \in 1..15
        BY <2>1, <2>2, <2>3
    <2> DEFINE j == last - p + 1
    <2>5. A = Pattern[j] /\ j \in 1..15
        <3>1. D[last] = Pattern[last - p + 1]
            <4>1. last \in Nat /\ Trail(D, H, last)
                BY <1>1, <1>3
            <4>2. D[last] # {} /\ (last <= p + 14 => D[last] = Pattern[last - p + 1])
                <5>1. p \in 1..last /\ p \in H /\ (\A n \in 1..last : n # p => n \notin H)
                    BY <2>4
                <5> HIDE DEF j
                <5> QED
                    BY <4>1, <5>1, OneHit
            <4> QED
                BY <2>4, <4>2
        <3> QED
            BY <1>3, <2>4, <3>1
    <2> HIDE DEF j
    <2>6. PICK x, y \in A : x \in 0..14 /\ y \in 0..15 /\ x # y
        <3>1. \E x, y \in Pattern[j] : x \in 0..14 /\ y \in 0..15 /\ x # y
            BY <2>5, PatternIsWide
        <3> QED
            BY <2>5, <3>1
    <2>7. x \in 0..15
        BY <2>6
    <2>8. FieldBit(x, size) = q /\ FieldBit(y, size) = q
        <3>1. ASSUME NEW z \in A, z \in 0..15 PROVE FieldBit(z, size) = q
            <4>1. FieldBit(z, size) \in (last + 1)..(8 * size) /\ FieldBit(z, size) \in {p, q}
                BY <1>2, <3>1
            <4>2. FieldBit(z, size) # p
                BY <1>1, <1>7, <4>1
            <4> QED
                BY <4>1, <4>2
        <3> QED
            BY <2>6, <2>7, <3>1
    <2>9. \A i, k \in 0..15 : FieldBit(i, size) = FieldBit(k, size) => i = k
        BY <1>1, FieldBitsCover
    <2> QED
        BY <2>6, <2>7, <2>8, <2>9
<1> QED
    BY <1>1, <1>5, <1>6, <1>7

-----------------------------------------------------------------------------
(* Codecs: the parts of a frame *)

\* The bytes s lie in a frame, after its first m bytes.
Carries(f, m, s) ==
    /\ m + Len(s) <= Len(f)
    /\ \A i \in 1..Len(s) : f[m + i] = s[i]

\* A frame is a beginning and an end, and all that the beginning carries.
Lengthened(g, s, t) ==
    /\ g \in Bytes /\ Len(g) = Len(s) + Len(t)
    /\ Carries(g, 0, s) /\ Carries(g, Len(s), t)
    /\ \A m \in Nat : \A u \in Bytes : Carries(s, m, u) => Carries(g, m, u)

\* To put two strings of bytes one after the other gives such a frame.
LEMMA Joined ==
    ASSUME NEW s \in Bytes, NEW t \in Bytes, NEW g, g = s \o t
    PROVE  Lengthened(g, s, t)
<1>1. s \in Seq(Word(1)) /\ t \in Seq(Word(1)) /\ Len(s) \in Nat /\ Len(t) \in Nat
    BY DEF Bytes
<1>2. /\ s \o t \in Seq(Word(1)) /\ Len(s \o t) = Len(s) + Len(t)
      /\ \A i \in 1..(Len(s) + Len(t)) :
            (s \o t)[i] = IF i <= Len(s) THEN s[i] ELSE t[i - Len(s)]
    BY <1>1, ConcatProperties
<1>3. \A i \in 1..(Len(s) + Len(t)) : g[i] = IF i <= Len(s) THEN s[i] ELSE t[i - Len(s)]
    BY <1>2
<1>4. Len(g) = Len(s) + Len(t) /\ g \in Bytes
    BY <1>2 DEF Bytes
<1>5. Carries(g, 0, s)
    <2>1. \A i \in 1..Len(s) : 0 + i = i /\ i \in 1..(Len(s) + Len(t)) /\ i <= Len(s)
        BY <1>1
    <2>2. 0 + Len(s) <= Len(g)
        BY <1>1, <1>4
    <2> QED
        BY <1>3, <2>1, <2>2 DEF Carries
<1>6. Carries(g, Len(s), t)
    <2>1. \A i \in 1..Len(t) : /\ Len(s) + i \in 1..(Len(s) + Len(t)) /\ ~(Len(s) + i <= Len(s))
                               /\ (Len(s) + i) - Len(s) = i
        BY <1>1
    <2> QED
        BY <1>1, <1>3, <1>4, <2>1 DEF Carries
<1>7. ASSUME NEW m \in Nat, NEW u \in Bytes, Carries(s, m, u) PROVE Carries(g, m, u)
    <2>1. Len(u) \in Nat /\ m + Len(u) <= Len(s)
        BY <1>7 DEF Carries, Bytes
    <2>2. \A i \in 1..Len(u) : m + i \in 1..(Len(s) + Len(t)) /\ m + i <= Len(s)
        BY <1>1, <2>1
    <2>3. m + Len(u) <= Len(g)
        BY <1>1, <1>4, <2>1
    <2> QED
        BY <1>3, <1>7, <2>2, <2>3 DEF Carries
<1> QED
    BY <1>4, <1>5, <1>6, <1>7 DEF Lengthened

\* The bytes from first to last are s.
Excerpt(f, first, last, s) == SubSeq(f, first, last) = s

\* What is carried is what is cut out.
LEMMA CarriedIsCut ==
    ASSUME NEW f \in Bytes, NEW m \in Nat, NEW s \in Bytes, Carries(f, m, s),
           NEW first, NEW last, first = m + 1, last = m + Len(s)
    PROVE  Excerpt(f, first, last, s)
<1> DEFINE b == SubSeq(f, m + 1, last)
<1>1. Len(s) \in Nat /\ Len(f) \in Nat /\ last <= Len(f) /\ s \in Seq(Word(1))
    BY DEF Carries, Bytes
<1>2. \A i \in (m + 1)..last : f[i] \in Word(1)
    <2>1. \A i \in (m + 1)..last : i \in 1..Len(f)
        BY <1>1
    <2>2. \A i \in 1..Len(f) : f[i] \in Word(1)
        BY DEF Bytes
    <2> QED
        BY <2>1, <2>2
<1>3. m + 1 \in Int /\ last \in Int /\ last - (m + 1) + 1 = Len(s)
    BY <1>1
<1>4. /\ b \in Seq(Word(1))
      /\ Len(b) = IF m + 1 <= last THEN last - (m + 1) + 1 ELSE 0
      /\ \A i \in 1..(last - (m + 1) + 1) : b[i] = f[(m + 1) + i - 1]
    BY <1>2, <1>3, SubSeqProperties
<1> HIDE DEF b
<1>5. Len(b) = Len(s)
    BY <1>1, <1>3, <1>4
<1>6. \A i \in 1..Len(b) : b[i] = s[i]
    <2> SUFFICES ASSUME NEW i \in 1..Len(s) PROVE b[i] = s[i]
        BY <1>5
    <2>1. b[i] = f[(m + 1) + i - 1]
        BY <1>3, <1>4
    <2>2. (m + 1) + i - 1 = m + i
        BY <1>1
    <2>3. f[m + i] = s[i]
        BY DEF Carries
    <2> QED
        BY <2>1, <2>2, <2>3
<1>7. b = s
    BY <1>1, <1>4, <1>5, <1>6, SeqEqual
<1> QED
    BY <1>7 DEF b, Excerpt

\* The CRC of a frame's beginning is that of the beginning alone.
LEMMA CrcOfBeginning ==
    ASSUME NEW f \in Bytes, NEW s \in Bytes, Carries(f, 0, s)
    PROVE  Crc16(f, Len(s)) = Crc16(s, Len(s)) /\ Crc16(s, Len(s)) \in Word(2)
<1> DEFINE size == Len(s)
<1>1. size \in Nat /\ size <= Len(s) /\ size <= Len(f) /\ \A i \in 1..size : f[i] = s[i]
    <2>1. \A i \in 1..size : 0 + i = i
        OBVIOUS
    <2> QED
        BY <2>1 DEF Carries, Bytes
<1>2. ASSUME NEW n \in 1..(8 * size) PROVE BitOf(s, n) = BitOf(f, n)
    <2>1. n \in Nat \ {0} /\ n <= 8 * size
        BY <1>1
    <2>2. PlaceOf(n) \in 1..size
        BY <1>1, <2>1, PlacesCover
    <2> QED
        BY <1>1, <2>2 DEF BitOf
<1> HIDE DEF size
<1>3. Crc16(s, size) = Crc16(f, size)
    BY <1>1, <1>2, SameCrc
<1>4. PICK r : Run(r, s, 8 * size) /\ Crc16(s, size) = r[8 * size]
    BY <1>1, CrcRuns
<1>5. Crc16(s, size) \in Word(2)
    <2>1. 8 * size \in 0..(8 * size)
        BY <1>1
    <2> QED
        BY <1>4, <2>1 DEF Run
<1> QED
    BY <1>3, <1>5 DEF size

\* Sizes and codes of the four kinds fit in the header.
LEMMA Sizes ==
    ASSUME NEW kind \in Kind
    PROVE  /\ PayloadSize[kind] \in Nat /\ PayloadSize[kind] < 256
           /\ PayloadSize[kind] \in Word(2)
           /\ FrameSize(kind) = PayloadSize[kind] + 12 /\ FrameSize(kind) \in Nat
           /\ TypeCode[kind] \in Word(1)
           /\ Magic(kind) \in Bytes /\ Len(Magic(kind)) = 2
<1>1. kind \in {"command", "telemetry", "sensor_guidance", "flight_output"}
    BY DEF Kind
<1>2. PayloadSize[kind] \in Nat /\ PayloadSize[kind] < 256
    BY <1>1 DEF PayloadSize
<1>3. PayloadSize[kind] \in Word(2)
    BY <1>2, WordMeans
<1>4. FrameSize(kind) = PayloadSize[kind] + 12
    BY <1>2 DEF FrameSize, HeaderSize, CrcSize
<1>5. TypeCode[kind] \in Nat /\ TypeCode[kind] < 256
    BY <1>1 DEF TypeCode
<1>6. TypeCode[kind] \in Word(1)
    BY <1>5, WordMeans
<1>7. Magic(kind) \in Bytes /\ Len(Magic(kind)) = 2
    <2> DEFINE other == IF kind \in {"command", "telemetry"} THEN 70 ELSE 72
    <2>1. 65 \in Word(1) /\ other \in Word(1)
        BY WordMeans
    <2> HIDE DEF other
    <2>2. <<65, other>> \in Seq(Word(1)) /\ Len(<<65, other>>) = 2
        BY <2>1
    <2> QED
        BY <2>2 DEF Magic, Bytes, other
<1> QED
    BY <1>2, <1>3, <1>4, <1>6, <1>7

\* The bytes of a payload.
PayloadOf(kind, v) == [p \in 1..PayloadSize[kind] |-> PayloadByte(Written[kind], v, p - 1)]

\* A frame has its parts one after the other, and carries its own CRC.
LEMMA PackMeans ==
    ASSUME NEW kind \in Kind, NEW seq \in Word(4), NEW v, PayloadOf(kind, v) \in Bytes
    PROVE  LET P == Pack(kind, seq, v)
               n == FrameSize(kind)
           IN /\ P \in Bytes /\ Len(P) = n
              /\ Carries(P, 0, Magic(kind)) /\ Carries(P, 2, <<Version, TypeCode[kind]>>)
              /\ Carries(P, 4, Put(PayloadSize[kind], 2)) /\ Carries(P, 6, Put(seq, 4))
              /\ Carries(P, 10, PayloadOf(kind, v))
              /\ Crc16(P, n - 2) = Stored(P)
<1> DEFINE size == PayloadSize[kind]
           s1 == Magic(kind)
           s2 == <<Version, TypeCode[kind]>>
           s3 == Put(size, 2)
           s4 == Put(seq, 4)
           s5 == PayloadOf(kind, v)
           b2 == s1 \o s2
           b3 == b2 \o s3
           b4 == b3 \o s4
           body == b4 \o s5
           crc == Crc16(body, Len(body))
           s6 == Put(crc, 2)
           P == body \o s6
<1>1. s1 \in Bytes /\ Len(s1) = 2
    BY Sizes
<1>2. s2 \in Bytes /\ Len(s2) = 2
    <2>1. 1 \in Word(1) /\ TypeCode[kind] \in Word(1)
        BY Sizes, WordMeans
    <2> DEFINE t == TypeCode[kind]
    <2> HIDE DEF t
    <2>2. <<1, t>> \in Seq(Word(1)) /\ Len(<<1, t>>) = 2
        BY <2>1 DEF t
    <2> QED
        BY <2>2 DEF Version, Bytes, t
<1>3. s3 \in Bytes /\ Len(s3) = 2
    <2>1. size \in Int
        BY Sizes
    <2> HIDE DEF size
    <2>2. s3 \in Bytes /\ Cut(s3, size, 2)
        BY <2>1, PutMeans
    <2> QED
        BY <2>2 DEF Cut
<1>4. s4 \in Bytes /\ Len(s4) = 4
    <2>1. seq \in Int
        BY WideWord
    <2>2. s4 \in Bytes /\ Cut(s4, seq, 4)
        BY <2>1, PutMeans
    <2> QED
        BY <2>2 DEF Cut
<1>5. s5 \in Bytes /\ Len(s5) = size
    <2>1. size \in Nat
        BY Sizes
    <2> DEFINE e == [p \in 1..size |-> PayloadByte(Written[kind], v, p - 1)]
    <2>2. s5 = e
        BY DEF PayloadOf
    <2>3. DOMAIN e = 1..size
        OBVIOUS
    <2>4. Len(s5) \in Nat /\ DOMAIN s5 = 1..Len(s5) /\ s5 \in Bytes
        BY DEF Bytes
    <2> HIDE DEF e, s5, size
    <2> QED
        BY <2>1, <2>2, <2>3, <2>4
<1>6. size \in Nat /\ FrameSize(kind) = size + 12
    BY Sizes
<1>7. Pack(kind, seq, v) = P
    BY DEF Pack, PayloadOf
<1> HIDE DEF size, s1, s2, s3, s4, s5
<1>8. /\ b2 \in Bytes /\ Len(b2) = 4 /\ Carries(b2, 0, s1) /\ Carries(b2, 2, s2)
    <2>1. Lengthened(b2, s1, s2)
        <3>1. b2 = s1 \o s2
            OBVIOUS
        <3> HIDE DEF b2
        <3> QED
            BY <1>1, <1>2, <3>1, Joined, Zenon
    <2> HIDE DEF b2
    <2>2. 0 \in Nat /\ 2 \in Nat /\ 4 \in Nat /\ 6 \in Nat /\ 10 \in Nat
        OBVIOUS
    <2> QED
        BY <1>1, <1>2, <1>3, <1>4, <1>5, <2>1, <2>2 DEF Lengthened
<1> HIDE DEF b2
<1>9. /\ b3 \in Bytes /\ Len(b3) = 6 /\ Carries(b3, 0, s1) /\ Carries(b3, 2, s2)
      /\ Carries(b3, 4, s3)
    <2>1. Lengthened(b3, b2, s3)
        <3>1. b3 = b2 \o s3
            OBVIOUS
        <3> HIDE DEF b3
        <3> QED
            BY <1>3, <1>8, <3>1, Joined, Zenon
    <2> HIDE DEF b3
    <2>2. 0 \in Nat /\ 2 \in Nat /\ 4 \in Nat /\ 6 \in Nat /\ 10 \in Nat
        OBVIOUS
    <2> QED
        BY <1>1, <1>2, <1>3, <1>4, <1>5, <1>8, <2>1, <2>2 DEF Lengthened
<1> HIDE DEF b3
<1>10. /\ b4 \in Bytes /\ Len(b4) = 10 /\ Carries(b4, 0, s1) /\ Carries(b4, 2, s2)
      /\ Carries(b4, 4, s3) /\ Carries(b4, 6, s4)
    <2>1. Lengthened(b4, b3, s4)
        <3>1. b4 = b3 \o s4
            OBVIOUS
        <3> HIDE DEF b4
        <3> QED
            BY <1>4, <1>9, <3>1, Joined, Zenon
    <2> HIDE DEF b4
    <2>2. 0 \in Nat /\ 2 \in Nat /\ 4 \in Nat /\ 6 \in Nat /\ 10 \in Nat
        OBVIOUS
    <2> QED
        BY <1>1, <1>2, <1>3, <1>4, <1>5, <1>9, <2>1, <2>2 DEF Lengthened
<1> HIDE DEF b4
<1>11. /\ body \in Bytes /\ Len(body) = 10 + size /\ Carries(body, 0, s1) /\ Carries(body, 2, s2)
       /\ Carries(body, 4, s3) /\ Carries(body, 6, s4) /\ Carries(body, 10, s5)
    <2>1. Lengthened(body, b4, s5)
        <3>1. body = b4 \o s5
            OBVIOUS
        <3> HIDE DEF body
        <3> QED
            BY <1>5, <1>10, <3>1, Joined, Zenon
    <2> HIDE DEF body
    <2>2. 0 \in Nat /\ 2 \in Nat /\ 4 \in Nat /\ 6 \in Nat /\ 10 \in Nat
        OBVIOUS
    <2> QED
        BY <1>1, <1>2, <1>3, <1>4, <1>5, <1>10, <2>1, <2>2 DEF Lengthened
<1> HIDE DEF body
<1>12. crc \in Word(2)
    <2>1. \A i \in 1..Len(body) : 0 + i = i
        BY <1>11
    <2>2. Carries(body, 0, body)
        BY <1>6, <1>11, <2>1 DEF Carries
    <2> QED
        BY <1>11, <2>2, CrcOfBeginning
<1> HIDE DEF crc
<1>13. s6 \in Bytes /\ Len(s6) = 2 /\ Get(s6) = crc
    <2>1. crc \in Int /\ Get(Put(crc, 2)) = crc
        BY <1>12, GetsWhatWasPut
    <2> QED
        BY <2>1, PutMeans DEF Cut
<1> HIDE DEF s6
<1>14. /\ P \in Bytes /\ Len(P) = size + 12 /\ Carries(P, 0, s1) /\ Carries(P, 2, s2)
       /\ Carries(P, 4, s3) /\ Carries(P, 6, s4) /\ Carries(P, 10, s5)
       /\ Carries(P, 0, body) /\ Carries(P, 10 + size, s6)
    <2>1. Lengthened(P, body, s6)
        <3>1. P = body \o s6
            OBVIOUS
        <3> HIDE DEF P
        <3> QED
            BY <1>6, <1>11, <1>13, <3>1, Joined, Zenon
    <2> HIDE DEF P
    <2>2. 0 \in Nat /\ 2 \in Nat /\ 4 \in Nat /\ 6 \in Nat /\ 10 \in Nat
        OBVIOUS
    <2> QED
        BY <1>1, <1>2, <1>3, <1>4, <1>5, <1>6, <1>11, <1>13, <2>1, <2>2 DEF Lengthened
<1> HIDE DEF P
<1>15. Crc16(P, FrameSize(kind) - 2) = crc
    <2>1. FrameSize(kind) - 2 = Len(body)
        BY <1>6, <1>11
    <2>2. Crc16(P, Len(body)) = Crc16(body, Len(body))
        BY <1>11, <1>14, CrcOfBeginning
    <2> QED
        BY <2>1, <2>2 DEF crc
<1>16. Stored(P) = crc
    <2>1. 10 + size \in Nat /\ (10 + size) + 1 = Len(P) - 1 /\ (10 + size) + Len(s6) = Len(P)
        BY <1>6, <1>13, <1>14
    <2> DEFINE first == Len(P) - 1
               last == Len(P)
               m == 10 + size
    <2>2. m \in Nat /\ first = m + 1 /\ last = m + Len(s6) /\ Carries(P, m, s6)
        BY <1>14, <2>1
    <2>3. Stored(P) = Get(SubSeq(P, first, last))
        BY DEF Stored
    <2> HIDE DEF first, last, m
    <2>4. Excerpt(P, first, last, s6)
        <3>1. P \in Bytes /\ s6 \in Bytes
            BY <1>13, <1>14
        <3> QED
            BY <2>2, <3>1, CarriedIsCut
    <2> QED
        BY <1>13, <2>3, <2>4 DEF Excerpt
<1> QED
    BY <1>7, <1>6, <1>14, <1>15, <1>16 DEF s1, s2, s3, s4, s5, size

-----------------------------------------------------------------------------
(* Codecs: layouts *)

\* The first offset after a field.
End(field) == field.at + field.width * field.count

\* The fields of a layout lie within a payload, and apart from each other.
FieldFits(field, size) ==
    /\ field.at \in Nat /\ field.width \in {1, 2, 4} /\ field.count \in Nat
    /\ End(field) <= size

Disjoint(field, other) == End(field) <= other.at \/ End(other) <= field.at

Sound(layout, size) ==
    \A f \in DOMAIN layout :
        /\ FieldFits(layout[f], size)
        /\ \A g \in DOMAIN layout : f # g => Disjoint(layout[f], layout[g])

\* The parts of a field.
LEMMA FieldParts ==
    \A start, width, count :
        /\ Field(start, width, count).at = start /\ Field(start, width, count).width = width
        /\ Field(start, width, count).count = count
BY DEF Field

\* Each of the four layouts is sound, for the size of its payload.
LEMMA CommandSound == Sound(CommandWritten, 16)
<1> DEFINE L == CommandWritten
<1>1. DOMAIN L = {"motor_index", "armed", "flags", "throttle_q15", "session_id",
                  "command_timeout_ms", "heartbeat_timeout_ms"}
    BY DEF CommandWritten
<1>2. /\ L["motor_index"] = Field(0, 1, 1) /\ L["armed"] = Field(1, 1, 1)
      /\ L["flags"] = Field(2, 2, 1) /\ L["throttle_q15"] = Field(4, 2, 1)
      /\ L["session_id"] = Field(8, 4, 1) /\ L["command_timeout_ms"] = Field(12, 2, 1)
      /\ L["heartbeat_timeout_ms"] = Field(14, 2, 1)
    BY DEF CommandWritten
<1> HIDE DEF L
<1>3. \A f \in DOMAIN L : FieldFits(L[f], 16)
    BY <1>1, <1>2, FieldParts DEF FieldFits, End
<1>4. \A f, g \in DOMAIN L : f # g => Disjoint(L[f], L[g])
    BY <1>1, <1>2, FieldParts DEF Disjoint, End
<1> QED
    BY <1>3, <1>4 DEF Sound, L

LEMMA TelemetrySound == Sound(TelemetryWritten, 28)
<1> DEFINE L == TelemetryWritten
<1>1. DOMAIN L = {"motor_index", "motor_mode", "fault_flags", "bus_voltage_mv",
                  "dc_current_ma", "electrical_period_us", "duty_q15",
                  "acknowledged_sequence"}
    BY DEF TelemetryWritten
<1>2. /\ L["motor_index"] = Field(0, 1, 1) /\ L["motor_mode"] = Field(1, 1, 1)
      /\ L["fault_flags"] = Field(4, 4, 1) /\ L["bus_voltage_mv"] = Field(8, 4, 1)
      /\ L["dc_current_ma"] = Field(12, 4, 1) /\ L["electrical_period_us"] = Field(16, 4, 1)
      /\ L["duty_q15"] = Field(20, 2, 1) /\ L["acknowledged_sequence"] = Field(24, 4, 1)
    BY DEF TelemetryWritten
<1> HIDE DEF L
<1>3. \A f \in DOMAIN L : FieldFits(L[f], 28)
    BY <1>1, <1>2, FieldParts DEF FieldFits, End
<1>4. \A f, g \in DOMAIN L : f # g => Disjoint(L[f], L[g])
    BY <1>1, <1>2, FieldParts DEF Disjoint, End
<1> QED
    BY <1>3, <1>4 DEF Sound, L

LEMMA SensorGuidanceSound == Sound(SensorGuidanceWritten, 96)
<1> DEFINE L == SensorGuidanceWritten
<1>1. DOMAIN L = {"session_id", "host_timestamp_us", "sensor_timestamp_us",
                  "arm_requested", "sensor_accuracy", "quaternion", "angular_rate",
                  "linear_acceleration", "guidance_quaternion", "guidance_angular_rate",
                  "collective_thrust_n"}
    BY DEF SensorGuidanceWritten
<1>2. /\ L["session_id"] = Field(0, 4, 1) /\ L["host_timestamp_us"] = Field(4, 4, 2)
      /\ L["sensor_timestamp_us"] = Field(12, 4, 2) /\ L["arm_requested"] = Field(20, 1, 1)
      /\ L["sensor_accuracy"] = Field(21, 1, 1) /\ L["quaternion"] = Field(24, 4, 4)
      /\ L["angular_rate"] = Field(40, 4, 3) /\ L["linear_acceleration"] = Field(52, 4, 3)
      /\ L["guidance_quaternion"] = Field(64, 4, 4) /\ L["guidance_angular_rate"] = Field(80, 4, 3)
      /\ L["collective_thrust_n"] = Field(92, 4, 1)
    BY DEF SensorGuidanceWritten
<1> HIDE DEF L
<1>3. \A f \in DOMAIN L : FieldFits(L[f], 96)
    BY <1>1, <1>2, FieldParts DEF FieldFits, End
<1>4. \A f, g \in DOMAIN L : f # g => Disjoint(L[f], L[g])
    BY <1>1, <1>2, FieldParts DEF Disjoint, End
<1> QED
    BY <1>3, <1>4 DEF Sound, L

LEMMA FlightOutputSound == Sound(FlightOutputWritten, 112)
<1> DEFINE L == FlightOutputWritten
<1>1. DOMAIN L = {"session_id", "acknowledged_sequence", "device_timestamp_us",
                  "execution_time_us", "fault_flags", "active_aiding_mask",
                  "step_result", "flight_state", "motor_q15", "motor_speed_rad_s",
                  "body_torque_nm", "collective_thrust_n", "observed_quaternion",
                  "observed_angular_rate", "observed_linear_acceleration"}
    BY DEF FlightOutputWritten
<1>2. /\ L["session_id"] = Field(0, 4, 1) /\ L["acknowledged_sequence"] = Field(4, 4, 1)
      /\ L["device_timestamp_us"] = Field(8, 4, 2) /\ L["execution_time_us"] = Field(16, 4, 1)
      /\ L["fault_flags"] = Field(20, 4, 1) /\ L["active_aiding_mask"] = Field(24, 4, 1)
      /\ L["step_result"] = Field(28, 1, 1) /\ L["flight_state"] = Field(29, 1, 1)
      /\ L["motor_q15"] = Field(32, 2, 4) /\ L["motor_speed_rad_s"] = Field(40, 4, 4)
      /\ L["body_torque_nm"] = Field(56, 4, 3) /\ L["collective_thrust_n"] = Field(68, 4, 1)
      /\ L["observed_quaternion"] = Field(72, 4, 4) /\ L["observed_angular_rate"] = Field(88, 4, 3)
      /\ L["observed_linear_acceleration"] = Field(100, 4, 3)
    BY DEF FlightOutputWritten
<1> HIDE DEF L
<1>3. \A f \in DOMAIN L : FieldFits(L[f], 112)
    BY <1>1, <1>2, FieldParts DEF FieldFits, End
<1>4. \A f, g \in DOMAIN L : f # g => Disjoint(L[f], L[g])
    BY <1>1, <1>2, FieldParts DEF Disjoint, End
<1> QED
    BY <1>3, <1>4 DEF Sound, L

\* An offset in a field is a byte of one of its words.
LEMMA OffsetInField ==
    ASSUME NEW width \in {1, 2, 4}, NEW count \in Nat, NEW n \in 0..(width * count - 1)
    PROVE  (n \div width) + 1 \in 1..count /\ (n % width) + 1 \in 1..width
<1>1. CASE width = 1
    BY <1>1
<1>2. CASE width = 2
    BY <1>2
<1>3. CASE width = 4
    BY <1>3
<1> QED
    BY <1>1, <1>2, <1>3

\* Byte k of word i has the offset that leads back to i and k.
LEMMA ByteOfWord ==
    ASSUME NEW width \in {1, 2, 4}, NEW count \in Nat, NEW i \in 1..count, NEW k \in 1..width,
           NEW n, n = (i - 1) * width + (k - 1)
    PROVE  n \in 0..(width * count - 1) /\ (n \div width) + 1 = i /\ (n % width) + 1 = k
<1>1. CASE width = 1
    BY <1>1
<1>2. CASE width = 2
    BY <1>2
<1>3. CASE width = 4
    BY <1>3
<1> QED
    BY <1>1, <1>2, <1>3

\* The values of a message are of the widths and counts that its layout says.
Fills(v, layout) ==
    \A f \in DOMAIN layout : v[f] \in [1..layout[f].count -> Word(layout[f].width)]

\* Whether a field lies at an offset.
Within(offset, field) == offset - field.at \in 0..(field.width * field.count - 1)

\* The byte at an offset is that of the one field that lies there.
LEMMA PayloadByteMeans ==
    ASSUME NEW layout, NEW size, Sound(layout, size), NEW v, NEW offset \in Nat
    PROVE  /\ (\A f \in DOMAIN layout : ~Within(offset, layout[f]))
                 => PayloadByte(layout, v, offset) = 0
           /\ \A f \in DOMAIN layout : Within(offset, layout[f]) =>
                 PayloadByte(layout, v, offset) =
                    Put(v[f][((offset - layout[f].at) \div layout[f].width) + 1],
                        layout[f].width)[((offset - layout[f].at) % layout[f].width) + 1]
<1> DEFINE here == {f \in DOMAIN layout :
                       offset - layout[f].at \in 0..(layout[f].width * layout[f].count - 1)}
           ByteOf(f) == Put(v[f][((offset - layout[f].at) \div layout[f].width) + 1],
                            layout[f].width)[((offset - layout[f].at) % layout[f].width) + 1]
<1>1. PayloadByte(layout, v, offset) =
          IF here = {} THEN 0 ELSE ByteOf(CHOOSE g \in here : TRUE)
    BY DEF PayloadByte
<1>2. \A f \in DOMAIN layout : f \in here <=> Within(offset, layout[f])
    BY DEF Within
<1>3. ASSUME NEW f \in here, NEW g \in here PROVE f = g
    <2>1. f \in DOMAIN layout /\ g \in DOMAIN layout
        OBVIOUS
    <2>2. FieldFits(layout[f], size) /\ FieldFits(layout[g], size)
          /\ (f # g => Disjoint(layout[f], layout[g]))
        BY <2>1 DEF Sound
    <2> DEFINE a == layout[f]
               b == layout[g]
    <2>3. /\ offset - a.at \in 0..(a.width * a.count - 1)
          /\ offset - b.at \in 0..(b.width * b.count - 1)
        OBVIOUS
    <2>4. FieldFits(a, size) /\ FieldFits(b, size) /\ (f # g => Disjoint(a, b))
        BY <2>2
    <2> HIDE DEF a, b, here
    <2>5. /\ a.at \in Nat /\ a.width * a.count \in Nat
          /\ b.at \in Nat /\ b.width * b.count \in Nat
        BY <2>4 DEF FieldFits
    <2>6. ~Disjoint(a, b)
        BY <2>3, <2>5 DEF Disjoint, End
    <2> QED
        BY <2>4, <2>6
<1> HIDE DEF here, ByteOf
<1>4. (\A f \in DOMAIN layout : ~Within(offset, layout[f])) => PayloadByte(layout, v, offset) = 0
    <2>1. here \subseteq DOMAIN layout
        BY DEF here
    <2> QED
        BY <1>1, <1>2, <2>1
<1>5. ASSUME NEW f \in DOMAIN layout, Within(offset, layout[f])
      PROVE  PayloadByte(layout, v, offset) = ByteOf(f)
    <2>1. f \in here
        BY <1>2, <1>5
    <2>2. (CHOOSE g \in here : TRUE) = f
        BY <1>3, <2>1
    <2> QED
        BY <1>1, <2>1, <2>2
<1> QED
    BY <1>4, <1>5 DEF ByteOf

\* Encoder and decoder have one layout, and it is sound.
LEMMA LayoutsSound ==
    ASSUME NEW kind \in Kind
    PROVE  Sound(Written[kind], PayloadSize[kind]) /\ Read[kind] = Written[kind]
<1>1. kind \in {"command", "telemetry", "sensor_guidance", "flight_output"}
    BY DEF Kind
<1>2. /\ CommandRead = CommandWritten /\ TelemetryRead = TelemetryWritten
      /\ SensorGuidanceRead = SensorGuidanceWritten /\ FlightOutputRead = FlightOutputWritten
    BY DEF CommandRead, CommandWritten, TelemetryRead, TelemetryWritten, SensorGuidanceRead,
           SensorGuidanceWritten, FlightOutputRead, FlightOutputWritten
<1>3. CASE kind = "command"
    BY <1>2, <1>3, CommandSound DEF Written, Read, PayloadSize
<1>4. CASE kind = "telemetry"
    BY <1>2, <1>4, TelemetrySound DEF Written, Read, PayloadSize
<1>5. CASE kind = "sensor_guidance"
    BY <1>2, <1>5, SensorGuidanceSound DEF Written, Read, PayloadSize
<1>6. CASE kind = "flight_output"
    BY <1>2, <1>6, FlightOutputSound DEF Written, Read, PayloadSize
<1> QED
    BY <1>1, <1>3, <1>4, <1>5, <1>6

\* The bytes of a word, by its width.
LEMMA WordInBytes ==
    ASSUME NEW width \in {1, 2, 4}, NEW word \in Word(width)
    PROVE  /\ word \in Int /\ Put(word, width) \in Bytes /\ Len(Put(word, width)) = width
           /\ \A k \in 1..width : Put(word, width)[k] \in Word(1)
<1>1. word \in Int
    BY GetsWhatWasPut
<1> DEFINE b == Put(word, width)
<1>2. b \in Bytes /\ Cut(b, word, width)
    BY <1>1, PutMeans
<1> HIDE DEF b
<1>3. Len(b) = width
    BY <1>2 DEF Cut
<1>4. \A k \in 1..width : b[k] \in Word(1)
    BY <1>2, <1>3 DEF Bytes
<1> QED
    BY <1>1, <1>2, <1>3, <1>4 DEF b

\* A payload is bytes, as many as the header says.
LEMMA PayloadTyped ==
    ASSUME NEW kind \in Kind, NEW v, Fills(v, Written[kind])
    PROVE  PayloadOf(kind, v) \in Bytes /\ Len(PayloadOf(kind, v)) = PayloadSize[kind]
<1> DEFINE layout == Written[kind]
           size == PayloadSize[kind]
           s == PayloadOf(kind, v)
<1>1. Sound(layout, size) /\ size \in Nat
    BY LayoutsSound, Sizes
<1>2. s = [p \in 1..size |-> PayloadByte(layout, v, p - 1)]
    BY DEF PayloadOf
<1> HIDE DEF layout, size, s
<1>3. ASSUME NEW p \in 1..size PROVE PayloadByte(layout, v, p - 1) \in Word(1)
    <2> DEFINE offset == p - 1
    <2>1. offset \in Nat
        BY <1>1
    <2> HIDE DEF offset
    <2>2. CASE \A f \in DOMAIN layout : ~Within(offset, layout[f])
        <3>1. PayloadByte(layout, v, offset) = 0
            BY <1>1, <2>1, <2>2, PayloadByteMeans
        <3> QED
            BY <3>1, WordMeans DEF offset
    <2>3. ASSUME NEW f \in DOMAIN layout, Within(offset, layout[f])
          PROVE  PayloadByte(layout, v, offset) \in Word(1)
        <3> DEFINE n == offset - layout[f].at
                   width == layout[f].width
                   count == layout[f].count
        <3>1. width \in {1, 2, 4} /\ count \in Nat /\ n \in 0..(width * count - 1)
            BY <1>1, <2>3 DEF Sound, FieldFits, Within
        <3>2. PayloadByte(layout, v, offset) = Put(v[f][(n \div width) + 1], width)[(n % width) + 1]
            BY <1>1, <2>1, <2>3, PayloadByteMeans
        <3>3. v[f] \in [1..count -> Word(width)]
            BY DEF Fills, layout
        <3> HIDE DEF n, width, count
        <3>4. (n \div width) + 1 \in 1..count /\ (n % width) + 1 \in 1..width
            BY <3>1, OffsetInField
        <3> DEFINE i == (n \div width) + 1
                   k == (n % width) + 1
        <3> HIDE DEF i, k
        <3>5. i \in 1..count /\ k \in 1..width
            BY <3>4 DEF i, k
        <3>6. v[f][i] \in Word(width)
            BY <3>3, <3>5
        <3>7. Put(v[f][i], width)[k] \in Word(1)
            BY <3>1, <3>5, <3>6, WordInBytes
        <3> QED
            BY <3>2, <3>7 DEF i, k
    <2> QED
        BY <2>2, <2>3 DEF offset
<1>4. s \in [1..size -> Word(1)]
    BY <1>2, <1>3
<1>5. s \in Seq(Word(1)) /\ Len(s) = size
    BY <1>1, <1>4
<1> QED
    BY <1>5 DEF Bytes, s, size

\* What a part of a frame carries, the frame carries.
LEMMA CarriedInside ==
    ASSUME NEW f \in Bytes, NEW s \in Bytes, NEW u \in Bytes, NEW m \in Nat, NEW n \in Nat,
           Carries(f, m, s), Carries(s, n, u)
    PROVE  Carries(f, m + n, u)
<1>1. Len(f) \in Nat /\ Len(s) \in Nat /\ Len(u) \in Nat
    BY DEF Bytes
<1>2. m + Len(s) <= Len(f) /\ n + Len(u) <= Len(s)
    BY DEF Carries
<1>3. (m + n) + Len(u) <= Len(f)
    BY <1>1, <1>2
<1>4. ASSUME NEW i \in 1..Len(u) PROVE f[(m + n) + i] = u[i]
    <2>1. n + i \in 1..Len(s) /\ (m + n) + i = m + (n + i)
        BY <1>1, <1>2
    <2>2. f[m + (n + i)] = s[n + i]
        BY <2>1 DEF Carries
    <2>3. s[n + i] = u[i]
        BY DEF Carries
    <2> QED
        BY <2>1, <2>2, <2>3
<1> QED
    BY <1>3, <1>4 DEF Carries

\* A payload carries every word of its values, at its place in the layout.
LEMMA WordCarried ==
    ASSUME NEW kind \in Kind, NEW v, Fills(v, Written[kind]),
           NEW f \in DOMAIN Written[kind], NEW i \in 1..Written[kind][f].count
    PROVE  LET field == Written[kind][f]
           IN Carries(PayloadOf(kind, v), field.at + (i - 1) * field.width,
                      Put(v[f][i], field.width))
<1> DEFINE layout == Written[kind]
           size == PayloadSize[kind]
           s == PayloadOf(kind, v)
           start == layout[f].at
           width == layout[f].width
           count == layout[f].count
           b == Put(v[f][i], width)
           m == start + (i - 1) * width
<1>1. Sound(layout, size) /\ size \in Nat
    BY LayoutsSound, Sizes
<1>2. \A p \in 1..size : s[p] = PayloadByte(layout, v, p - 1)
    BY DEF PayloadOf
<1>3. Len(s) = size
    BY PayloadTyped
<1>4. start \in Nat /\ width \in {1, 2, 4} /\ count \in Nat /\ i \in 1..count
      /\ start + width * count <= size
    BY <1>1 DEF Sound, FieldFits, End
<1>5. v[f][i] \in Word(width)
    BY DEF Fills
<1>6. \A offset \in Nat : Within(offset, layout[f]) => PayloadByte(layout, v, offset) =
          Put(v[f][((offset - start) \div width) + 1], width)[((offset - start) % width) + 1]
    BY <1>1, PayloadByteMeans
<1>7. \A offset : Within(offset, layout[f]) <=> offset - start \in 0..(width * count - 1)
    BY DEF Within
<1> HIDE DEF layout, size, s, start, width, count
<1>8. Len(b) = width
    BY <1>4, <1>5, WordInBytes
<1>9. m \in Nat /\ m + width <= size
    <2>1. CASE width = 1
        BY <1>1, <1>4, <2>1
    <2>2. CASE width = 2
        BY <1>1, <1>4, <2>2
    <2>3. CASE width = 4
        BY <1>1, <1>4, <2>3
    <2> QED
        BY <1>4, <2>1, <2>2, <2>3
<1>10. ASSUME NEW k \in 1..width PROVE s[m + k] = b[k]
    <2> DEFINE offset == m + k - 1
               n == (i - 1) * width + (k - 1)
    <2>1. m + k \in 1..size /\ offset \in Nat /\ (m + k) - 1 = offset
        BY <1>1, <1>4, <1>9
    <2>2. offset - start = n
        BY <1>4
    <2>3. n \in 0..(width * count - 1) /\ (n \div width) + 1 = i /\ (n % width) + 1 = k
        BY <1>4, ByteOfWord
    <2> HIDE DEF offset, n, m, b
    <2>4. Within(offset, layout[f])
        BY <1>7, <2>2, <2>3
    <2>5. PayloadByte(layout, v, offset) = Put(v[f][i], width)[k]
        BY <1>6, <2>1, <2>2, <2>3, <2>4
    <2>6. s[m + k] = PayloadByte(layout, v, offset)
        BY <1>2, <2>1
    <2> QED
        BY <2>5, <2>6 DEF b
<1>11. Carries(s, m, b)
    <2> HIDE DEF m, b
    <2> QED
        BY <1>3, <1>8, <1>9, <1>10 DEF Carries
<1> QED
    BY <1>11 DEF layout, s, start, width

-----------------------------------------------------------------------------
(* Codecs: what a decoder reads, and what it refuses *)

\* Values of the types of the structure fill its layout.
LEMMA TypedFills ==
    ASSUME NEW kind \in Kind, NEW v, WellTyped(kind, v)
    PROVE  Fills(v, Written[kind]) /\ v = [f \in DOMAIN Written[kind] |-> v[f]]
BY DEF WellTyped, Fills

\* What a decoder of the kind reads in a frame is what was packed.
LEMMA ValuesRead ==
    ASSUME NEW kind \in Kind, NEW seq \in Word(4), NEW v, WellTyped(kind, v)
    PROVE  [f \in DOMAIN Read[kind] |-> WordsAt(Pack(kind, seq, v), Read[kind][f])] = v
<1> DEFINE layout == Written[kind]
           s == PayloadOf(kind, v)
           P == Pack(kind, seq, v)
<1>1. Fills(v, layout) /\ v = [f \in DOMAIN layout |-> v[f]]
    BY TypedFills
<1>2. s \in Bytes
    BY <1>1, PayloadTyped
<1>3. P \in Bytes /\ Carries(P, 10, s)
    BY <1>2, PackMeans
<1>4. Sound(layout, PayloadSize[kind]) /\ Read[kind] = layout
    BY LayoutsSound
<1>5. ASSUME NEW f \in DOMAIN layout PROVE WordsAt(P, layout[f]) = v[f]
    <2> DEFINE field == layout[f]
               count == field.count
               width == field.width
    <2>1. v[f] \in [1..count -> Word(width)]
        BY <1>1 DEF Fills
    <2>2. width \in {1, 2, 4} /\ count \in Nat /\ field.at \in Nat
        BY <1>4 DEF Sound, FieldFits
    <2>3. ASSUME NEW i \in 1..count
          PROVE  Get(SubSeq(P, HeaderSize + field.at + (i - 1) * width + 1,
                               HeaderSize + field.at + (i - 1) * width + width)) = v[f][i]
        <3> DEFINE n == field.at + (i - 1) * width
                   m == 10 + n
                   b == Put(v[f][i], width)
                   start == HeaderSize + field.at + (i - 1) * width
        <3>1. v[f][i] \in Word(width)
            BY <2>1
        <3>2. b \in Bytes /\ Len(b) = width /\ Get(b) = v[f][i]
            BY <2>2, <3>1, WordInBytes, GetsWhatWasPut
        <3>3. Carries(s, n, b)
            BY <1>1, WordCarried
        <3>4. n \in Nat /\ start = m
            <4>1. (i - 1) * width \in Nat
                BY <2>2
            <4> DEFINE z == (i - 1) * width
            <4> HIDE DEF z
            <4>2. HeaderSize + field.at + z = 10 + (field.at + z) /\ field.at + z \in Nat
                BY <2>2, <4>1 DEF HeaderSize, z
            <4> QED
                BY <4>2 DEF z
        <3> HIDE DEF n, b, start, field, s, P
        <3>5. Carries(P, m, b)
            <4>1. 10 \in Nat
                OBVIOUS
            <4> QED
                BY <1>2, <1>3, <3>2, <3>3, <3>4, <4>1, CarriedInside
        <3>6. m \in Nat
            BY <3>4
        <3> DEFINE first == start + 1
                   last == start + width
        <3>7. first = m + 1 /\ last = m + Len(b)
            BY <3>2, <3>4
        <3> HIDE DEF m, first, last
        <3>8. Excerpt(P, first, last, b)
            BY <1>3, <3>2, <3>5, <3>6, <3>7, CarriedIsCut
        <3>9. Get(SubSeq(P, first, last)) = v[f][i]
            BY <3>2, <3>8 DEF Excerpt
        <3> QED
            BY <3>9 DEF first, last, start
    <2>4. WordsAt(P, field) =
            [i \in 1..count |-> Get(SubSeq(P, HeaderSize + field.at + (i - 1) * width + 1,
                                      HeaderSize + field.at + (i - 1) * width + width))]
        BY DEF WordsAt
    <2>5. v[f] = [i \in 1..count |-> v[f][i]]
        BY <2>1
    <2> QED
        BY <2>3, <2>4, <2>5
<1> HIDE DEF layout, P
<1>6. [f \in DOMAIN layout |-> WordsAt(P, layout[f])] = [f \in DOMAIN layout |-> v[f]]
    BY <1>5
<1> QED
    BY <1>1, <1>4, <1>6 DEF P

\* A frame with the parts of an encoder's passes the checks of its header.
LEMMA HeaderPasses ==
    ASSUME NEW kind \in Kind, NEW seq \in Word(4), NEW v, WellTyped(kind, v)
    PROVE  /\ Len(Pack(kind, seq, v)) = FrameSize(kind)
           /\ HeaderStatus(kind, Pack(kind, seq, v)) = "OK"
           /\ SequenceOf(Pack(kind, seq, v)) = seq
<1> DEFINE P == Pack(kind, seq, v)
           size == PayloadSize[kind]
           s1 == Magic(kind)
           s2 == <<Version, TypeCode[kind]>>
           s3 == Put(size, 2)
           s4 == Put(seq, 4)
<1>1. PayloadOf(kind, v) \in Bytes
    BY TypedFills, PayloadTyped
<1>2. /\ P \in Bytes /\ Len(P) = FrameSize(kind) /\ Carries(P, 0, s1) /\ Carries(P, 2, s2)
      /\ Carries(P, 4, s3) /\ Carries(P, 6, s4) /\ Crc16(P, FrameSize(kind) - 2) = Stored(P)
    BY <1>1, PackMeans
<1>3. s1 \in Bytes /\ Len(s1) = 2 /\ size \in Word(2)
    BY Sizes
<1>4. s3 \in Bytes /\ Len(s3) = 2 /\ Get(s3) = size
    BY <1>3, WordInBytes, GetsWhatWasPut
<1>5. s4 \in Bytes /\ Len(s4) = 4 /\ Get(s4) = seq
    BY WordInBytes, GetsWhatWasPut
<1>6. Len(s2) = 2 /\ s2[1] = Version /\ s2[2] = TypeCode[kind]
    BY DEF Version
<1> HIDE DEF P, size, s1, s2, s3, s4
<1>7. P[3] = Version /\ P[4] = TypeCode[kind]
    <2>1. 1 \in 1..2 /\ 2 \in 1..2 /\ 2 + 1 = 3 /\ 2 + 2 = 4
        OBVIOUS
    <2> QED
        BY <1>2, <1>6, <2>1 DEF Carries
<1> DEFINE none == 0
           four == 4
           six == 6
<1>8. none \in Nat /\ four \in Nat /\ six \in Nat /\ 1 = none + 1 /\ 2 = none + Len(s1)
      /\ 5 = four + 1 /\ 6 = four + Len(s3) /\ 7 = six + 1 /\ 10 = six + Len(s4)
    BY <1>3, <1>4, <1>5
<1>9. Carries(P, none, s1) /\ Carries(P, four, s3) /\ Carries(P, six, s4)
    BY <1>2
<1> HIDE DEF none, four, six
<1>10. Excerpt(P, 1, 2, s1)
    BY <1>2, <1>3, <1>8, <1>9, CarriedIsCut
<1>11. Excerpt(P, 5, 6, s3)
    BY <1>2, <1>4, <1>8, <1>9, CarriedIsCut
<1>12. Excerpt(P, 7, 10, s4)
    BY <1>2, <1>5, <1>8, <1>9, CarriedIsCut
<1>13. SequenceOf(P) = seq
    BY <1>5, <1>12 DEF SequenceOf, Excerpt
<1>14. HeaderStatus(kind, P) = "OK"
    <2>1. SubSeq(P, 1, 2) = Magic(kind) /\ Get(SubSeq(P, 5, 6)) = PayloadSize[kind]
        BY <1>4, <1>10, <1>11 DEF Excerpt, s1, size
    <2>2. Crc16(P, Len(P) - 2) = Get(SubSeq(P, Len(P) - 1, Len(P)))
        BY <1>2 DEF Stored
    <2> QED
        BY <1>2, <1>7, <2>1, <2>2 DEF HeaderStatus
<1> QED
    BY <1>2, <1>13, <1>14 DEF P

\* A frame that does not carry its own CRC passes none.
LEMMA HeaderRefuses ==
    ASSUME NEW kind \in Kind, NEW f,
           \/ Len(f) # FrameSize(kind)
           \/ Crc16(f, Len(f) - 2) # Stored(f)
    PROVE  HeaderStatus(kind, f) # "OK"
BY DEF HeaderStatus, Stored

\* The frames of two kinds have different sizes.
LEMMA SizesDiffer ==
    \A kind, other \in Kind : FrameSize(kind) = FrameSize(other) => kind = other
<1>1. /\ FrameSize("command") = 28 /\ FrameSize("telemetry") = 40
      /\ FrameSize("sensor_guidance") = 108 /\ FrameSize("flight_output") = 124
    BY DEF FrameSize, PayloadSize, HeaderSize, CrcSize
<1> QED
    BY <1>1 DEF Kind

\* The limits of a kind's decoder are its encoder's, and that Booleans are.
LEMMA AcceptableMeans ==
    ASSUME NEW m, m.kind \in Kind, WellTyped(m.kind, m.values)
    PROVE  Acceptable(m.kind, m.values) <=> Encodable(m.kind, m.values) /\ Proper(m)
<1> DEFINE kind == m.kind
           v == m.values
<1>1. kind \in {"command", "telemetry", "sensor_guidance", "flight_output"}
    BY DEF Kind
<1>2. /\ DOMAIN v = DOMAIN Written[kind]
      /\ \A f \in DOMAIN Written[kind] :
            v[f] \in [1..Written[kind][f].count -> Word(Written[kind][f].width)]
    BY DEF WellTyped
<1>3. CASE kind = "command"
    <2>1. "armed" \in DOMAIN v /\ "arm_requested" \notin DOMAIN v
        BY <1>2, <1>3 DEF Written, CommandWritten
    <2>2. v["armed"][1] \in Word(1)
        <3>1. Written[kind]["armed"] = Field(1, 1, 1)
            BY <1>3 DEF Written, CommandWritten
        <3>2. Written[kind]["armed"].count = 1 /\ Written[kind]["armed"].width = 1
            BY <3>1, FieldParts
        <3>3. v["armed"] \in [1..Written[kind]["armed"].count ->
                               Word(Written[kind]["armed"].width)]
            BY <1>2, <2>1
        <3>4. v["armed"] \in [1..1 -> Word(1)]
            BY <3>2, <3>3
        <3> QED
            BY <3>4
    <2>3. v["armed"][1] \in {0, 1} <=> v.armed[1] <= 1
        BY <2>2, WordMeans
    <2>4. Proper(m) <=> v["armed"][1] \in {0, 1}
        BY <2>1 DEF Proper
    <2> QED
        BY <1>3, <2>3, <2>4 DEF Acceptable, Encodable, AcceptedCommand, ValidCommand
<1>4. CASE kind = "telemetry"
    <2>1. "armed" \notin DOMAIN v /\ "arm_requested" \notin DOMAIN v
        BY <1>2, <1>4 DEF Written, TelemetryWritten
    <2>2. Proper(m)
        BY <2>1 DEF Proper
    <2> QED
        BY <1>4, <2>2 DEF Acceptable, Encodable, AcceptedTelemetry, ValidTelemetry
<1>5. CASE kind = "sensor_guidance"
    <2>1. "armed" \notin DOMAIN v /\ "arm_requested" \in DOMAIN v
        BY <1>2, <1>5 DEF Written, SensorGuidanceWritten
    <2>2. v["arm_requested"][1] \in Word(1)
        <3>1. Written[kind]["arm_requested"] = Field(20, 1, 1)
            BY <1>5 DEF Written, SensorGuidanceWritten
        <3>2. Written[kind]["arm_requested"].count = 1 /\ Written[kind]["arm_requested"].width = 1
            BY <3>1, FieldParts
        <3>3. v["arm_requested"] \in [1..Written[kind]["arm_requested"].count ->
                               Word(Written[kind]["arm_requested"].width)]
            BY <1>2, <2>1
        <3>4. v["arm_requested"] \in [1..1 -> Word(1)]
            BY <3>2, <3>3
        <3> QED
            BY <3>4
    <2>3. v["arm_requested"][1] \in {0, 1} <=> v.arm_requested[1] <= 1
        BY <2>2, WordMeans
    <2>4. Proper(m) <=> v["arm_requested"][1] \in {0, 1}
        BY <2>1 DEF Proper
    <2> QED
        BY <1>5, <2>3, <2>4 DEF Acceptable, Encodable, AcceptedSensorGuidance, ValidSensorGuidance
<1>6. CASE kind = "flight_output"
    <2>1. "armed" \notin DOMAIN v /\ "arm_requested" \notin DOMAIN v
        BY <1>2, <1>6 DEF Written, FlightOutputWritten
    <2>2. Proper(m)
        BY <2>1 DEF Proper
    <2> QED
        BY <1>6, <2>2 DEF Acceptable, Encodable, AcceptedFlightOutput, ValidFlightOutput
<1> QED
    BY <1>1, <1>3, <1>4, <1>5, <1>6

\* What a decoder does with a frame whose header it refuses,
LEMMA RefusedHeader ==
    ASSUME NEW kind \in Kind, NEW f, HeaderStatus(kind, f) # "OK"
    PROVE  Decode(kind, f).status # "OK" /\ Decode(kind, f).values = Zeroed(kind)
BY DEF Decode, Refusal

\* and with one that it passes.
LEMMA PassedHeader ==
    ASSUME NEW kind \in Kind, NEW f, HeaderStatus(kind, f) = "OK", NEW v,
           [x \in DOMAIN Read[kind] |-> WordsAt(f, Read[kind][x])] = v
    PROVE  IF Acceptable(kind, v)
           THEN /\ Decode(kind, f).status = "OK" /\ Decode(kind, f).seq = SequenceOf(f)
                /\ Decode(kind, f).values = v
           ELSE Decode(kind, f).status # "OK" /\ Decode(kind, f).values = Zeroed(kind)
<1>1. Decode(kind, f) = IF Acceptable(kind, v)
                        THEN [status |-> "OK", seq |-> SequenceOf(f), values |-> v]
                        ELSE Refusal(kind, "INVALID_FRAME", SequenceOf(f))
    BY DEF Decode
<1> QED
    BY <1>1 DEF Refusal

-----------------------------------------------------------------------------
(* Codecs: the line *)

\* What was put on the line for a message.
Packed(m) == Pack(m.kind, m.seq, m.values)

\* The frame differs from what was packed in the hits.
Hurt(f, whole, H) ==
    /\ f \in Bytes /\ Len(f) = Len(whole)
    /\ \E p, q \in H : /\ H = {p, q}
                       /\ p \in 1..(8 * Len(whole)) /\ q \in p..(8 * Len(whole))
                       /\ q <= p + 15
    /\ \A n \in 1..(8 * Len(whole)) : BitOf(whole, n) # BitOf(f, n) <=> n \in H

\* The line holds what was packed, undamaged or differing in the hits, of which
\* there are at most two within sixteen bits.  It is what makes
\* DecodesWhatWasSent inductive: the property does not mention the frame.
LineInv ==
    \/ /\ sent = NoMessage /\ frame = <<>> /\ hits = {} /\ answer = NoAnswer
    \/ /\ sent \in Messages
       /\ answer.by \in {"none", "encoder"} \cup Kind
       /\ \/ hits = {} /\ frame \in {<<>>, Packed(sent)}
          \/ hits # {} /\ Hurt(frame, Packed(sent), hits)

\* Of a message: what CodecAssumption says, and what its frame is.
LEMMA MessageTyped ==
    ASSUME NEW m \in Messages
    PROVE  /\ m.kind \in Kind /\ m.seq \in Word(4) /\ WellTyped(m.kind, m.values)
           /\ Packed(m) \in Bytes /\ Len(Packed(m)) = FrameSize(m.kind)
           /\ Len(Packed(m)) >= 2 /\ Len(Packed(m)) \in Nat
           /\ Crc16(Packed(m), FrameSize(m.kind) - 2) = Stored(Packed(m))
<1>1. m.kind \in Kind /\ m.seq \in Word(4) /\ WellTyped(m.kind, m.values)
    BY CodecAssumption
<1> DEFINE kind == m.kind
           seq == m.seq
           v == m.values
<1>2. kind \in Kind /\ seq \in Word(4) /\ WellTyped(kind, v) /\ Packed(m) = Pack(kind, seq, v)
    BY <1>1 DEF Packed
<1> HIDE DEF kind, seq, v
<1>3. PayloadOf(kind, v) \in Bytes
    BY <1>2, TypedFills, PayloadTyped
<1>4. /\ Packed(m) \in Bytes /\ Len(Packed(m)) = FrameSize(kind)
      /\ Crc16(Packed(m), FrameSize(kind) - 2) = Stored(Packed(m))
    BY <1>2, <1>3, PackMeans
<1>5. FrameSize(kind) \in Nat /\ FrameSize(kind) >= 2
    BY <1>2, Sizes
<1> QED
    BY <1>1, <1>4, <1>5 DEF kind

\* What the decoder of a kind answers to a frame on the line.
LEMMA DecodedOnTheLine ==
    ASSUME NEW kind \in Kind, LineInv, sent \in Messages, frame # <<>>
    PROVE  LET d == Decode(kind, frame)
           IN IF /\ hits = {} /\ kind = sent.kind
                 /\ Proper(sent) /\ Encodable(sent.kind, sent.values)
              THEN d.status = "OK" /\ d.seq = sent.seq /\ d.values = sent.values
              ELSE d.status # "OK" /\ d.values = Zeroed(kind)
<1> DEFINE d == Decode(kind, frame)
           P == Packed(sent)
           size == Len(P)
<1>1. /\ sent.kind \in Kind /\ sent.seq \in Word(4) /\ WellTyped(sent.kind, sent.values)
      /\ P \in Bytes /\ size = FrameSize(sent.kind) /\ size >= 2 /\ size \in Nat
      /\ Crc16(P, size - 2) = Stored(P)
    BY MessageTyped
<1>2. sent # NoMessage
    BY <1>1 DEF NoMessage, Kind
<1>3. Len(frame) = size
    BY <1>2 DEF LineInv, Hurt
<1>4. CASE kind # sent.kind
    <2>1. Len(frame) # FrameSize(kind)
        BY <1>1, <1>3, <1>4, SizesDiffer
    <2>2. HeaderStatus(kind, frame) # "OK"
        BY <2>1, HeaderRefuses
    <2>3. d.status # "OK" /\ d.values = Zeroed(kind)
        BY <2>2, RefusedHeader
    <2> QED
        BY <1>4, <2>3
<1>5. CASE hits # {}
    <2>1. Hurt(frame, P, hits)
        BY <1>2, <1>5 DEF LineInv
    <2> HIDE DEF P
    <2>2. PICK p, q \in hits : /\ hits = {p, q} /\ p \in 1..(8 * size) /\ q \in p..(8 * size)
                               /\ q <= p + 15
        BY <2>1 DEF Hurt
    <2>3. frame \in Bytes /\ \A n \in 1..(8 * size) :
                                BitOf(P, n) # BitOf(frame, n) <=> n \in {p, q}
        BY <2>1, <2>2 DEF Hurt
    <2> HIDE DEF size
    <2>4. size = Len(P) /\ size = Len(frame)
        BY <1>3 DEF size
    <2>5. Crc16(frame, size - 2) # Stored(frame)
        BY <1>1, <2>2, <2>3, <2>4, DamageNoticed
    <2>6. HeaderStatus(kind, frame) # "OK"
        BY <2>4, <2>5, HeaderRefuses
    <2>7. d.status # "OK" /\ d.values = Zeroed(kind)
        BY <2>6, RefusedHeader
    <2> QED
        BY <1>5, <2>7
<1>6. CASE hits = {} /\ kind = sent.kind
    <2> DEFINE v == sent.values
    <2>1. frame = Pack(kind, sent.seq, v)
        BY <1>2, <1>6 DEF LineInv, Packed
    <2>2. HeaderStatus(kind, frame) = "OK" /\ SequenceOf(frame) = sent.seq
        BY <1>1, <1>6, <2>1, HeaderPasses
    <2>3. [x \in DOMAIN Read[kind] |-> WordsAt(frame, Read[kind][x])] = v
        BY <1>1, <1>6, <2>1, ValuesRead
    <2>4. Acceptable(kind, v) <=> Encodable(kind, v) /\ Proper(sent)
        BY <1>1, <1>6, AcceptableMeans
    <2> HIDE DEF v
    <2>5. IF Acceptable(kind, v)
          THEN d.status = "OK" /\ d.seq = sent.seq /\ d.values = v
          ELSE d.status # "OK" /\ d.values = Zeroed(kind)
        BY <2>2, <2>3, PassedHeader
    <2> QED
        BY <1>6, <2>4, <2>5 DEF v
<1> QED
    BY <1>4, <1>5, <1>6

\* One more bit: the frame differs in it too.
LEMMA DamageHurts ==
    ASSUME MaxHits <= 2, Span <= 15, LineInv, sent \in Messages,
           NEW bit \in 1..(8 * Len(frame)), Damage(bit)
    PROVE  hits' # {} /\ Hurt(frame', Packed(sent), hits')
<1> DEFINE P == Packed(sent)
           size == Len(P)
<1>1. P \in Bytes /\ size \in Nat /\ sent # NoMessage
    BY MessageTyped DEF NoMessage, Kind
<1>2. Len(frame) = size /\ frame \in Bytes /\ \A n \in 1..(8 * size) :
          BitOf(P, n) # BitOf(frame, n) <=> n \in hits
    BY <1>1 DEF LineInv, Hurt, Damage, OnTheLine
<1>3. frame' = Flipped(frame, bit) /\ hits' = hits \cup {bit} /\ Cardinality(hits) < MaxHits
      /\ \A hit \in hits : bit - hit \in 1..Span
    BY DEF Damage
<1>4. bit \in 1..(8 * size)
    BY <1>2
<1>5. hits # {} => \E p, q \in hits : /\ hits = {p, q} /\ p \in 1..(8 * size)
                                      /\ q \in p..(8 * size) /\ q <= p + 15
    BY <1>1 DEF LineInv, Hurt
<1> HIDE DEF P, size
<1>6. /\ frame' \in Bytes /\ Len(frame') = size
      /\ \A n \in 1..(8 * size) : BitOf(frame', n) =
             IF n = bit THEN 1 - BitOf(frame, n) ELSE BitOf(frame, n)
    BY <1>2, <1>3, FlipsOneBit
<1>7. Span \in Nat /\ MaxHits \in Nat
    BY CodecAssumption
<1>8. bit \notin hits
    BY <1>3, <1>7
<1>9. \A n \in 1..(8 * size) : BitOf(P, n) # BitOf(frame', n) <=> n \in hits'
    <2> SUFFICES ASSUME NEW n \in 1..(8 * size)
                 PROVE  BitOf(P, n) # BitOf(frame', n) <=> n \in hits'
        OBVIOUS
    <2>1. BitOf(P, n) \in 0..1 /\ BitOf(frame, n) \in 0..1
        BY <1>1, <1>2, BitsOfBytes DEF size
    <2>2. BitOf(P, n) # BitOf(frame, n) <=> n \in hits
        BY <1>2
    <2>3. BitOf(frame', n) = IF n = bit THEN 1 - BitOf(frame, n) ELSE BitOf(frame, n)
        BY <1>6
    <2> QED
        BY <1>3, <1>8, <2>1, <2>2, <2>3
<1>10. \E p, q \in hits' : /\ hits' = {p, q} /\ p \in 1..(8 * size)
                          /\ q \in p..(8 * size) /\ q <= p + 15
    <2>1. CASE hits = {}
        <3>1. hits' = {bit, bit} /\ bit \in hits' /\ bit \in bit..(8 * size) /\ bit <= bit + 15
            BY <1>1, <1>3, <1>4, <2>1 DEF size
        <3> QED
            BY <1>4, <3>1
    <2>2. CASE hits # {}
        <3>1. PICK p, q \in hits : hits = {p, q} /\ p \in 1..(8 * size)
            BY <1>5, <2>2
        <3>2. p = q
            <4>1. ASSUME p # q PROVE Cardinality({p, q}) = 2
                <5>1. IsFiniteSet({p}) /\ Cardinality({p}) = 1
                    BY FS_Singleton
                <5>2. Cardinality({p} \cup {q}) = 1 + 1
                    BY <4>1, <5>1, FS_AddElement
                <5>3. {p} \cup {q} = {p, q} /\ 1 + 1 = 2
                    OBVIOUS
                <5> QED
                    BY <5>2, <5>3
            <4> QED
                BY <1>3, <1>7, <3>1, <4>1
        <3>3. bit - p \in 1..Span
            BY <1>3, <3>1
        <3>4. hits' = {p, bit} /\ p \in hits' /\ bit \in hits'
            BY <1>3, <3>1, <3>2
        <3>5. bit \in p..(8 * size) /\ bit <= p + 15
            BY <1>4, <1>7, <3>1, <3>3
        <3> QED
            BY <3>1, <3>4, <3>5
    <2> QED
        BY <2>1, <2>2
<1> QED
    BY <1>3, <1>6, <1>9, <1>10 DEF Hurt, P, size

CodecInv == LineInv /\ DecodesWhatWasSent

\* The inductive invariant holds of an idle line,
LEMMA CodecInvInit == CodecInit => CodecInv
<1> SUFFICES ASSUME CodecInit PROVE CodecInv
    OBVIOUS
<1>1. answer.by \notin Kind
    BY DEF CodecInit, NoAnswer, Kind
<1> QED
    BY <1>1 DEF CodecInit, CodecInv, LineInv, DecodesWhatWasSent

\* and every step keeps it.
LEMMA CodecInvNext ==
    ASSUME MaxHits <= 2, Span <= 15, CodecInv, [CodecNext]_codecVars
    PROVE  CodecInv'
<1> USE DEF CodecInv
<1>1. "none" \notin Kind /\ "encoder" \notin Kind
    BY DEF Kind
<1>2. \A m \in Messages : m # NoMessage
    BY MessageTyped DEF NoMessage, Kind
<1>3. ASSUME NEW m \in Messages, NEW c \in Capacity, EncodeMessage(m, c) PROVE CodecInv'
    <2>1. /\ sent = NoMessage /\ sent' = m /\ hits' = hits
          /\ frame' = Encode(m.kind, m.seq, m.values, c).frame /\ answer'.by = "encoder"
        BY <1>3 DEF EncodeMessage
    <2>2. hits = {}
        BY <1>2, <2>1 DEF LineInv
    <2>3. frame' \in {<<>>, Packed(m)}
        BY <2>1 DEF Encode, Packed
    <2>4. LineInv'
        BY <2>1, <2>2, <2>3 DEF LineInv
    <2>5. DecodesWhatWasSent'
        BY <1>1, <2>1 DEF DecodesWhatWasSent
    <2> QED
        BY <2>4, <2>5
<1>4. ASSUME NEW m \in Messages, ForeignMessage(m) PROVE CodecInv'
    <2>1. /\ sent = NoMessage /\ sent' = m /\ hits' = hits /\ answer' = answer
          /\ frame' = Packed(m)
        BY <1>4 DEF ForeignMessage, Packed
    <2>2. hits = {} /\ answer.by = "none"
        BY <1>2, <2>1 DEF LineInv, NoAnswer
    <2>3. LineInv'
        BY <2>1, <2>2 DEF LineInv
    <2>4. DecodesWhatWasSent'
        BY <1>1, <2>1, <2>2 DEF DecodesWhatWasSent
    <2> QED
        BY <2>3, <2>4
<1>5. ASSUME NEW bit \in 1..(8 * Len(frame)), Damage(bit) PROVE CodecInv'
    <2>1. sent' = sent /\ answer' = answer /\ frame # <<>> /\ answer.by \in {"none", "encoder"}
        BY <1>5 DEF Damage, OnTheLine
    <2>2. sent \in Messages
        BY <2>1 DEF LineInv
    <2>3. hits' # {} /\ Hurt(frame', Packed(sent), hits')
        BY <1>5, <2>2, DamageHurts
    <2>4. LineInv'
        BY <2>1, <2>2, <2>3 DEF LineInv
    <2>5. DecodesWhatWasSent'
        BY <1>1, <2>1 DEF DecodesWhatWasSent
    <2> QED
        BY <2>4, <2>5
<1>6. ASSUME NEW kind \in Kind, DecodeMessage(kind) PROVE CodecInv'
    <2> DEFINE d == Decode(kind, frame)
    <2>1. /\ sent' = sent /\ frame' = frame /\ hits' = hits /\ frame # <<>>
          /\ answer' = [by |-> kind, status |-> d.status, seq |-> d.seq, values |-> d.values]
        BY <1>6 DEF DecodeMessage, OnTheLine
    <2>2. sent \in Messages
        BY <2>1 DEF LineInv
    <2>3. IF /\ hits = {} /\ kind = sent.kind
             /\ Proper(sent) /\ Encodable(sent.kind, sent.values)
          THEN d.status = "OK" /\ d.seq = sent.seq /\ d.values = sent.values
          ELSE d.status # "OK" /\ d.values = Zeroed(kind)
        BY <2>1, <2>2, DecodedOnTheLine
    <2> HIDE DEF d
    <2>4. LineInv'
        BY <2>1, <2>2 DEF LineInv
    <2>5. DecodesWhatWasSent'
        BY <2>1, <2>3 DEF DecodesWhatWasSent
    <2> QED
        BY <2>4, <2>5
<1>7. CASE Finish
    <2>1. sent' = NoMessage /\ frame' = <<>> /\ hits' = {} /\ answer' = NoAnswer
        BY <1>7 DEF Finish
    <2>2. answer'.by \notin Kind
        BY <1>1, <2>1 DEF NoAnswer
    <2> QED
        BY <2>1, <2>2 DEF LineInv, DecodesWhatWasSent
<1>8. CASE UNCHANGED codecVars
    BY <1>8 DEF codecVars, LineInv, DecodesWhatWasSent
<1> QED
    BY <1>3, <1>4, <1>5, <1>6, <1>7, <1>8 DEF CodecNext

\* A decoder accepts exactly the undamaged frames of its own kind that an
\* encoder would have written and hands out what was sent, for all messages of
\* the types that the headers give and every place that is hit, as long as at
\* most two bits are and they are at most fifteen apart: the encoders, the
\* decoders and the CRC of motor_link.c and hil_link.c.
THEOREM FramesDecode ==
    ASSUME MaxHits <= 2, Span <= 15
    PROVE  CodecSpec => []DecodesWhatWasSent
<1>1. CodecInit => CodecInv
    BY CodecInvInit
<1>2. CodecInv /\ [CodecNext]_codecVars => CodecInv'
    BY CodecInvNext
<1>3. CodecInv => DecodesWhatWasSent
    BY DEF CodecInv
<1> QED
    BY <1>1, <1>2, <1>3, PTL DEF CodecSpec

=============================================================================
