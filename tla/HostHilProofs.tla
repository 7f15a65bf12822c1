---------------------------- MODULE HostHilProofs -----------------------------
(***************************************************************************)
(* Theorems about host, line and device together, for every number of      *)
(* sessions and frames and every capacity of the lines.  DeviceOutcome is  *)
(* what process_frame leads to; the lines only ever lose and damage what   *)
(* they carry, which lemmas about their elements say once.                 *)
(***************************************************************************)
EXTENDS HostHil, FlightCoreProofs, SequenceTheorems

USE ConfigAssumption

-----------------------------------------------------------------------------
(* What the lines carry *)

Elements(seq) == {seq[i] : i \in 1..Len(seq)}

LEMMA ElementsTyped == ASSUME NEW S, NEW s \in Seq(S) PROVE Elements(s) \subseteq S
BY ElementOfSeq DEF Elements

LEMMA ElementsOfAppend ==
    ASSUME NEW S, NEW s \in Seq(S), NEW e \in S
    PROVE  Append(s, e) \in Seq(S) /\ Elements(Append(s, e)) \subseteq Elements(s) \cup {e}
BY AppendProperties DEF Elements

LEMMA ElementsOfTail ==
    ASSUME NEW S, NEW s \in Seq(S), s # <<>>
    PROVE  /\ Tail(s) \in Seq(S) /\ Head(s) \in S
           /\ Elements(Tail(s)) \subseteq Elements(s) /\ Head(s) \in Elements(s)
<1>1. Len(s) \in Nat \ {0}
    BY EmptySeq
<1>2. Tail(s) \in Seq(S) /\ Head(s) \in S /\ Len(Tail(s)) = Len(s) - 1
      /\ \A i \in 1..Len(Tail(s)) : Tail(s)[i] = s[i + 1]
    BY HeadTailProperties
<1>3. Elements(Tail(s)) \subseteq Elements(s)
    BY <1>1, <1>2 DEF Elements
<1>4. Head(s) \in Elements(s)
    BY <1>1 DEF Elements
<1> QED
    BY <1>2, <1>3, <1>4

LEMMA ElementsOfExcept ==
    ASSUME NEW S, NEW s \in Seq(S), NEW i \in 1..Len(s), NEW e \in S
    PROVE  /\ [s EXCEPT ![i] = e] \in Seq(S)
           /\ Elements([s EXCEPT ![i] = e]) \subseteq Elements(s) \cup {e}
BY ExceptSeq DEF Elements

LEMMA ElementsOfWithout ==
    ASSUME NEW S, NEW s \in Seq(S), NEW i \in 1..Len(s)
    PROVE  Without(s, i) \in Seq(S) /\ Elements(Without(s, i)) \subseteq Elements(s)
<1> DEFINE front == SubSeq(s, 1, i - 1)
           back == SubSeq(s, i + 1, Len(s))
<1>1. Len(s) \in Nat /\ \A j \in 1..Len(s) : s[j] \in S
    BY LenProperties, ElementOfSeq
<1>2. /\ front \in Seq(S) /\ Len(front) = i - 1
      /\ \A j \in 1..(i - 1) : front[j] = s[j]
    <2>1. \A j \in 1..(i - 1) : s[j] \in S
        BY <1>1
    <2>2. /\ front \in Seq(S)
          /\ Len(front) = IF 1 <= i - 1 THEN i - 1 - 1 + 1 ELSE 0
          /\ \A j \in 1..(i - 1 - 1 + 1) : front[j] = s[1 + j - 1]
        BY <1>1, <2>1, SubSeqProperties
    <2> QED
        BY <1>1, <2>2
<1>3. /\ back \in Seq(S) /\ Len(back) = Len(s) - i
      /\ \A j \in 1..(Len(s) - i) : back[j] = s[i + j]
    <2>1. \A j \in (i + 1)..Len(s) : s[j] \in S
        BY <1>1
    <2>2. /\ back \in Seq(S)
          /\ Len(back) = IF i + 1 <= Len(s) THEN Len(s) - (i + 1) + 1 ELSE 0
          /\ \A j \in 1..(Len(s) - (i + 1) + 1) : back[j] = s[(i + 1) + j - 1]
        BY <1>1, <2>1, SubSeqProperties
    <2> QED
        BY <1>1, <2>2
<1> HIDE DEF front, back
<1>4. /\ front \o back \in Seq(S)
      /\ Len(front \o back) = Len(front) + Len(back)
      /\ \A j \in 1..(Len(front) + Len(back)) :
            (front \o back)[j] = IF j <= Len(front) THEN front[j] ELSE back[j - Len(front)]
    BY <1>2, <1>3, ConcatProperties
<1>5. Elements(front \o back) \subseteq Elements(s)
    <2>1. SUFFICES ASSUME NEW j \in 1..Len(front \o back)
                   PROVE  \E k \in 1..Len(s) : (front \o back)[j] = s[k]
        <3>1. ASSUME NEW x \in Elements(front \o back),
                     \A j \in 1..Len(front \o back) :
                        \E k \in 1..Len(s) : (front \o back)[j] = s[k]
              PROVE  x \in Elements(s)
            BY <3>1 DEF Elements
        <3> QED
            BY <3>1
    <2>2. CASE j <= i - 1
        <3>1. j \in 1..(i - 1) /\ j \in 1..Len(s)
            BY <1>1, <1>2, <1>3, <1>4, <2>2
        <3>2. (front \o back)[j] = front[j]
            BY <1>2, <1>3, <1>4, <2>2
        <3> QED
            BY <1>2, <3>1, <3>2
    <2>3. CASE j > i - 1
        <3>1. j - (i - 1) \in 1..(Len(s) - i) /\ i + (j - (i - 1)) \in 1..Len(s)
            BY <1>1, <1>2, <1>3, <1>4, <2>3
        <3>2. (front \o back)[j] = back[j - (i - 1)]
            BY <1>1, <1>2, <1>3, <1>4, <2>3
        <3> QED
            BY <1>3, <3>1, <3>2
    <2> QED
        BY <1>1, <1>2, <1>3, <1>4, <2>2, <2>3
<1>6. Without(s, i) = front \o back
    BY DEF Without, front, back
<1> QED
    BY <1>4, <1>5, <1>6

-----------------------------------------------------------------------------
(* The device *)

\* An armed core and live motors come from one branch of a step only.
LEMMA ArmedOnlyByDrive ==
    ASSUME NEW c \in Core, NEW s \in Sample, NEW g \in Guidance,
           NEW answer \in LibraryAnswer({}), NEW t \in Nat
    PROVE  LET r == FlightStep(c, s, g, {}, answer, t)
           IN  /\ r.result \in StepResult
               /\ r.core.state = "ARMED" \/ r.out.motors # "Zero" =>
                     g.arm /\ r.result = "OK" /\ r.out.state = "ARMED" /\ c.state # "FAILSAFE"
<1> DEFINE n == Record(c, s)
           dt == Dt(c, s)
           Claim(r) ==
             /\ r.result \in StepResult
             /\ r.core.state = "ARMED" \/ r.out.motors # "Zero" =>
                   g.arm /\ r.result = "OK" /\ r.out.state = "ARMED" /\ c.state # "FAILSAFE"
<1>1. n \in Core /\ n.state = c.state
    BY RecordReturns
<1> HIDE DEF n, dt
<1>2. CASE Admission(c, s, t) # "OK"
    <2>1. FlightStep(c, s, g, {}, answer, t) = EnterFailsafe(c, Admission(c, s, t))
        BY <1>2 DEF FlightStep
    <2>2. Admission(c, s, t) \in StepResult
        BY DEF Admission, StepResult
    <2>3. Claim(EnterFailsafe(c, Admission(c, s, t)))
        BY <2>2 DEF EnterFailsafe, Returned, SafeOutput, Core
    <2> QED
        BY <2>1, <2>3
<1>3. CASE Admission(c, s, t) = "OK"
    <2>1. FlightStep(c, s, g, {}, answer, t) = Command(n, dt, g, {}, answer)
        BY <1>3 DEF FlightStep, n, dt
    <2>2. CASE ~g.arm
        <3>1. Claim(EnterDisarmed(n))
            BY <1>1 DEF EnterDisarmed, Returned, SafeOutput, Core, StepResult
        <3> QED
            BY <2>1, <2>2, <3>1 DEF Command
    <2>3. CASE g.arm /\ n.state = "FAILSAFE"
        <3>1. Claim(Returned(n, SafeOutput("FAILSAFE"), "FAILSAFE_LATCHED"))
            BY <1>1, <2>3 DEF Returned, SafeOutput, StepResult
        <3> QED
            BY <2>1, <2>3, <3>1 DEF Command
    <2>4. CASE g.arm /\ n.state # "FAILSAFE" /\ Control(g, answer) # "OK"
        <3>1. Control(g, answer) \in StepResult
            BY DEF Control, StepResult
        <3>2. Claim(EnterFailsafe(n, Control(g, answer)))
            BY <1>1, <3>1 DEF EnterFailsafe, Returned, SafeOutput, Core
        <3> QED
            BY <2>1, <2>4, <3>2 DEF Command
    <2>5. CASE g.arm /\ n.state # "FAILSAFE" /\ Control(g, answer) = "OK"
        <3>1. Claim(Drive(n, dt, {}, answer))
            BY <1>1, <2>5 DEF Drive, Returned, StepResult
        <3> QED
            BY <2>1, <2>5, <3>1 DEF Command
    <2> QED
        BY <2>2, <2>3, <2>4, <2>5 DEF Guidance
<1> QED
    BY <1>2, <1>3

\* The frame the core's history stems from, after frame f.
Recorded(e, f, r, t) ==
    r.endpoint.core.hasSample /\ Admission(SessionCore(e, f), SampleOf(f, t), t) = "OK"

\* What process_frame leads to: silence and a disarmed core, or an answer.
Silent(r) ==
    /\ r.response = NoResponse
    /\ r.endpoint.core.state = "DISARMED" /\ ~r.endpoint.core.hasSample

Answered(e, f, r, t) ==
    /\ r.response.session = f.session /\ r.response.ack = f.seq
    /\ r.response.motors # "Zero" => f.arm /\ r.response.result = "OK"
    /\ r.endpoint.session = f.session
    /\ r.endpoint.core.hasSample =>
          IF Recorded(e, f, r, t)
          THEN r.endpoint.core.lastSeq = f.seq /\ r.endpoint.core.lastTs = f.ts
          ELSE /\ e.session = f.session /\ e.core.hasSample
               /\ r.endpoint.core.lastSeq = e.core.lastSeq
               /\ r.endpoint.core.lastTs = e.core.lastTs
    /\ r.endpoint.core.state = "ARMED" =>
          /\ r.endpoint.core.lastSeq = f.seq
          /\ r.response.result = "OK" /\ r.response.state = "ARMED"
          /\ e.core.state = "FAILSAFE" => f.session # e.session

DeviceOutcome(e, f, r, t) ==
    /\ r.endpoint \in Endpoint /\ r.response \in Response
    /\ Silent(r) \/ Answered(e, f, r, t)

LEMMA DisarmReturns ==
    ASSUME NEW c \in Core
    PROVE  Disarm(c) \in Core /\ Disarm(c).state = "DISARMED" /\ ~Disarm(c).hasSample
BY DEF Disarm, Core, FlightState

LEMMA NoResponseTyped == NoResponse \in Response /\ NoResponse.session = 0
BY DEF NoResponse, Response, StepResult, FlightState, Motors

\* Disarming an endpoint leaves it silent.
LEMMA SilentEndpoint ==
    ASSUME NEW e \in Endpoint, NEW r,
           r = [endpoint |-> [e EXCEPT !.core = Disarm(e.core)], response |-> NoResponse]
    PROVE  r.endpoint \in Endpoint /\ r.response \in Response /\ Silent(r)
<1>1. e.core \in Core /\ e = [core |-> e.core, session |-> e.session] /\ e.session \in Nat
    BY DEF Endpoint
<1>2. r.endpoint = [core |-> Disarm(e.core), session |-> e.session]
    BY <1>1
<1> QED
    BY <1>1, <1>2, DisarmReturns, NoResponseTyped DEF Silent, Endpoint

\* The step of a frame that decodes.
LEMMA SteppedReturns ==
    ASSUME NEW e \in Endpoint, NEW f \in Frame, NEW answer \in LibraryAnswer({}),
           NEW t \in {0, 1}
    PROVE  LET r == Stepped(e, f, answer, t)
           IN  /\ r.endpoint \in Endpoint /\ r.response \in Response
               /\ r.response.session # 0 /\ Answered(e, f, r, t)
<1> DEFINE c == SessionCore(e, f)
           s == SampleOf(f, t)
           g == GuidanceOf(f)
           q == FlightStep(c, s, g, {}, answer, t)
           r == Stepped(e, f, answer, t)
<1>1. /\ f.session \in Nat \ {0} /\ f.seq \in Nat /\ f.ts \in Nat \ {0} /\ f.arm \in BOOLEAN
      /\ e.core \in Core /\ e.session \in Nat /\ t \in Nat
    BY DEF Frame, Endpoint
<1>2. InitialCore \in Core /\ InitialCore.hasSample = FALSE /\ InitialCore.state = "DISARMED"
    BY DEF InitialCore, Core, FlightState
<1>3. c \in Core /\ (c.hasSample => f.session = e.session /\ c = e.core)
      /\ (f.session = e.session => c = e.core)
    BY <1>1, <1>2 DEF SessionCore
<1>4. s \in Sample /\ s.seq = f.seq /\ s.ts = f.ts
    BY <1>1 DEF SampleOf, Sample
<1>5. g \in Guidance /\ g.arm = f.arm
    BY <1>1 DEF GuidanceOf, Guidance
<1>6. r = [endpoint |-> [core |-> q.core, session |-> f.session],
           response |-> [session |-> f.session, ack |-> f.seq, result |-> q.result,
                         state |-> q.out.state, motors |-> q.out.motors]]
    BY DEF Stepped
<1> HIDE DEF c, s, g
<1>7. /\ q.result \in StepResult
      /\ q.core.state = "ARMED" \/ q.out.motors # "Zero" =>
            g.arm /\ q.result = "OK" /\ q.out.state = "ARMED" /\ c.state # "FAILSAFE"
    BY <1>1, <1>3, <1>4, <1>5, ArmedOnlyByDrive
<1>8. CASE Admission(c, s, t) # "OK"
    <2>1. /\ q.core \in Core /\ q.out \in FlightOutput
          /\ q.core.state = "FAILSAFE"
          /\ q.core.hasSample = c.hasSample
          /\ q.core.lastSeq = c.lastSeq /\ q.core.lastTs = c.lastTs
        BY <1>1, <1>3, <1>4, <1>5, <1>8, RefusedReturns
    <2> HIDE DEF q, r
    <2>2. r.endpoint \in Endpoint /\ r.response \in Response /\ r.response.session # 0
        BY <1>1, <1>6, <1>7, <2>1 DEF Endpoint, Response, FlightOutput
    <2>3. ~Recorded(e, f, r, t)
        BY <1>8 DEF Recorded, c, s
    <2>4. Answered(e, f, r, t)
        BY <1>1, <1>3, <1>5, <1>6, <1>7, <2>1, <2>3 DEF Answered
    <2> QED
        BY <2>2, <2>4 DEF r
<1>9. CASE Admission(c, s, t) = "OK"
    <2>1. RecordedOutcome(c, s, g, q)
        BY <1>1, <1>3, <1>4, <1>5, <1>9, RecordedReturns
    <2>2. /\ q.core \in Core /\ q.out \in FlightOutput
          /\ q.core.hasSample = TRUE
          /\ q.core.lastSeq = s.seq /\ q.core.lastTs = s.ts
        BY <2>1 DEF RecordedOutcome
    <2> HIDE DEF q, r
    <2>3. r.endpoint \in Endpoint /\ r.response \in Response /\ r.response.session # 0
        BY <1>1, <1>6, <1>7, <2>2 DEF Endpoint, Response, FlightOutput
    <2>4. Recorded(e, f, r, t)
        BY <1>6, <1>9, <2>2 DEF Recorded, c, s
    <2>5. Answered(e, f, r, t)
        BY <1>1, <1>3, <1>4, <1>5, <1>6, <1>7, <2>2, <2>4 DEF Answered
    <2> QED
        BY <2>3, <2>5 DEF r
<1> QED
    BY <1>8, <1>9

LEMMA ProcessFrameReturns ==
    ASSUME NEW e \in Endpoint, NEW f \in Frame, NEW answer \in LibraryAnswer({}),
           NEW narrow \in BOOLEAN, NEW t \in {0, 1}
    PROVE  DeviceOutcome(e, f, ProcessFrame(e, f, answer, narrow, t), t)
<1> DEFINE r == EndpointStep(e, f, answer, t)
           p == ProcessFrame(e, f, answer, narrow, t)
<1>1. CASE f.body = "malformed"
    <2>1. r = Undecoded(e)
        BY <1>1 DEF EndpointStep
    <2>2. r = [endpoint |-> [e EXCEPT !.core = Disarm(e.core)], response |-> NoResponse]
        BY <2>1 DEF Undecoded
    <2>3. r.response = NoResponse
        BY <2>2
    <2>4. p = r
        BY <2>3 DEF ProcessFrame
    <2>5. r.endpoint \in Endpoint /\ r.response \in Response /\ Silent(r)
        BY <2>2, SilentEndpoint
    <2> QED
        BY <2>4, <2>5 DEF DeviceOutcome
<1>2. CASE f.body # "malformed"
    <2>1. r = Stepped(e, f, answer, t)
        BY <1>2 DEF EndpointStep
    <2>2. /\ r.endpoint \in Endpoint /\ r.response \in Response
          /\ r.response.session # 0 /\ Answered(e, f, r, t)
        BY <2>1, SteppedReturns
    <2>3. r.response # NoResponse
        BY <2>2, NoResponseTyped
    <2>4. p = IF Encodable(r.response, narrow) THEN r ELSE Unsent(r.endpoint)
        BY <2>3 DEF ProcessFrame
    <2> HIDE DEF r, p
    <2>5. ASSUME Encodable(r.response, narrow) PROVE DeviceOutcome(e, f, p, t)
        BY <2>2, <2>4, <2>5 DEF DeviceOutcome
    <2>6. ASSUME ~Encodable(r.response, narrow) PROVE DeviceOutcome(e, f, p, t)
        <3>1. p = [endpoint |-> [r.endpoint EXCEPT !.core = Disarm(r.endpoint.core)],
                   response |-> NoResponse]
            BY <2>4, <2>6 DEF Unsent
        <3>2. p.endpoint \in Endpoint /\ p.response \in Response /\ Silent(p)
            BY <2>2, <3>1, SilentEndpoint
        <3> QED
            BY <3>2 DEF DeviceOutcome
    <2>7. DeviceOutcome(e, f, p, t)
        BY <2>5, <2>6
    <2> QED
        BY <2>7 DEF p
<1> QED
    BY <1>1, <1>2

-----------------------------------------------------------------------------
(* The inductive invariant *)

\* The host's frames carry numbers that it has used before now.
Numbered(f) ==
    f.session < host.session \/ (f.session = host.session /\ f.seq < host.seq)

PendingNumbered ==
    pending # NoFrame =>
        Numbered(pending) /\ pending.session = host.session

\* A frame with the number of the frame that is waited on is that frame.
Known(f) ==
    /\ Numbered(f)
    /\ pending # NoFrame /\ f.session = pending.session /\ f.seq = pending.seq
         => f = pending

FramesKnown == \A f \in Elements(toDevice) \ {Noise} : Known(f)

\* A reply answers its own frame, and drives motors at its request only.
Honest(reply) ==
    /\ reply.response.session = reply.to.session /\ reply.response.ack = reply.to.seq
    /\ reply.response.motors # "Zero" => reply.to.arm /\ reply.response.result = "OK"

RepliesKnown == \A reply \in Elements(toHost) : Known(reply.to) /\ Honest(reply)

HostInv == TypeOK /\ PendingNumbered /\ FramesKnown /\ RepliesKnown

IInv == HostInv /\ ArmedIsReported /\ SessionOwnsHistory

LEMMA FrameIsNotNoise == ASSUME NEW f \in Frame PROVE f # NoFrame
BY DEF Frame, NoFrame

LEMMA InitIInv == Init => IInv
<1> SUFFICES ASSUME Init PROVE IInv
    OBVIOUS
<1>1. BootEndpoint \in Endpoint /\ BootEndpoint.core.state = "DISARMED"
      /\ ~BootEndpoint.core.hasSample
    BY DEF BootEndpoint, Endpoint, InitialCore, Core, FlightState
<1>2. toDevice \in Seq(Frame \cup {Noise}) /\ toHost \in Seq(Reply)
      /\ Elements(toDevice) = {} /\ Elements(toHost) = {}
    BY EmptySeq DEF Init, Elements
<1>3. host \in [session : Nat \ {0}, seq : Nat, ts : Nat \ {0}]
    BY DEF Init
<1>4. TypeOK
    BY <1>1, <1>2, <1>3, NoResponseTyped DEF Init, TypeOK
<1> QED
    BY <1>1, <1>2, <1>4 DEF Init, IInv, HostInv, PendingNumbered, FramesKnown, RepliesKnown,
       ArmedIsReported, SessionOwnsHistory

\* What is known stays known when the host and its frame stay as they are and
\* the lines gain nothing.
LEMMA LinesLose ==
    ASSUME HostInv, UNCHANGED hostVars,
           Elements(toDevice') \subseteq Elements(toDevice) \cup {Noise},
           Elements(toHost') \subseteq Elements(toHost)
    PROVE  PendingNumbered' /\ FramesKnown' /\ RepliesKnown'
<1>1. UNCHANGED <<host, pending>>
    BY DEF hostVars
<1>2. PendingNumbered'
    BY <1>1 DEF HostInv, PendingNumbered, Numbered
<1>3. FramesKnown'
    BY <1>1 DEF HostInv, FramesKnown, Known, Numbered
<1>4. RepliesKnown'
    BY <1>1 DEF HostInv, RepliesKnown, Known, Numbered, Honest
<1> QED
    BY <1>2, <1>3, <1>4

\* The host forgets the frame it waits on.
LEMMA HostForgets ==
    ASSUME HostInv, pending' = NoFrame, toDevice' = toDevice,
           Elements(toHost') \subseteq Elements(toHost),
           \A f : Numbered(f) => Numbered(f)'
    PROVE  PendingNumbered' /\ FramesKnown' /\ RepliesKnown'
BY DEF HostInv, PendingNumbered, FramesKnown, RepliesKnown, Known, Honest

\* The host's counters stay counters.
LEMMA HostFields ==
    ASSUME NEW P, NEW Q, NEW R, NEW h \in [session : P, seq : Q, ts : R],
           NEW session \in P, NEW seq \in Q, NEW ts \in R
    PROVE  /\ [h EXCEPT !.seq = seq, !.ts = ts] \in [session : P, seq : Q, ts : R]
           /\ [h EXCEPT !.seq = seq, !.ts = ts].session = h.session
           /\ [h EXCEPT !.seq = seq, !.ts = ts].seq = seq
           /\ [h EXCEPT !.session = session, !.seq = seq] \in [session : P, seq : Q, ts : R]
           /\ [h EXCEPT !.session = session, !.seq = seq].session = session
OBVIOUS

LEMMA HostCounts ==
    ASSUME NEW h \in [session : Nat \ {0}, seq : Nat, ts : Nat \ {0}], NEW first \in {0, 1}
    PROVE  LET sent == [h EXCEPT !.seq = h.seq + 1, !.ts = h.ts + 1]
               opened == [h EXCEPT !.session = h.session + 1, !.seq = first]
           IN  /\ h.session \in Nat /\ h.seq \in Nat /\ h.ts \in Nat
               /\ sent \in [session : Nat \ {0}, seq : Nat, ts : Nat \ {0}]
               /\ sent.session = h.session /\ sent.seq = h.seq + 1
               /\ opened \in [session : Nat \ {0}, seq : Nat, ts : Nat \ {0}]
               /\ opened.session = h.session + 1
<1>1. h.session \in Nat \ {0} /\ h.seq \in Nat /\ h.ts \in Nat \ {0}
    OBVIOUS
<1>2. h.seq + 1 \in Nat /\ h.ts + 1 \in Nat \ {0} /\ h.session + 1 \in Nat \ {0}
      /\ first \in Nat
    BY <1>1
<1> DEFINE seq == h.seq + 1
           ts == h.ts + 1
           session == h.session + 1
<1> HIDE DEF seq, ts, session
<1>3. seq \in Nat /\ ts \in Nat \ {0} /\ session \in Nat \ {0}
    BY <1>2 DEF seq, ts, session
<1>4. /\ [h EXCEPT !.seq = seq, !.ts = ts] \in [session : Nat \ {0}, seq : Nat, ts : Nat \ {0}]
      /\ [h EXCEPT !.seq = seq, !.ts = ts].session = h.session
      /\ [h EXCEPT !.seq = seq, !.ts = ts].seq = seq
      /\ [h EXCEPT !.session = session, !.seq = first]
            \in [session : Nat \ {0}, seq : Nat, ts : Nat \ {0}]
      /\ [h EXCEPT !.session = session, !.seq = first].session = session
    BY <1>1, <1>2, <1>3, HostFields
<1> QED
    BY <1>1, <1>4 DEF seq, ts, session

LEMMA HostStep == ASSUME IInv, HostNext PROVE HostInv'
<1> USE DEF IInv, HostInv
<1>1. CASE HostSend
    <2>1. PICK c \in Content :
              LET f == [session |-> host.session, seq |-> host.seq, ts |-> host.ts,
                        arm |-> c.arm, body |-> c.body]
              IN  pending' = f /\ toDevice' = Append(toDevice, f)
        BY <1>1 DEF HostSend
    <2>2. PICK f : f = [session |-> host.session, seq |-> host.seq, ts |-> host.ts,
                        arm |-> c.arm, body |-> c.body]
        OBVIOUS
    <2>3. f \in Frame /\ f.session = host.session /\ f.seq = host.seq
        BY <2>2 DEF TypeOK, Frame, Content
    <2>4. pending' = f /\ toDevice' = Append(toDevice, f)
        BY <2>1, <2>2
    <2>5. host.session \in Nat /\ host.seq \in Nat /\ host.ts \in Nat
          /\ host'.session = host.session /\ host'.seq = host.seq + 1
          /\ host' \in [session : Nat \ {0}, seq : Nat, ts : Nat \ {0}]
        <3>1. host' = [host EXCEPT !.seq = @ + 1, !.ts = @ + 1]
            BY <1>1 DEF HostSend
        <3>2. host \in [session : Nat \ {0}, seq : Nat, ts : Nat \ {0}]
            BY DEF TypeOK
        <3> QED
            BY <3>1, <3>2, HostCounts
    <2>6. UNCHANGED <<endpoint, uptime, reported, recorded, toHost>>
        BY <1>1 DEF HostSend, deviceVars
    <2>7. toDevice' \in Seq(Frame \cup {Noise})
          /\ Elements(toDevice') \subseteq Elements(toDevice) \cup {f}
        BY <2>3, <2>4, ElementsOfAppend DEF TypeOK
    <2>8. TypeOK'
        BY <2>3, <2>4, <2>5, <2>6, <2>7 DEF TypeOK
    <2>9. \A g \in Frame : Numbered(g) =>
             Numbered(g)' /\ ~(g.session = f.session /\ g.seq = f.seq)
        BY <2>3, <2>5 DEF Numbered, Frame
    <2>10. Numbered(f)'
        BY <2>3, <2>5 DEF Numbered
    <2>11. PendingNumbered'
        BY <2>3, <2>4, <2>5, <2>10 DEF PendingNumbered
    <2>12. Elements(toDevice) \subseteq Frame \cup {Noise}
           /\ \A reply \in Elements(toHost) : reply.to \in Frame
        <3>1. toDevice \in Seq(Frame \cup {Noise}) /\ toHost \in Seq(Reply)
            BY DEF TypeOK
        <3>2. Elements(toDevice) \subseteq Frame \cup {Noise} /\ Elements(toHost) \subseteq Reply
            BY <3>1, ElementsTyped
        <3>3. \A reply \in Reply : reply.to \in Frame
            BY DEF Reply
        <3> QED
            BY <3>2, <3>3
    <2>13. FramesKnown'
        BY <2>4, <2>7, <2>9, <2>10, <2>12 DEF FramesKnown, Known
    <2>14. RepliesKnown'
        BY <2>4, <2>6, <2>9, <2>12 DEF RepliesKnown, Known, Honest
    <2> QED
        BY <2>8, <2>11, <2>13, <2>14
<1>2. CASE HostRepeat
    <2>1. pending \in Frame
        BY <1>2 DEF HostRepeat, TypeOK
    <2>2. toDevice' = Append(toDevice, pending)
          /\ UNCHANGED <<endpoint, uptime, reported, recorded, host, pending, toHost>>
        BY <1>2 DEF HostRepeat, deviceVars, hostVars
    <2>3. toDevice' \in Seq(Frame \cup {Noise})
          /\ Elements(toDevice') \subseteq Elements(toDevice) \cup {pending}
        BY <2>1, <2>2, ElementsOfAppend DEF TypeOK
    <2>4. TypeOK'
        BY <2>2, <2>3 DEF TypeOK
    <2>5. PendingNumbered' /\ RepliesKnown'
        BY <2>2 DEF PendingNumbered, RepliesKnown, Known, Numbered, Honest
    <2>6. Known(pending)
        BY <1>2 DEF HostRepeat, PendingNumbered, Known
    <2>7. FramesKnown'
        BY <2>2, <2>3, <2>6 DEF FramesKnown, Known, Numbered
    <2> QED
        BY <2>4, <2>5, <2>7
<1>3. CASE HostGiveUp
    <2>1. pending' = NoFrame
          /\ UNCHANGED <<endpoint, uptime, reported, recorded, host, toDevice, toHost>>
        BY <1>3 DEF HostGiveUp, deviceVars
    <2>2. TypeOK'
        BY <2>1 DEF TypeOK
    <2>3. \A f : Numbered(f) => Numbered(f)'
        BY <2>1 DEF Numbered
    <2> QED
        BY <2>1, <2>2, <2>3, HostForgets
<1>4. CASE HostNewSession
    <2>1. PICK first \in {0, 1} : host' = [host EXCEPT !.session = @ + 1, !.seq = first]
        BY <1>4 DEF HostNewSession
    <2>2. pending' = NoFrame
          /\ UNCHANGED <<endpoint, uptime, reported, recorded, toDevice, toHost>>
        BY <1>4 DEF HostNewSession, deviceVars
    <2>3. host.session \in Nat /\ host'.session = host.session + 1
          /\ host' \in [session : Nat \ {0}, seq : Nat, ts : Nat \ {0}]
        <3>1. host \in [session : Nat \ {0}, seq : Nat, ts : Nat \ {0}]
            BY DEF TypeOK
        <3> QED
            BY <2>1, <3>1, HostCounts
    <2>4. TypeOK'
        BY <2>2, <2>3 DEF TypeOK
    <2>5. Elements(toDevice) \subseteq Frame \cup {Noise}
          /\ \A reply \in Elements(toHost) : reply.to \in Frame
        <3>1. toDevice \in Seq(Frame \cup {Noise}) /\ toHost \in Seq(Reply)
            BY DEF TypeOK
        <3>2. Elements(toDevice) \subseteq Frame \cup {Noise} /\ Elements(toHost) \subseteq Reply
            BY <3>1, ElementsTyped
        <3>3. \A reply \in Reply : reply.to \in Frame
            BY DEF Reply
        <3> QED
            BY <3>2, <3>3
    <2>6. \A f \in Frame : Numbered(f) => Numbered(f)'
        BY <2>3 DEF Numbered, Frame
    <2>7. PendingNumbered' /\ FramesKnown' /\ RepliesKnown'
        BY <2>2, <2>5, <2>6 DEF PendingNumbered, FramesKnown, RepliesKnown, Known, Honest
    <2> QED
        BY <2>4, <2>7
<1>5. CASE HostReceive
    <2>1. toHost # <<>> /\ toHost' = Tail(toHost) /\ pending' \in {NoFrame, pending}
          /\ UNCHANGED <<endpoint, uptime, reported, recorded, host, toDevice>>
        BY <1>5 DEF HostReceive, deviceVars
    <2>2. toHost' \in Seq(Reply) /\ Elements(toHost') \subseteq Elements(toHost)
        BY <2>1, ElementsOfTail DEF TypeOK
    <2>3. TypeOK'
        BY <2>1, <2>2 DEF TypeOK
    <2>4. \A f : Numbered(f) => Numbered(f)'
        BY <2>1 DEF Numbered
    <2>5. CASE pending' = NoFrame
        BY <2>1, <2>2, <2>3, <2>4, <2>5, HostForgets
    <2>6. CASE pending' = pending
        BY <2>1, <2>2, <2>3, <2>6, LinesLose DEF hostVars
    <2> QED
        BY <2>1, <2>5, <2>6
<1> QED
    BY <1>1, <1>2, <1>3, <1>4, <1>5 DEF HostNext

LEMMA LineStep == ASSUME IInv, LineNext PROVE HostInv'
<1> USE DEF IInv, HostInv
<1>1. CASE Garble
    <2>1. PICK i \in 1..Len(toDevice) : toDevice' = [toDevice EXCEPT ![i] = Noise]
        BY <1>1 DEF Garble
    <2>2. UNCHANGED <<endpoint, uptime, reported, recorded, host, pending, toHost>>
        BY <1>1 DEF Garble, deviceVars, hostVars
    <2>3. toDevice' \in Seq(Frame \cup {Noise})
          /\ Elements(toDevice') \subseteq Elements(toDevice) \cup {Noise}
        <3>1. toDevice \in Seq(Frame \cup {Noise}) /\ Noise \in Frame \cup {Noise}
            BY DEF TypeOK
        <3> QED
            BY <2>1, <3>1, ElementsOfExcept
    <2>4. TypeOK'
        BY <2>2, <2>3 DEF TypeOK
    <2> QED
        BY <2>2, <2>3, <2>4, LinesLose DEF hostVars
<1>2. CASE LoseFrame
    <2>1. PICK i \in 1..Len(toDevice) : toDevice' = Without(toDevice, i)
        BY <1>2 DEF LoseFrame
    <2>2. UNCHANGED <<endpoint, uptime, reported, recorded, host, pending, toHost>>
        BY <1>2 DEF LoseFrame, deviceVars, hostVars
    <2>3. toDevice' \in Seq(Frame \cup {Noise}) /\ Elements(toDevice') \subseteq Elements(toDevice)
        BY <2>1, ElementsOfWithout DEF TypeOK
    <2>4. TypeOK'
        BY <2>2, <2>3 DEF TypeOK
    <2> QED
        BY <2>2, <2>3, <2>4, LinesLose DEF hostVars
<1>3. CASE LoseReply
    <2>1. PICK i \in 1..Len(toHost) : toHost' = Without(toHost, i)
        BY <1>3 DEF LoseReply
    <2>2. UNCHANGED <<endpoint, uptime, reported, recorded, host, pending, toDevice>>
        BY <1>3 DEF LoseReply, deviceVars, hostVars
    <2>3. toHost' \in Seq(Reply) /\ Elements(toHost') \subseteq Elements(toHost)
        BY <2>1, ElementsOfWithout DEF TypeOK
    <2>4. TypeOK'
        BY <2>2, <2>3 DEF TypeOK
    <2> QED
        BY <2>2, <2>3, <2>4, LinesLose DEF hostVars
<1> QED
    BY <1>1, <1>2, <1>3 DEF LineNext

\* One step of the device, seen from the core.
CoreStep ==
    /\ ArmedIsReported' /\ SessionOwnsHistory'
    /\ endpoint.core.state = "FAILSAFE" /\ endpoint'.core.state = "ARMED"
          => endpoint'.session # endpoint.session

LEMMA FrameStep == ASSUME IInv, DeviceFrame PROVE HostInv' /\ CoreStep
<1> USE DEF IInv, HostInv
<1> DEFINE f == Head(toDevice)
<1>1. PICK answer \in LibraryAnswer({}), narrow \in BOOLEAN :
        LET r == ProcessFrame(endpoint, f, answer, narrow, uptime) IN
        /\ endpoint' = r.endpoint
        /\ IF r.response = NoResponse
           THEN UNCHANGED <<toHost, reported>>
           ELSE /\ toHost' = Append(toHost, [response |-> r.response, to |-> f])
                /\ reported' = r.response
        /\ recorded' = IF r.endpoint.core.hasSample
                          /\ Admission(SessionCore(endpoint, f),
                                       SampleOf(f, uptime), uptime) = "OK"
                       THEN f ELSE recorded
    BY DEF DeviceFrame
<1>2. toDevice # <<>> /\ f # Noise /\ toDevice' = Tail(toDevice)
      /\ UNCHANGED <<host, pending, uptime>>
    BY DEF DeviceFrame, hostVars
<1>3. toDevice' \in Seq(Frame \cup {Noise}) /\ f \in Frame
      /\ Elements(toDevice') \subseteq Elements(toDevice) /\ f \in Elements(toDevice)
    BY <1>2, ElementsOfTail DEF TypeOK
<1> HIDE DEF f
<1> DEFINE r == ProcessFrame(endpoint, f, answer, narrow, uptime)
<1>4. DeviceOutcome(endpoint, f, r, uptime)
    BY <1>3, ProcessFrameReturns DEF TypeOK
<1>5. /\ endpoint' = r.endpoint
      /\ r.response = NoResponse => UNCHANGED <<toHost, reported>>
      /\ r.response # NoResponse =>
            /\ toHost' = Append(toHost, [response |-> r.response, to |-> f])
            /\ reported' = r.response
      /\ recorded' = IF Recorded(endpoint, f, r, uptime) THEN f ELSE recorded
    BY <1>1 DEF Recorded
<1> HIDE DEF r
<1>6. Known(f)
    BY <1>2, <1>3 DEF FramesKnown
<1>7. endpoint' \in Endpoint /\ reported' \in Response /\ recorded' \in Frame \cup {NoFrame}
    BY <1>3, <1>4, <1>5 DEF DeviceOutcome, TypeOK
<1>8. PendingNumbered' /\ FramesKnown'
    BY <1>2, <1>3 DEF PendingNumbered, FramesKnown, Known, Numbered
<1>9. CASE Silent(r)
    <2>1. UNCHANGED <<toHost, reported>>
        BY <1>5, <1>9 DEF Silent
    <2>2. TypeOK'
        BY <1>2, <1>3, <1>7, <2>1 DEF TypeOK
    <2>3. RepliesKnown'
        BY <1>2, <2>1 DEF RepliesKnown, Known, Numbered, Honest
    <2>4. CoreStep
        BY <1>5, <1>9 DEF CoreStep, Silent, ArmedIsReported, SessionOwnsHistory
    <2> QED
        BY <1>8, <2>2, <2>3, <2>4
<1>10. CASE Answered(endpoint, f, r, uptime)
    <2>1. r.response \in Response /\ r.response.session # 0
        BY <1>3, <1>4, <1>10 DEF DeviceOutcome, Answered, Frame
    <2>2. r.response # NoResponse
        BY <2>1, NoResponseTyped
    <2> DEFINE reply == [response |-> r.response, to |-> f]
    <2>3. reply \in Reply /\ toHost' = Append(toHost, reply) /\ reported' = r.response
        BY <1>3, <1>5, <2>1, <2>2 DEF Reply
    <2>4. reply.to = f /\ reply.response = r.response
        OBVIOUS
    <2> HIDE DEF reply
    <2>5. toHost' \in Seq(Reply) /\ Elements(toHost') \subseteq Elements(toHost) \cup {reply}
        BY <2>3, ElementsOfAppend DEF TypeOK
    <2>6. TypeOK'
        BY <1>2, <1>3, <1>7, <2>5 DEF TypeOK
    <2>7. Honest(reply)
        BY <1>10, <2>4 DEF Answered, Honest
    <2>8. RepliesKnown'
        BY <1>2, <1>6, <2>4, <2>5, <2>7 DEF RepliesKnown, Known, Numbered, Honest
    <2>9. ArmedIsReported'
        BY <1>5, <1>10, <2>3 DEF Answered, ArmedIsReported
    <2>10. SessionOwnsHistory'
        BY <1>5, <1>10 DEF Answered, SessionOwnsHistory
    <2>11. CoreStep
        BY <1>5, <1>10, <2>9, <2>10 DEF CoreStep, Answered
    <2> QED
        BY <1>8, <2>6, <2>8, <2>11
<1> QED
    BY <1>4, <1>9, <1>10 DEF DeviceOutcome

LEMMA NoiseStep == ASSUME IInv, DeviceNoise PROVE HostInv' /\ CoreStep
<1> USE DEF IInv, HostInv
<1>1. toDevice # <<>> /\ toDevice' = Tail(toDevice) /\ endpoint' = OnNoise(endpoint)
      /\ UNCHANGED <<host, pending, uptime, toHost, reported, recorded>>
    BY DEF DeviceNoise, hostVars
<1>2. toDevice' \in Seq(Frame \cup {Noise}) /\ Elements(toDevice') \subseteq Elements(toDevice)
    BY <1>1, ElementsOfTail DEF TypeOK
<1>3. endpoint.core \in Core /\ endpoint' = [core |-> Disarm(endpoint.core),
                                             session |-> endpoint.session]
      /\ endpoint.session \in Nat
    BY <1>1 DEF OnNoise, TypeOK, Endpoint
<1>4. endpoint' \in Endpoint /\ endpoint'.core.state = "DISARMED" /\ ~endpoint'.core.hasSample
    BY <1>3, DisarmReturns DEF Endpoint
<1>5. TypeOK'
    BY <1>1, <1>2, <1>4 DEF TypeOK
<1>6. HostInv'
    BY <1>1, <1>2, <1>5, LinesLose DEF hostVars
<1>7. CoreStep
    BY <1>4 DEF CoreStep, ArmedIsReported, SessionOwnsHistory
<1> QED
    BY <1>6, <1>7

LEMMA RebootStep == ASSUME IInv, DeviceReboot PROVE HostInv' /\ CoreStep
<1> USE DEF IInv, HostInv
<1>1. endpoint' = BootEndpoint /\ uptime' = 0 /\ reported' = NoResponse /\ recorded' = NoFrame
      /\ UNCHANGED <<host, pending, toDevice, toHost>>
    BY DEF DeviceReboot, hostVars
<1>2. BootEndpoint \in Endpoint /\ BootEndpoint.core.state = "DISARMED"
      /\ ~BootEndpoint.core.hasSample
    BY DEF BootEndpoint, Endpoint, InitialCore, Core, FlightState
<1>3. TypeOK'
    BY <1>1, <1>2, NoResponseTyped DEF TypeOK
<1>4. HostInv'
    BY <1>1, <1>3, LinesLose DEF hostVars
<1>5. CoreStep
    BY <1>1, <1>2 DEF CoreStep, ArmedIsReported, SessionOwnsHistory
<1> QED
    BY <1>4, <1>5

\* Steps that leave the device alone.
LEMMA CoreUntouched ==
    ASSUME IInv, UNCHANGED <<endpoint, reported, recorded>>
    PROVE  CoreStep
BY DEF IInv, CoreStep, ArmedIsReported, SessionOwnsHistory

LEMMA Step == ASSUME IInv, [Next]_vars PROVE HostInv' /\ CoreStep
<1>1. CASE HostNext
    <2>1. UNCHANGED <<endpoint, reported, recorded>>
        BY <1>1 DEF HostNext, HostSend, HostRepeat, HostGiveUp, HostNewSession, HostReceive,
           deviceVars
    <2> QED
        BY <1>1, <2>1, HostStep, CoreUntouched
<1>2. CASE LineNext
    <2>1. UNCHANGED <<endpoint, reported, recorded>>
        BY <1>2 DEF LineNext, Garble, LoseFrame, LoseReply, deviceVars
    <2> QED
        BY <1>2, <2>1, LineStep, CoreUntouched
<1>3. CASE DeviceNoise
    BY <1>3, NoiseStep
<1>4. CASE DeviceFrame
    BY <1>4, FrameStep
<1>5. CASE DeviceUptime
    <2>1. uptime' = 1 /\ UNCHANGED <<host, pending, endpoint, toDevice, toHost, reported, recorded>>
        BY <1>5 DEF DeviceUptime, hostVars
    <2>2. TypeOK'
        BY <2>1 DEF IInv, HostInv, TypeOK
    <2>3. HostInv'
        BY <2>1, <2>2, LinesLose DEF IInv, HostInv, hostVars
    <2> QED
        BY <2>1, <2>3, CoreUntouched
<1>6. CASE DeviceReboot
    BY <1>6, RebootStep
<1>7. CASE UNCHANGED vars
    <2>1. UNCHANGED <<host, pending, endpoint, uptime, toDevice, toHost, reported, recorded>>
        BY <1>7 DEF vars
    <2>2. TypeOK'
        BY <2>1 DEF IInv, HostInv, TypeOK
    <2>3. HostInv'
        BY <2>1, <2>2, LinesLose DEF IInv, HostInv, hostVars
    <2> QED
        BY <2>1, <2>3, CoreUntouched
<1> QED
    BY <1>1, <1>2, <1>3, <1>4, <1>5, <1>6, <1>7 DEF Next, DeviceNext

LEMMA IInvHolds == Spec => []IInv
<1>1. IInv /\ [Next]_vars => IInv'
    BY Step DEF IInv, CoreStep
<1> QED
    BY InitIInv, <1>1, PTL DEF Spec

-----------------------------------------------------------------------------

\* Host, lines and device stay well-typed.
THEOREM TypeCorrect == Spec => []TypeOK
<1>1. IInv => TypeOK
    BY DEF IInv, HostInv
<1> QED
    BY IInvHolds, <1>1, PTL

\* Whatever the line does, an armed device has said so.
THEOREM ArmedAlwaysReported == Spec => []ArmedIsReported
<1>1. IInv => ArmedIsReported
    BY DEF IInv
<1> QED
    BY IInvHolds, <1>1, PTL

\* However sessions are interleaved, the core's history is of its session.
THEOREM SessionAlwaysOwnsHistory == Spec => []SessionOwnsHistory
<1>1. IInv => SessionOwnsHistory
    BY DEF IInv
<1> QED
    BY IInvHolds, <1>1, PTL

\* Whatever was lost, repeated, given up or restarted, the host takes no
\* answer for that to another frame.
THEOREM AnswersAlwaysFit == Spec => []AnswerFitsQuestion
<1>1. ASSUME HostInv PROVE AnswerFitsQuestion
    <2>1. SUFFICES ASSUME NEW i \in 1..Len(toHost), Answers(toHost[i], pending)
                   PROVE  /\ toHost[i].to = pending
                          /\ toHost[i].response.motors # "Zero" =>
                                pending.arm /\ toHost[i].response.result = "OK"
        BY DEF AnswerFitsQuestion
    <2>2. Known(toHost[i].to) /\ Honest(toHost[i])
        BY <1>1 DEF HostInv, RepliesKnown, Elements
    <2>3. toHost[i].to = pending
        BY <2>1, <2>2 DEF Answers, Known, Honest
    <2> QED
        BY <2>2, <2>3 DEF Honest
<1>2. IInv => AnswerFitsQuestion
    BY <1>1 DEF IInv
<1> QED
    BY IInvHolds, <1>2, PTL

=============================================================================
