----------------------- MODULE RealtimeSessionProofs -----------------------
(***************************************************************************)
(* The safety of one session, for every value of the constants: the type   *)
(* invariant and the invariants that the session_safety run checks.        *)
(***************************************************************************)
EXTENDS RealtimeSession, FiniteSetTheorems, TLAPS

\* Dropping the oldest keeps a sequence of the same elements, within the bound.
LEMMA NewestFacts ==
  ASSUME NEW S, NEW s \in Seq(S), NEW n \in Nat
  PROVE  /\ Newest(s, n) \in Seq(S)
         /\ Len(Newest(s, n)) <= n
         /\ Range(Newest(s, n)) \subseteq Range(s)
<1>1. CASE Len(s) <= n
  BY <1>1 DEF Newest
<1>2. CASE ~(Len(s) <= n)
  <2>1. Newest(s, n) = SubSeq(s, Len(s) - n + 1, Len(s))
    BY <1>2 DEF Newest
  <2>2. /\ Newest(s, n) \in Seq(S) /\ Len(Newest(s, n)) = n
        /\ \A i \in 1..n : Newest(s, n)[i] = s[Len(s) - n + i]
    BY <2>1, <1>2
  <2>3. Range(Newest(s, n)) \subseteq Range(s)
    BY <2>2, <1>2 DEF Range
  <2> QED BY <2>2, <2>3
<1> QED BY <1>1, <1>2

LEMMA AppendRange ==
  ASSUME NEW S, NEW s \in Seq(S), NEW e \in S
  PROVE  /\ Append(s, e) \in Seq(S)
         /\ Range(Append(s, e)) \subseteq Range(s) \cup {e}
BY DEF Range

LEMMA TailFacts ==
  ASSUME NEW S, NEW s \in Seq(S), s # <<>>
  PROVE  /\ Tail(s) \in Seq(S) /\ Len(Tail(s)) = Len(s) - 1
         /\ Head(s) \in S /\ Head(s) \in Range(s)
         /\ Range(Tail(s)) \subseteq Range(s)
BY DEF Range

\* The audio record has the type TypeOK gives it.
AudioType == [pending : Seq(Requests), overlap : Seq(Requests), segment : Nat,
              finalize : BOOLEAN, closing : BOOLEAN]
AudioOK(a) == a \in AudioType /\ Len(a.pending) <= BacklogMax /\ Len(a.overlap) <= OverlapTarget

LEMMA EmptyAudioOK == AudioOK(EmptyAudio)
BY SessionAssumption DEF AudioOK, AudioType, EmptyAudio, SessionAssumption

\* What the feeder has in hand fits the place where it waits.
HandOK == hand \in Seq(Requests) /\ (hand # <<>> <=> feed \in FeedHolds)

LEMMA CancelFeedType ==
  ASSUME TypeOK, CancelFeed
  PROVE  feed' \in FeedStates /\ gen' \in GenStates /\ HandOK'
BY DEF TypeOK, CancelFeed, FeedStates, GenStates, FeedEnded, FeedHolds, HandOK

LEMMA EnsureFeedHolds ==
  ASSUME NEW f
  PROVE  EnsureFeed(f) \in FeedHolds <=> f \in FeedHolds
BY DEF EnsureFeed, FeedHolds, FeedEnded

\* The feeder's two awaits, and what becomes of them when the generation is over.
LEMMA AwaitFacts ==
  /\ Awaiting("roll") \in {"roll", "rolled"} /\ Awaiting("finish") \in {"finish", "finished"}
  /\ \A f : \/ f = "roll" /\ Released(f) = "rolled"
            \/ f = "finish" /\ Released(f) = "finished"
            \/ f \notin {"roll", "finish"} /\ Released(f) = f
BY DEF Awaiting, Released

LEMMA CancelRestType ==
  ASSUME TypeOK, CancelRest, feed \in FeedEnded
  PROVE  /\ feed' \in FeedStates /\ HandOK' /\ wake' \in BOOLEAN /\ utterance' \in BOOLEAN
         /\ AudioOK(audio') /\ suppress' \in Nat
         /\ gen' \in GenStates /\ vq' \in Seq(Requests \cup {EOS})
<1>1. vq' \in Seq(Requests \cup {EOS})
  BY DEF CancelRest
<1>2. HandOK'
  BY DEF TypeOK, CancelRest, FeedEnded, FeedHolds, HandOK
<1> QED
  BY <1>1, <1>2, EmptyAudioOK DEF TypeOK, CancelRest, ResetAudio, Stopped, FeedStates, GenStates

LEMMA SignalType ==
  ASSUME TypeOK, SignalFeeder
  PROVE  feed' \in FeedStates /\ wake' \in BOOLEAN /\ HandOK'
<1>1. HandOK'
  BY EnsureFeedHolds DEF TypeOK, SignalFeeder, HandOK
<1> QED BY <1>1 DEF TypeOK, SignalFeeder, EnsureFeed, FeedStates

LEMMA OpenUtteranceType ==
  ASSUME TypeOK, NEW r \in Requests \cup {NoRequest}, NEW f \in FeedStates,
         f \in FeedHolds <=> feed \in FeedHolds, OpenUtterance(r, f)
  PROVE  /\ active' \in Requests \cup {NoRequest}
         /\ feed' \in FeedStates /\ HandOK' /\ wake' \in BOOLEAN /\ utterance' \in BOOLEAN
         /\ AudioOK(audio') /\ suppress' \in Nat
<1>1. HandOK'
  BY EnsureFeedHolds DEF TypeOK, OpenUtterance, HandOK
<1> QED
  BY <1>1, EmptyAudioOK DEF TypeOK, OpenUtterance, ResetAudio, EnsureFeed, FeedStates

LEMMA BeginUtteranceType ==
  ASSUME TypeOK, NEW r \in Requests \cup {NoRequest}, NEW f \in FeedStates, NEW g \in GenStates,
         f \in FeedHolds <=> feed \in FeedHolds, BeginUtterance(r, f, g)
  PROVE  /\ active' \in Requests \cup {NoRequest}
         /\ feed' \in FeedStates /\ HandOK' /\ wake' \in BOOLEAN /\ utterance' \in BOOLEAN
         /\ AudioOK(audio') /\ suppress' \in Nat /\ gen' \in GenStates
BY OpenUtteranceType DEF BeginUtterance, StartGeneration, GenStates

LEMMA TakeAnyType ==
  ASSUME TypeOK, NEW m, Take(m)
  PROVE  /\ m \in MessageType
         /\ inq' \in Seq(MessageType) /\ Len(inq') <= InboundMax
         /\ reqId' \in RequestIds
<1>1. inq \in Seq(MessageType) /\ inq # <<>> /\ inq' = Tail(inq) /\ Len(inq) <= InboundMax
  BY DEF TypeOK, Take
<1>2. InboundMax \in Nat
  BY SessionAssumption DEF SessionAssumption
<1>3. m \in MessageType /\ reqId' = m.rid
  BY <1>1, TailFacts DEF Take
<1> QED BY <1>1, <1>2, <1>3, TailFacts DEF MessageType

LEMMA TakeType ==
  ASSUME TypeOK, NEW k \in QueuedKinds, NEW r \in RequestIds, Take([kind |-> k, rid |-> r])
  PROVE  /\ inq' \in Seq(MessageType) /\ Len(inq') <= InboundMax
         /\ reqId' \in RequestIds
BY TakeAnyType

LEMMA PushedOK ==
  ASSUME TypeOK, NEW r \in Requests
  PROVE  AudioOK([audio EXCEPT !.pending = PushPending(@, r)])
<1> DEFINE p == Newest(Append(audio.pending, r), BacklogMax)
<1>1. p \in Seq(Requests) /\ Len(p) <= BacklogMax
  <2>1. Append(audio.pending, r) \in Seq(Requests) /\ BacklogMax \in Nat
    BY AppendRange, SessionAssumption DEF TypeOK, SessionAssumption
  <2> QED BY <2>1, NewestFacts
<1> HIDE DEF p
<1>2. [audio EXCEPT !.pending = PushPending(@, r)]
        = [pending |-> p, overlap |-> audio.overlap, segment |-> audio.segment,
           finalize |-> audio.finalize, closing |-> audio.closing]
  <2>1. audio \in AudioType /\ PushPending(audio.pending, r) = p
    BY DEF TypeOK, AudioType, PushPending, p
  <2> QED BY <2>1 DEF AudioType
<1> QED BY <1>1, <1>2 DEF TypeOK, AudioOK, AudioType

LEMMA PoppedFacts ==
  ASSUME TypeOK, audio.pending # <<>>
  PROVE  /\ AudioOK([audio EXCEPT !.pending = Tail(@)])
         /\ Head(audio.pending) \in Requests /\ Head(audio.pending) \in Range(audio.pending)
         /\ Range(Tail(audio.pending)) \subseteq Range(audio.pending)
<1>1. /\ audio \in AudioType /\ audio.pending \in Seq(Requests)
      /\ Len(audio.pending) <= BacklogMax /\ BacklogMax \in Nat
      /\ Len(audio.overlap) <= OverlapTarget
  BY SessionAssumption DEF TypeOK, AudioType, SessionAssumption
<1>2. /\ Tail(audio.pending) \in Seq(Requests) /\ Len(Tail(audio.pending)) = Len(audio.pending) - 1
      /\ Head(audio.pending) \in Requests /\ Head(audio.pending) \in Range(audio.pending)
      /\ Range(Tail(audio.pending)) \subseteq Range(audio.pending)
  BY <1>1, TailFacts
<1>3. Len(Tail(audio.pending)) <= BacklogMax
  <2>1. Len(audio.pending) \in Nat
    BY <1>1
  <2> QED BY <1>1, <1>2, <2>1
<1>4. AudioOK([audio EXCEPT !.pending = Tail(@)])
  BY <1>1, <1>2, <1>3 DEF AudioOK, AudioType
<1> QED BY <1>2, <1>4

\* A chunk that counts is in the overlap, with what was there before.
LEMMA CountedFacts ==
  ASSUME TypeOK, feed = "sending"
  PROVE  /\ Head(hand) \in Requests /\ Head(hand) \in Range(hand)
         /\ AudioOK(Counted) /\ AudioOK([Counted EXCEPT !.closing = TRUE])
         /\ Counted.pending = audio.pending /\ Counted.finalize = audio.finalize
         /\ Counted.closing = audio.closing
         /\ Range(Counted.overlap) \subseteq Range(audio.overlap) \cup Range(hand)
         /\ [Counted EXCEPT !.closing = TRUE].overlap = Counted.overlap
         /\ [Counted EXCEPT !.closing = TRUE].pending = Counted.pending
<1> DEFINE chunk == Head(hand)
           o     == Newest(Append(audio.overlap, chunk), OverlapTarget)
<1>1. /\ audio \in AudioType /\ OverlapTarget \in Nat
      /\ audio.overlap \in Seq(Requests) /\ audio.segment + 1 \in Nat
      /\ hand \in Seq(Requests) /\ hand # <<>>
      /\ Len(audio.pending) <= BacklogMax
  BY SessionAssumption DEF TypeOK, AudioType, SessionAssumption, FeedHolds
<1>2. chunk \in Requests /\ chunk \in Range(hand)
  BY <1>1, TailFacts
<1>3. /\ o \in Seq(Requests) /\ Len(o) <= OverlapTarget
      /\ Range(o) \subseteq Range(audio.overlap) \cup {chunk}
  <2>1. /\ Append(audio.overlap, chunk) \in Seq(Requests)
        /\ Range(Append(audio.overlap, chunk)) \subseteq Range(audio.overlap) \cup {chunk}
    BY <1>1, <1>2, AppendRange
  <2> QED BY <2>1, <1>1, NewestFacts
<1>4. Counted = [pending |-> audio.pending, overlap |-> o, segment |-> audio.segment + 1,
                 finalize |-> audio.finalize, closing |-> audio.closing]
  <2> HIDE DEF o
  <2>1. Counted = [audio EXCEPT !.segment = audio.segment + 1, !.overlap = o]
    BY DEF Counted, o
  <2> QED BY <1>1, <2>1 DEF AudioType
<1> HIDE DEF o, chunk
<1>5. AudioOK(Counted)
  BY <1>1, <1>3, <1>4 DEF AudioOK, AudioType
<1>6. AudioOK([Counted EXCEPT !.closing = TRUE])
  BY <1>5 DEF AudioOK, AudioType
<1> QED BY <1>2, <1>3, <1>4, <1>5, <1>6 DEF chunk, AudioOK, AudioType

\* Dropping leaves nothing in vLLM's queue that was not there.
LEMMA DropOldestFacts ==
  ASSUME NEW q \in Seq(Requests \cup {EOS}), DropOldest(q)
  PROVE  vq' \in Seq(Requests \cup {EOS}) /\ Range(vq') \subseteq Range(q)
<1>1. PICK n \in 0..Len(q) :
        \/ vq' = SubSeq(q, n + 1, Len(q))
        \/ /\ n < Len(q) /\ q[n + 1] = EOS
           /\ vq' = Append(SubSeq(q, n + 2, Len(q)), EOS)
  <2>1. PICK n \in 0..Len(q) :
          \/ vq' = SubSeq(q, n + 1, Len(q))
          \/ n < Excess(q) /\ q[n + 1] = EOS /\ vq' = Append(SubSeq(q, n + 2, Len(q)), EOS)
    BY DEF DropOldest
  <2>2. n < Excess(q) => n < Len(q)
    <3>0. Len(q) \in Nat /\ 1 \in Int /\ Len(q) \in Int
      OBVIOUS
    <3>4. /\ IsFiniteSet(1..Len(q))
          /\ Cardinality(1..Len(q)) = IF 1 > Len(q) THEN 0 ELSE Len(q) - 1 + 1
      BY <3>0, FS_Interval, Zenon
    <3>1. IsFiniteSet(1..Len(q)) /\ Cardinality(1..Len(q)) = Len(q)
      BY <3>0, <3>4
    <3>2. /\ {i \in DOMAIN q : q[i] # EOS} \subseteq 1..Len(q)
      OBVIOUS
    <3>3. Cardinality({i \in DOMAIN q : q[i] # EOS}) \in Nat
          /\ Cardinality({i \in DOMAIN q : q[i] # EOS}) <= Len(q)
      BY <3>1, <3>2, FS_Subset, FS_CardinalityType
    <3> QED BY <3>3, SessionAssumption DEF Excess, SessionAssumption
  <2> QED BY <2>1, <2>2
<1>2. ASSUME NEW m \in 1..Len(q) + 1
      PROVE  /\ SubSeq(q, m, Len(q)) \in Seq(Requests \cup {EOS})
             /\ Range(SubSeq(q, m, Len(q))) \subseteq Range(q)
  <2>1. /\ SubSeq(q, m, Len(q)) \in Seq(Requests \cup {EOS})
        /\ Len(SubSeq(q, m, Len(q))) = Len(q) - m + 1
        /\ \A i \in 1..Len(q) - m + 1 : SubSeq(q, m, Len(q))[i] = q[m + i - 1]
    OBVIOUS
  <2> QED BY <2>1 DEF Range
<1>3. CASE vq' = SubSeq(q, n + 1, Len(q))
  BY <1>2, <1>3
<1>4. CASE n < Len(q) /\ q[n + 1] = EOS /\ vq' = Append(SubSeq(q, n + 2, Len(q)), EOS)
  <2>1. n + 2 \in 1..Len(q) + 1 /\ EOS \in Range(q)
    BY <1>4 DEF Range
  <2>2. /\ SubSeq(q, n + 2, Len(q)) \in Seq(Requests \cup {EOS})
        /\ Range(SubSeq(q, n + 2, Len(q))) \subseteq Range(q)
    BY <1>2, <2>1
  <2> DEFINE rest == SubSeq(q, n + 2, Len(q))
  <2> HIDE DEF rest
  <2>3. /\ Append(rest, EOS) \in Seq(Requests \cup {EOS})
        /\ Range(Append(rest, EOS)) \subseteq Range(rest) \cup {EOS}
    <3>1. EOS \in Requests \cup {EOS} /\ rest \in Seq(Requests \cup {EOS})
      BY <2>2 DEF rest
    <3> QED BY <3>1, AppendRange
  <2>4. vq' = Append(rest, EOS)
    BY <1>4 DEF rest
  <2>5. Range(rest) \subseteq Range(q)
    BY <2>2 DEF rest
  <2> QED BY <2>1, <2>3, <2>4, <2>5
<1> QED BY <1>1, <1>3, <1>4

LEMMA ErrorEventType ==
  ASSUME TypeOK, ErrorEvent
  PROVE  /\ out' \in SUBSET ({"done", "cancelled", "error"} \X RequestIds)
         /\ suppress' \in Nat /\ inflight' \in Requests \cup {NoRequest}
BY DEF ErrorEvent, ClearInflight, Emit, FrameId, TypeOK, RequestIds

LEMMA AppendToVllmType ==
  ASSUME TypeOK, NEW c \in Requests, AppendToVllm(c)
  PROVE  /\ vq' \in Seq(Requests \cup {EOS}) /\ Range(vq') \subseteq Range(vq) \cup {c}
         /\ out' \in SUBSET ({"done", "cancelled", "error"} \X RequestIds)
         /\ suppress' \in Nat /\ inflight' \in Requests \cup {NoRequest}
<1>1. CASE DropOldest(Append(vq, c)) /\ UNCHANGED <<inflight, suppress, out>>
  <2>1. /\ Append(vq, c) \in Seq(Requests \cup {EOS})
        /\ Range(Append(vq, c)) \subseteq Range(vq) \cup {c}
    BY AppendRange DEF TypeOK
  <2>2. vq' \in Seq(Requests \cup {EOS}) /\ Range(vq') \subseteq Range(Append(vq, c))
    BY <1>1, <2>1, DropOldestFacts
  <2> QED BY <1>1, <2>1, <2>2 DEF TypeOK
<1>2. CASE ErrorEvent /\ UNCHANGED vq
  BY <1>2, ErrorEventType DEF TypeOK
<1> QED BY <1>1, <1>2 DEF AppendToVllm

LEMMA ReplayRestType ==
  ASSUME TypeOK, NEW rest \in Seq(Requests), NEW size \in Nat, ReplayRest(rest, size)
  PROVE  /\ AudioOK(audio') /\ HandOK' /\ feed' \in FeedStates
         /\ audio'.pending = audio.pending /\ audio'.overlap = audio.overlap
         /\ vq' \in Seq(Requests \cup {EOS})
         /\ out' \in SUBSET ({"done", "cancelled", "error"} \X RequestIds)
         /\ suppress' \in Nat /\ inflight' \in Requests \cup {NoRequest}
<1>0. /\ audio \in AudioType /\ AudioOK(audio)
  BY DEF TypeOK, AudioOK, AudioType
<1>1. CASE rest # <<>>
  <2>1. /\ audio' = [audio EXCEPT !.segment = size] /\ hand' = rest /\ feed' = "replay"
        /\ AppendToVllm(Head(rest)) /\ Head(rest) \in Requests
    BY <1>1, TailFacts DEF ReplayRest
  <2>2. /\ AudioOK(audio')
        /\ audio'.pending = audio.pending /\ audio'.overlap = audio.overlap
    BY <1>0, <2>1 DEF AudioOK, AudioType
  <2>3. HandOK' /\ feed' \in FeedStates
    BY <1>1, <2>1 DEF HandOK, FeedHolds, FeedStates
  <2> QED BY <2>1, <2>2, <2>3, AppendToVllmType
<1>2. CASE rest = <<>>
  <2>1. /\ audio' = [[audio EXCEPT !.segment = size] EXCEPT !.closing = FALSE]
        /\ hand' = <<>> /\ feed' = "drain" /\ UNCHANGED <<inflight, suppress, vq, out>>
    BY <1>2 DEF ReplayRest, Rolled
  <2>2. /\ AudioOK(audio')
        /\ audio'.pending = audio.pending /\ audio'.overlap = audio.overlap
    BY <1>0, <2>1 DEF AudioOK, AudioType
  <2>3. HandOK' /\ feed' \in FeedStates
    BY <1>2, <2>1 DEF HandOK, FeedHolds, FeedStates
  <2> QED BY <2>1, <2>2, <2>3 DEF TypeOK
<1> QED BY <1>1, <1>2

\* Every variable keeps its type, and the queues and buffers their bounds.
THEOREM TypeCorrect == Spec => []TypeOK
<1>1. Init => TypeOK
  <2> SUFFICES ASSUME Init PROVE TypeOK
    OBVIOUS
  <2>1. inq \in Seq(MessageType) /\ Len(inq) <= InboundMax /\ vq \in Seq(Requests \cup {EOS})
    BY SessionAssumption DEF Init, SessionAssumption
  <2>2. AudioOK(audio)
    BY EmptyAudioOK DEF Init
  <2>3. client \in [Requests -> {"new", "open", "final", "cancelled"}] /\ sent \in 0..MaxAppends
    BY SessionAssumption DEF Init, SessionAssumption
  <2>4. hand = <<>> /\ <<>> \in Seq(Requests) /\ feed = "none"
    BY DEF Init
  <2> QED
    BY <2>1, <2>2, <2>3, <2>4 DEF Init, TypeOK, AudioOK, AudioType, RequestIds, NoCommand,
       FeedStates, FeedHolds, GenStates
<1>2. TypeOK /\ [Next]_vars => TypeOK'
  <2> SUFFICES ASSUME TypeOK, [Next]_vars PROVE TypeOK'
    OBVIOUS
  <2> USE SessionAssumption DEF SessionAssumption
  <2>1. CASE Receive
    <3>1. PICK m \in Messages :
            /\ ClientMaySend(m) /\ ClientSent(m) /\ reqId' = m.rid
            /\ \/ /\ Len(inq) < InboundMax /\ inq' = Append(inq, m)
                  /\ UNCHANGED <<recv, proc, feed, hand, gen, out>>
               \/ /\ Len(inq) = InboundMax /\ Emit("error", m.rid)
                  /\ StopProcessor /\ UNCHANGED inq
      BY <2>1 DEF Receive
    <3>2. m \in MessageType
      BY DEF Messages, MessageType, QueuedKinds, RequestIds
    <3>3. inq' \in Seq(MessageType) /\ Len(inq') <= InboundMax
      <4>1. inq \in Seq(MessageType) /\ Len(inq) <= InboundMax
        BY DEF TypeOK
      <4>2. CASE inq' = Append(inq, m) /\ Len(inq) < InboundMax
        BY <4>1, <4>2, <3>2
      <4>3. CASE inq' = inq
        BY <4>1, <4>3
      <4> QED BY <3>1, <4>2, <4>3
    <3>4. /\ client' \in [Requests -> {"new", "open", "final", "cancelled"}]
          /\ sent' \in 0..MaxAppends
      <4>1. CASE m.kind \in {"start", "final", "cancel"}
        <5>1. m.rid \in Requests
          BY <4>1 DEF Messages
        <5>2. PICK c \in {"open", "final", "cancelled"} : client' = [client EXCEPT ![m.rid] = c]
          BY <3>1, <4>1 DEF ClientSent
        <5> QED BY <3>1, <4>1, <5>1, <5>2 DEF ClientSent, TypeOK
      <4>2. CASE m.kind \notin {"start", "final", "cancel"}
        <5>1. client' = client
          BY <3>1, <4>2 DEF ClientSent
        <5>2. sent' \in 0..MaxAppends
          <6>1. sent' = IF m.kind = "append" THEN sent + 1 ELSE sent
            BY <3>1 DEF ClientSent
          <6>2. m.kind = "append" => sent < MaxAppends
            BY <3>1 DEF ClientMaySend
          <6> QED BY <6>1, <6>2 DEF TypeOK
        <5> QED BY <5>1, <5>2 DEF TypeOK
      <4> QED BY <4>1, <4>2
    <3>5. /\ recv' \in {"run", "join"} /\ proc' \in {"idle", "joining", "sending", "dead"}
          /\ feed' \in FeedStates /\ gen' \in GenStates /\ HandOK'
      BY <2>1, <3>1, CancelFeedType DEF Receive, StopProcessor, TypeOK, HandOK
    <3>6. reqId' \in RequestIds /\ out' \in SUBSET ({"done", "cancelled", "error"} \X RequestIds)
      BY <3>1, <3>2 DEF TypeOK, Emit, MessageType
    <3> QED
      BY <2>1, <3>3, <3>4, <3>5, <3>6 DEF TypeOK, HandOK, Receive
  <2>2. CASE ReceivePing
    BY <2>2 DEF TypeOK, ReceivePing, RequestIds, stateVars, feedVars, genVars, envVars
  <2>3. CASE ReceiveLast
    <3>1. /\ recv' = "join" /\ proc' \in {"idle", "joining", "sending", "dead"}
          /\ feed' \in FeedStates /\ gen' \in GenStates /\ HandOK'
      BY <2>3, CancelFeedType DEF ReceiveLast, StopProcessor, TypeOK, HandOK
    <3> QED
      BY <2>3, <3>1 DEF TypeOK, HandOK, ReceiveLast, RequestIds, envVars
  <2>4. CASE TeardownProcessorDone
    <3>1. /\ feed' \in FeedStates /\ gen' \in GenStates /\ HandOK'
          /\ recv' \in {"joinFeed", "closed"}
      BY <2>4, CancelFeedType DEF TeardownProcessorDone, TypeOK, HandOK
    <3> QED
      BY <2>4, <3>1 DEF TypeOK, HandOK, TeardownProcessorDone, stateVars, envVars
  <2>5. CASE TeardownConnDone
    <3>1. CASE feed = "cancelled"
      BY <2>5, <3>1 DEF TypeOK, TeardownConnDone, stateVars, feedVars, genVars, envVars
    <3>2. CASE feed # "cancelled"
      BY <2>5, <3>2, CancelRestType
      DEF TypeOK, HandOK, TeardownConnDone, AudioOK, AudioType, stateVars, envVars
    <3> QED BY <3>1, <3>2
  <2>6. CASE ProcUpdate
    <3>1. /\ inq' \in Seq(MessageType) /\ Len(inq') <= InboundMax
          /\ reqId' \in RequestIds
      BY <2>6, TakeType DEF ProcUpdate, QueuedKinds, RequestIds
    <3> QED
      BY <2>6, <3>1 DEF TypeOK, ProcUpdate, feedVars, genVars, envVars
  <2>7. CASE ProcStart
    <3>1. PICK r \in Requests :
            /\ Take([kind |-> "start", rid |-> r])
            /\ IF BargesIn(r)
               THEN BeginCancel([kind |-> "start", rid |-> r])
               ELSE BeginUtterance(r, feed, gen) /\ UNCHANGED <<inflight, proc, cmd, vq, out>>
      BY <2>7 DEF ProcStart
    <3>2. /\ inq' \in Seq(MessageType) /\ Len(inq') <= InboundMax
          /\ reqId' \in RequestIds
      BY <3>1, TakeType DEF QueuedKinds, RequestIds
    <3>3. CASE BargesIn(r)
      BY <2>7, <3>1, <3>2, <3>3, CancelFeedType DEF TypeOK, HandOK, ProcStart, BeginCancel, envVars
    <3>4. CASE ~BargesIn(r)
      <4>1. feed \in FeedStates /\ gen \in GenStates
        BY DEF TypeOK
      <4> QED
        BY <2>7, <3>1, <3>2, <3>4, <4>1, BeginUtteranceType
        DEF TypeOK, HandOK, ProcStart, AudioOK, AudioType, envVars
    <3> QED BY <3>3, <3>4
  <2>8. CASE ProcCancel
    <3>1. PICK r \in Requests :
            /\ Take([kind |-> "cancel", rid |-> r])
            /\ IF conn
               THEN BeginCancel([kind |-> "cancel", rid |-> r])
               ELSE /\ active' = NoRequest /\ inflight' = NoRequest
                    /\ Emit("cancelled", r)
                    /\ UNCHANGED <<proc, cmd, feedVars, genVars>>
      BY <2>8 DEF ProcCancel
    <3>2. /\ inq' \in Seq(MessageType) /\ Len(inq') <= InboundMax
          /\ reqId' \in RequestIds
      BY <3>1, TakeType DEF QueuedKinds, RequestIds
    <3>3. CASE conn
      BY <2>8, <3>1, <3>2, <3>3, CancelFeedType DEF TypeOK, HandOK, ProcCancel, BeginCancel, envVars
    <3>4. CASE ~conn
      BY <2>8, <3>1, <3>2, <3>4
      DEF TypeOK, ProcCancel, Emit, RequestIds, feedVars, genVars, envVars
    <3> QED BY <3>3, <3>4
  <2>9. CASE ProcCancelDone
    <3>1. CASE cmd.kind = "start"
      <4>1. /\ Stopped(gen) \in GenStates /\ cmd.rid \in Requests \cup {NoRequest} /\ "none" \in FeedStates
            /\ "none" \in FeedHolds <=> feed \in FeedHolds
        BY <2>9 DEF ProcCancelDone, TypeOK, Stopped, GenStates, FeedStates, FeedHolds
      <4>2. BeginUtterance(cmd.rid, "none", Stopped(gen)) /\ vq' = <<>> /\ UNCHANGED out
        BY <2>9, <3>1 DEF ProcCancelDone
      <4>3. vq' \in Seq(Requests \cup {EOS})
        BY <4>2
      <4> QED
        BY <2>9, <4>1, <4>2, <4>3, BeginUtteranceType
        DEF TypeOK, HandOK, ProcCancelDone, NoCommand, AudioOK, AudioType, envVars
    <3>2. CASE cmd.kind # "start"
      <4>1. CancelRest /\ active' = NoRequest /\ Emit("cancelled", cmd.rid)
        BY <2>9, <3>2 DEF ProcCancelDone
      <4>2. out' \in SUBSET ({"done", "cancelled", "error"} \X RequestIds)
        BY <4>1 DEF Emit, TypeOK, RequestIds
      <4>3. feed \in FeedEnded
        BY <2>9 DEF ProcCancelDone, FeedEnded
      <4> QED
        BY <2>9, <4>1, <4>2, <4>3, CancelRestType
        DEF TypeOK, HandOK, ProcCancelDone, NoCommand, AudioOK, AudioType, envVars
    <3> QED BY <3>1, <3>2
  <2>10. CASE ProcCancelRaises
    BY <2>10 DEF TypeOK, ProcCancelRaises, stateVars, feedVars, genVars, envVars
  <2>11. CASE ProcFinal
    <3>1. PICK r \in Requests :
            /\ Take([kind |-> "final", rid |-> r])
            /\ IF NotActive(r)
               THEN Emit("error", r) /\ UNCHANGED <<active, inflight, feedVars>>
               ELSE /\ inflight' = r /\ active' = NoRequest
                    /\ audio' = [audio EXCEPT !.finalize = TRUE]
                    /\ SignalFeeder /\ UNCHANGED <<utterance, out>>
      BY <2>11 DEF ProcFinal
    <3>2. /\ inq' \in Seq(MessageType) /\ Len(inq') <= InboundMax
          /\ reqId' \in RequestIds
      BY <3>1, TakeType DEF QueuedKinds, RequestIds
    <3>3. CASE NotActive(r)
      BY <2>11, <3>1, <3>2, <3>3 DEF TypeOK, ProcFinal, Emit, RequestIds, feedVars, genVars, envVars
    <3>4. CASE ~NotActive(r)
      <4>1. audio' = [pending |-> audio.pending, overlap |-> audio.overlap,
                      segment |-> audio.segment, finalize |-> TRUE, closing |-> audio.closing]
        BY <3>1, <3>4 DEF TypeOK
      <4>2. feed' \in FeedStates /\ wake' \in BOOLEAN /\ HandOK'
        BY <3>1, <3>4, SignalType
      <4> QED
        BY <2>11, <3>1, <3>2, <3>4, <4>1, <4>2 DEF TypeOK, HandOK, AudioType, ProcFinal, genVars, envVars
    <3> QED BY <3>3, <3>4
  <2>12. CASE ProcAppend
    <3>1. PICK r \in Requests :
            /\ Take([kind |-> "append", rid |-> r])
            /\ IF NotActive(r)
               THEN Emit("error", r) /\ UNCHANGED <<feedVars, proc>>
               ELSE /\ audio' = [audio EXCEPT !.pending = PushPending(@, r)]
                    /\ \/ proc' = "sending" /\ UNCHANGED <<feed, hand, wake>>
                       \/ SignalFeeder /\ UNCHANGED proc
                    /\ UNCHANGED <<utterance, out>>
      BY <2>12 DEF ProcAppend, PushPending
    <3>2. /\ inq' \in Seq(MessageType) /\ Len(inq') <= InboundMax
          /\ reqId' \in RequestIds
      BY <3>1, TakeType DEF QueuedKinds, RequestIds
    <3>3. CASE NotActive(r)
      BY <2>12, <3>1, <3>2, <3>3 DEF TypeOK, ProcAppend, Emit, RequestIds, feedVars, genVars, envVars
    <3>4. CASE ~NotActive(r)
      <4>2. AudioOK(audio')
        BY <3>1, <3>4, PushedOK
      <4>3. /\ feed' \in FeedStates /\ wake' \in BOOLEAN /\ HandOK'
            /\ proc' \in {"idle", "joining", "sending", "dead"}
        BY <3>1, <3>4, SignalType DEF TypeOK, HandOK
      <4> QED
        BY <2>12, <3>1, <3>2, <3>4, <4>2, <4>3
        DEF TypeOK, HandOK, AudioOK, AudioType, ProcAppend, genVars, envVars
    <3> QED BY <3>3, <3>4
  <2>27. CASE ProcSent
    BY <2>27, SignalType DEF ProcSent, TypeOK, HandOK, stateVars, genVars, envVars
  <2>13. CASE FeedWake
    <3>1. wake' \in BOOLEAN /\ feed' \in FeedStates /\ HandOK'
      BY <2>13 DEF FeedWake, FeedStates, FeedHolds, HandOK, TypeOK
    <3>2. UNCHANGED <<recv, inq, stateVars, proc, cmd, conn, hand, utterance, audio, genVars, envVars, out>>
      BY <2>13 DEF FeedWake
    <3> QED
      BY <3>1, <3>2 DEF TypeOK, HandOK, stateVars, genVars, envVars
  <2>14. CASE FeedAppend
    <3>1. /\ audio.pending # <<>> /\ AppendToVllm(Head(audio.pending))
          /\ audio' = [audio EXCEPT !.pending = Tail(@)]
          /\ hand' = <<Head(audio.pending)>> /\ feed' = "sending"
          /\ UNCHANGED <<recv, inq, reqId, active, proc, cmd, conn, wake, utterance, gen, envVars>>
      BY <2>14 DEF FeedAppend
    <3>2. AudioOK(audio') /\ Head(audio.pending) \in Requests
      BY <3>1, PoppedFacts
    <3>3. HandOK' /\ feed' \in FeedStates
      BY <3>1, <3>2 DEF HandOK, FeedHolds, FeedStates
    <3>4. /\ vq' \in Seq(Requests \cup {EOS}) /\ suppress' \in Nat
          /\ out' \in SUBSET ({"done", "cancelled", "error"} \X RequestIds)
          /\ inflight' \in Requests \cup {NoRequest}
      BY <3>1, <3>2, AppendToVllmType
    <3>5. UNCHANGED <<recv, inq, reqId, active, proc, cmd, conn, wake, utterance, gen, envVars>>
      BY <3>1
    <3> QED
      BY <3>2, <3>3, <3>4, <3>5 DEF TypeOK, HandOK, AudioOK, AudioType, envVars
  <2>26. CASE FeedSent
    <3>1. /\ feed = "sending" /\ hand' = <<>>
          /\ UNCHANGED <<recv, inq, stateVars, proc, cmd, conn, wake, utterance, gen, envVars, out>>
          /\ \/ /\ audio' = [Counted EXCEPT !.closing = TRUE] /\ vq' = Append(vq, EOS)
                /\ feed' \in {"roll", "rolled"} /\ suppress' = suppress + 1
             \/ audio' = Counted /\ feed' = "drain" /\ UNCHANGED <<suppress, vq>>
      BY <2>26, AwaitFacts DEF FeedSent, SuppressNextDone
    <3>2. AudioOK(audio')
      BY <3>1, CountedFacts
    <3>3. vq' \in Seq(Requests \cup {EOS}) /\ suppress' \in Nat
      <4>1. /\ vq \in Seq(Requests \cup {EOS}) /\ suppress \in Nat
            /\ Append(vq, EOS) \in Seq(Requests \cup {EOS}) /\ suppress + 1 \in Nat
        BY DEF TypeOK
      <4> HIDE DEF Counted
      <4> QED BY <3>1, <4>1
    <3>4. HandOK' /\ feed' \in FeedStates
      BY <3>1 DEF HandOK, FeedHolds, FeedStates
    <3>5. UNCHANGED <<recv, inq, stateVars, proc, cmd, conn, wake, utterance, gen, envVars, out>>
      BY <3>1
    <3> QED
      BY <3>2, <3>3, <3>4, <3>5 DEF TypeOK, HandOK, AudioOK, AudioType, stateVars, envVars
  <2>15. CASE FeedRollDone \/ FeedReplay
    <3>1. /\ \E rest \in Seq(Requests), size \in Nat : ReplayRest(rest, size)
          /\ gen' \in GenStates
          /\ UNCHANGED <<recv, inq, reqId, active, proc, cmd, conn, wake, utterance, envVars>>
      <4>1. CASE FeedRollDone
        BY <4>1 DEF FeedRollDone, StartGeneration, TypeOK, GenStates
      <4>2. CASE FeedReplay
        <5>1. /\ ReplayRest(Tail(hand), audio.segment + 1) /\ UNCHANGED gen
              /\ UNCHANGED <<recv, inq, reqId, active, proc, cmd, conn, wake, utterance, envVars>>
              /\ feed = "replay"
          BY <4>2 DEF FeedReplay
        <5>2. Tail(hand) \in Seq(Requests) /\ audio.segment + 1 \in Nat
          BY <5>1, TailFacts DEF TypeOK, FeedHolds
        <5> QED BY <5>1, <5>2 DEF TypeOK
      <4> QED BY <2>15, <4>1, <4>2
    <3>2. /\ AudioOK(audio') /\ HandOK' /\ feed' \in FeedStates
          /\ vq' \in Seq(Requests \cup {EOS}) /\ suppress' \in Nat
          /\ out' \in SUBSET ({"done", "cancelled", "error"} \X RequestIds)
          /\ inflight' \in Requests \cup {NoRequest}
      BY <3>1, ReplayRestType
    <3> QED
      BY <3>1, <3>2 DEF TypeOK, HandOK, AudioOK, AudioType, envVars
  <2>16. CASE FeedFinalize
    <3>1. /\ feed = "drain" /\ feed' \in {"finish", "finished"} /\ vq' = Append(vq, EOS)
          /\ UNCHANGED <<recv, inq, stateVars, proc, cmd, conn, hand, wake, utterance, audio, gen, suppress, envVars, out>>
      BY <2>16, AwaitFacts DEF FeedFinalize, Draining
    <3>2. HandOK' /\ feed' \in FeedStates
      BY <3>1 DEF TypeOK, HandOK, FeedHolds, FeedStates
    <3> QED BY <3>1, <3>2 DEF TypeOK, HandOK, stateVars, envVars
  <2>17. CASE FeedFinalizeDone
    <3>1. AudioOK(audio') /\ utterance' = FALSE /\ feed' \in FeedStates /\ HandOK'
      BY <2>17, EmptyAudioOK DEF FeedFinalizeDone, ResetAudio, FeedStates, FeedHolds, HandOK, TypeOK
    <3>2. UNCHANGED <<recv, inq, stateVars, proc, cmd, conn, wake, genVars, envVars, out>>
      BY <2>17 DEF FeedFinalizeDone
    <3> QED
      BY <3>1, <3>2 DEF TypeOK, HandOK, AudioOK, AudioType, stateVars, genVars, envVars
  <2>18. CASE FeedPause
    BY <2>18 DEF TypeOK, FeedPause, FeedStates, FeedHolds, stateVars, genVars, envVars
  <2>19. CASE FeedUnwound
    BY <2>19 DEF TypeOK, FeedUnwound, FeedStates, FeedHolds, stateVars, genVars, envVars
  <2>20. CASE FeedFails
    BY <2>20 DEF TypeOK, FeedFails, FeedStates, FeedHolds, GenStates, stateVars, envVars
  <2>21. CASE GenConsume
    BY <2>21 DEF TypeOK, GenConsume, stateVars, feedVars, envVars
  <2>22. CASE GenDone
    <3>1. vq' \in Seq(Requests \cup {EOS})
      BY <2>22, TailFacts DEF GenDone, TypeOK
    <3>2. out' \in SUBSET ({"done", "cancelled", "error"} \X RequestIds) /\ suppress' \in Nat
      BY <2>22 DEF GenDone, TypeOK, Emit, FrameId, RequestIds
    <3> QED
      BY <2>22, <3>1, <3>2 DEF TypeOK, GenDone, ClearInflight, GenStates, feedVars, envVars
  <2>23. CASE GenError
    BY <2>23, ErrorEventType DEF TypeOK, GenError, GenStates, feedVars, envVars
  <2>24. CASE GenEnd
    <3>1. feed' \in FeedStates /\ gen' \in GenStates /\ HandOK'
      BY <2>24, AwaitFacts DEF TypeOK, GenEnd, GenStates, FeedStates, FeedHolds, HandOK
    <3> QED BY <2>24, <3>1 DEF TypeOK, HandOK, GenEnd, stateVars, envVars
  <2>28. CASE ProcRaises
    <3>1. CASE /\ \E m \in Messages : m.kind \in {"update", "start"} /\ Take(m)
               /\ UNCHANGED <<active, inflight, feedVars, genVars>>
      <4>1. inq' \in Seq(MessageType) /\ Len(inq') <= InboundMax /\ reqId' \in RequestIds
        BY <3>1, TakeAnyType
      <4> QED BY <2>28, <3>1, <4>1 DEF ProcRaises, TypeOK, feedVars, genVars, envVars
    <3>2. CASE /\ \E r \in Requests :
                    Take([kind |-> "start", rid |-> r]) /\ ~BargesIn(r) /\ OpenUtterance(r, feed)
               /\ UNCHANGED <<inflight, gen, vq>>
      <4>1. inq' \in Seq(MessageType) /\ Len(inq') <= InboundMax /\ reqId' \in RequestIds
        BY <3>2, TakeAnyType
      <4>2. /\ active' \in Requests \cup {NoRequest}
            /\ feed' \in FeedStates /\ HandOK' /\ wake' \in BOOLEAN /\ utterance' \in BOOLEAN
            /\ AudioOK(audio') /\ suppress' \in Nat
        <5>1. feed \in FeedStates
          BY DEF TypeOK
        <5> QED BY <3>2, <5>1, OpenUtteranceType
      <4> QED BY <2>28, <3>2, <4>1, <4>2 DEF ProcRaises, TypeOK, HandOK, AudioOK, AudioType, envVars
    <3>3. CASE /\ proc = "joining" /\ feed \in {"none", "returned"}
               /\ OpenUtterance(cmd.rid, "none")
               /\ inflight' = NoRequest /\ vq' = <<>> /\ gen' = Stopped(gen)
               /\ UNCHANGED <<inq, reqId>>
      <4>1. /\ Stopped(gen) \in GenStates /\ cmd.rid \in Requests \cup {NoRequest} /\ "none" \in FeedStates
            /\ "none" \in FeedHolds <=> feed \in FeedHolds
        BY <3>3 DEF TypeOK, Stopped, GenStates, FeedStates, FeedHolds
      <4>2. /\ active' \in Requests \cup {NoRequest}
            /\ feed' \in FeedStates /\ HandOK' /\ wake' \in BOOLEAN /\ utterance' \in BOOLEAN
            /\ AudioOK(audio') /\ suppress' \in Nat
        BY <3>3, <4>1, OpenUtteranceType
      <4>3. vq' \in Seq(Requests \cup {EOS})
        BY <3>3
      <4> QED BY <2>28, <3>3, <4>1, <4>2, <4>3 DEF ProcRaises, TypeOK, HandOK, AudioOK, AudioType, envVars
    <3>4. CASE UNCHANGED <<inq, stateVars, feedVars, genVars>>
      BY <2>28, <3>4 DEF ProcRaises, TypeOK, stateVars, feedVars, genVars, envVars
    <3> QED BY <2>28, <3>1, <3>2, <3>3, <3>4 DEF ProcRaises
  <2>25. CASE UNCHANGED vars
    BY <2>25 DEF TypeOK, vars, stateVars, feedVars, genVars, envVars
  <2> QED
    BY <2>1, <2>2, <2>3, <2>4, <2>5, <2>6, <2>7, <2>8, <2>9, <2>10, <2>11, <2>12,
       <2>13, <2>14, <2>15, <2>16, <2>17, <2>18, <2>19, <2>20, <2>21, <2>22,
       <2>23, <2>24, <2>25, <2>26, <2>27, <2>28
    DEF Next, Receiver, Teardown, Processor, Feeder, Generation, Failure
<1> QED BY <1>1, <1>2, PTL DEF Spec

\* An open utterance and one that awaits its done have the same request_id.
THEOREM IdsAgreeAlways == Spec => []IdsAgree
<1>1. Init => IdsAgree
  BY DEF Init, IdsAgree
<1>2. TypeOK /\ IdsAgree /\ [Next]_vars => IdsAgree'
  <2> SUFFICES ASSUME TypeOK, IdsAgree, [Next]_vars PROVE IdsAgree'
    OBVIOUS
  <2>1. CASE ProcStart
    <3>1. PICK r \in Requests :
            IF BargesIn(r) THEN UNCHANGED <<active, inflight>>
            ELSE active' = r /\ UNCHANGED inflight
      BY <2>1 DEF ProcStart, BeginCancel, BeginUtterance, OpenUtterance
    <3> QED BY <3>1 DEF IdsAgree, BargesIn
  <2>2. CASE ProcCancel
    BY <2>2 DEF ProcCancel, BeginCancel, IdsAgree
  <2>3. CASE ProcCancelDone
    BY <2>3 DEF ProcCancelDone, IdsAgree
  <2>4. CASE ProcFinal
    BY <2>4 DEF ProcFinal, IdsAgree
  <2>5. CASE GenDone \/ GenError \/ FeedAppend \/ FeedRollDone \/ FeedReplay
    BY <2>5 DEF GenDone, GenError, FeedAppend, FeedRollDone, FeedReplay, ReplayRest, AppendToVllm,
       ErrorEvent, ClearInflight, IdsAgree
  <2>6. CASE Receiver \/ Teardown
    BY <2>6 DEF Receiver, Receive, ReceivePing, ReceiveLast, Teardown, TeardownProcessorDone,
       TeardownConnDone, stateVars, IdsAgree
  <2>7. CASE ProcUpdate \/ ProcCancelRaises \/ ProcAppend \/ ProcSent
    BY <2>7 DEF ProcUpdate, ProcCancelRaises, ProcAppend, ProcSent, stateVars, IdsAgree
  <2>8. CASE FeedWake \/ FeedSent \/ FeedFinalize \/ FeedFinalizeDone \/ FeedPause \/ FeedUnwound \/ FeedFails
    BY <2>8 DEF FeedWake, FeedSent, FeedFinalize, FeedFinalizeDone,
       FeedPause, FeedUnwound, FeedFails, stateVars, IdsAgree
  <2>10. CASE ProcRaises
    BY <2>10 DEF ProcRaises, OpenUtterance, BargesIn, stateVars, IdsAgree
  <2>9. CASE GenConsume \/ GenEnd \/ UNCHANGED vars
    BY <2>9 DEF GenConsume, GenEnd, vars, stateVars, IdsAgree
  <2> QED
    BY <2>1, <2>2, <2>3, <2>4, <2>5, <2>6, <2>7, <2>8, <2>9, <2>10
    DEF Next, Processor, Feeder, Generation, Failure
<1> QED BY <1>1, <1>2, TypeCorrect, PTL DEF Spec

\* A sleeping feeder leaves no work of a live utterance without a wake-up.
THEOREM NoLostWakeupAlways == Spec => []NoLostWakeup
<1>1. Init => NoLostWakeup
  BY DEF Init, NoLostWakeup
<1>2. TypeOK /\ NoLostWakeup /\ [Next]_vars => NoLostWakeup'
  <2> SUFFICES ASSUME TypeOK, NoLostWakeup, [Next]_vars PROVE NoLostWakeup'
    OBVIOUS
  <2>e. EmptyAudio.pending = <<>> /\ ~EmptyAudio.finalize
    BY DEF EmptyAudio
  <2>c. CancelFeed /\ feed' = "wait" => feed = "wait"
    BY DEF CancelFeed
  <2>1. CASE ProcStart
    BY <2>1, <2>c, <2>e
    DEF ProcStart, Take, BeginCancel, BeginUtterance, OpenUtterance, ResetAudio, NoLostWakeup
  <2>2. CASE ProcCancel
    BY <2>2, <2>c DEF ProcCancel, Take, BeginCancel, feedVars, NoLostWakeup
  <2>3. CASE ProcCancelDone
    BY <2>3, <2>e DEF ProcCancelDone, BeginUtterance, OpenUtterance, CancelRest, ResetAudio, NoLostWakeup
  <2>4. CASE ProcFinal \/ ProcSent
    BY <2>4 DEF ProcFinal, ProcSent, SignalFeeder, feedVars, NoLostWakeup
  <2>5. CASE ProcAppend
    <3>1. CASE SignalFeeder \/ UNCHANGED feedVars
      BY <2>5, <3>1 DEF ProcAppend, Take, SignalFeeder, feedVars, NoLostWakeup
    <3>2. CASE ~(SignalFeeder \/ UNCHANGED feedVars)
      <4>1. PICK r \in Requests :
              /\ audio' = [audio EXCEPT !.pending = PushPending(@, r)]
              /\ Len(audio.pending) = BacklogMax /\ proc # "dead"
              /\ UNCHANGED <<feed, wake, utterance>>
        BY <2>5, <3>2 DEF ProcAppend, Take
      <4>2. audio.pending # <<>> /\ audio'.closing = audio.closing
        BY <4>1, SessionAssumption DEF SessionAssumption, TypeOK
      <4> QED BY <4>1, <4>2 DEF NoLostWakeup
    <3> QED BY <3>1, <3>2
  <2>6. CASE FeedWake \/ FeedPause
    BY <2>6 DEF FeedWake, FeedPause, Draining, NoLostWakeup
  <2>7. CASE FeedAppend \/ FeedSent \/ FeedRollDone \/ FeedReplay
    BY <2>7, AwaitFacts DEF FeedAppend, FeedSent, FeedRollDone, FeedReplay, ReplayRest, NoLostWakeup
  <2>8. CASE FeedFinalize \/ FeedFinalizeDone \/ FeedUnwound \/ FeedFails
    BY <2>8, <2>e, AwaitFacts
    DEF FeedFinalize, FeedFinalizeDone, FeedUnwound, FeedFails, ResetAudio, NoLostWakeup
  <2>9. CASE Receiver
    BY <2>9, <2>c DEF Receiver, Receive, ReceivePing, ReceiveLast, StopProcessor, feedVars, NoLostWakeup
  <2>10. CASE Teardown
    BY <2>10, <2>c DEF Teardown, TeardownProcessorDone, TeardownConnDone, CancelRest, feedVars, NoLostWakeup
  <2>11. CASE ProcUpdate \/ ProcCancelRaises \/ ProcRaises \/ Generation \/ GenError \/ UNCHANGED vars
    BY <2>11, AwaitFacts DEF ProcUpdate, ProcCancelRaises, ProcRaises, Generation, GenConsume, GenDone, GenEnd, GenError,
       vars, feedVars, NoLostWakeup
  <2> QED
    BY <2>1, <2>2, <2>3, <2>4, <2>5, <2>6, <2>7, <2>8, <2>9, <2>10, <2>11
    DEF Next, Processor, Feeder, Failure
<1> QED BY <1>1, <1>2, TypeCorrect, PTL DEF Spec

\* The session's handling of utterances implements the abstract promise:
\* every step of every task is one of Utterance's, or none.
THEOREM ImplementsUtterance == Spec => UtteranceSpec
<1>1. Init => Promised!Init
  BY DEF Init, Promised!Init, Promised!None
<1>2. TypeOK /\ IdsAgree /\ [Next]_vars => [Promised!Next]_<<active, inflight>>
  <2> SUFFICES ASSUME TypeOK, IdsAgree, [Next]_vars,
                      ~UNCHANGED <<active, inflight>>
               PROVE  Promised!Next
    OBVIOUS
  <2> USE DEF Promised!Next, Promised!None
  <2>1. CASE ProcStart
    <3>1. PICK r \in Requests : ~BargesIn(r) /\ active' = r /\ UNCHANGED inflight
      BY <2>1 DEF ProcStart, BeginCancel, BeginUtterance, OpenUtterance
    <3> QED BY <3>1 DEF Promised!Begin, BargesIn
  <2>2. CASE ProcCancel
    BY <2>2 DEF ProcCancel, BeginCancel, Promised!Abandon
  <2>3. CASE ProcCancelDone
    <3>1. CASE active' \in Requests
      BY <2>3, <3>1 DEF ProcCancelDone, BeginUtterance, OpenUtterance, Promised!Begin, Promised!Abandon
    <3>2. CASE active' \notin Requests
      <4>1. active' = NoRequest
        BY <2>3, <3>2 DEF ProcCancelDone, BeginUtterance, OpenUtterance, TypeOK
      <4> QED BY <2>3, <4>1 DEF ProcCancelDone, Promised!Abandon
    <3> QED BY <3>1, <3>2
  <2>4. CASE ProcFinal
    BY <2>4 DEF ProcFinal, NotActive, Promised!Finalize
  <2>5. CASE GenDone \/ GenError \/ FeedAppend \/ FeedRollDone \/ FeedReplay
    BY <2>5 DEF GenDone, GenError, FeedAppend, FeedRollDone, FeedReplay, ReplayRest, AppendToVllm,
       ErrorEvent, ClearInflight, Promised!Answer
  <2>6. CASE Receiver \/ Teardown
    BY <2>6 DEF Receiver, Receive, ReceivePing, ReceiveLast, Teardown, TeardownProcessorDone,
       TeardownConnDone, stateVars
  <2>7. CASE ProcUpdate \/ ProcCancelRaises \/ ProcAppend \/ ProcSent
    BY <2>7 DEF ProcUpdate, ProcCancelRaises, ProcAppend, ProcSent, stateVars
  <2>8. CASE FeedWake \/ FeedSent \/ FeedFinalize \/ FeedFinalizeDone \/ FeedPause \/ FeedUnwound \/ FeedFails
    BY <2>8 DEF FeedWake, FeedSent, FeedFinalize, FeedFinalizeDone,
       FeedPause, FeedUnwound, FeedFails, stateVars
  <2>10. CASE ProcRaises
    <3>1. \/ \E r \in Requests : ~BargesIn(r) /\ active' = r /\ UNCHANGED inflight
          \/ active' \in Requests \cup {NoRequest} /\ inflight' = NoRequest
      BY <2>10 DEF ProcRaises, OpenUtterance, stateVars, TypeOK
    <3> QED BY <3>1 DEF Promised!Begin, Promised!Abandon, BargesIn
  <2>9. CASE GenConsume \/ GenEnd \/ UNCHANGED vars
    BY <2>9 DEF GenConsume, GenEnd, vars, stateVars
  <2> QED
    BY <2>1, <2>2, <2>3, <2>4, <2>5, <2>6, <2>7, <2>8, <2>9, <2>10
    DEF Next, Processor, Feeder, Generation, Failure
<1> QED
  BY <1>1, <1>2, TypeCorrect, IdsAgreeAlways, PTL DEF Spec, UtteranceSpec, Promised!Spec
=============================================================================
