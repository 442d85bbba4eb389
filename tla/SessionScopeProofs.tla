------------------------- MODULE SessionScopeProofs -------------------------
(***************************************************************************)
(* What a client may rely on while segments are not rolled (InternalRoll   *)
(* off) and vLLM neither fails nor refuses audio: every token carries the  *)
(* request_id of the audio it transcribes, a done answers a final commit,  *)
(* and no buffer holds audio of another utterance than the open one,       *)
(* whatever the client's barge-ins, cancels, pings and disconnects, and    *)
(* wherever Task.cancel() lands. These are the hypotheses of the           *)
(* session_no_roll run; ScopeInv is inductive under them.                  *)
(***************************************************************************)
EXTENDS RealtimeSessionProofs

Msg(k, r) == [kind |-> k, rid |-> r]

\* The requests whose audio may be on its way: at most one, by IdsAgree.
Current == {active, inflight} \ {NoRequest}

\* A final commit is in vLLM's queue.
EndQueued == EOS \in Range(vq)

\* The feed task was cancelled, and cancel() has not gone on yet.
FeedGone == feed \in {"unwind", "returned", "cancelled"}

NoRolls == ~audio.closing /\ suppress = 0 /\ feed \notin {"roll", "rolled", "replay"}

\* A request starts once: its start is sent when nothing of it is known, and
\* waits in the queue once. Its final commit is known only when it was sent.
Starting(r) == proc = "joining" /\ cmd = Msg("start", r)
Unknown(r)  == r \notin {active, inflight} /\ ~Starting(r)
StartsOnce ==
  \A r \in Requests :
    /\ client[r] = "new" => Unknown(r)
    /\ \A i \in DOMAIN inq : inq[i] = Msg("start", r) =>
         client[r] # "new" /\ Unknown(r) /\ \A j \in DOMAIN inq : inq[j] = Msg("start", r) => i = j
FinalSent ==
  \A r \in Requests :
    inflight = r \/ Msg("final", r) \in Range(inq) => client[r] \in {"final", "cancelled"}

\* The open utterance closes with its final commit.
Closed == inflight # NoRequest => active = NoRequest

\* Audio on its way, in the buffer or in vLLM's queue, is of a current request.
Queued   == Range(vq) \subseteq Current \cup {EOS}
Buffered == Range(audio.pending) \subseteq Current

\* So is the chunk the feeder is handing over; what is kept for a replay is of
\* the open utterance.
Handed   == feed = "sending" => utterance /\ \E c \in Current : hand = <<c>>
Replayed == active # NoRequest => Range(audio.overlap) \subseteq {active}

\* A queued end of stream is the last item; its answer is due and nothing is
\* left to feed, until the feeder has seen the generation end.
EndLast == \A i \in DOMAIN vq : vq[i] = EOS => i = Len(vq)
EndAwaited ==
  EndQueued => /\ inflight # NoRequest /\ audio.pending = <<>>
               /\ feed \in {"finish", "finished"} \/ FeedGone \/ (~utterance /\ ~audio.finalize)

\* A final commit the feeder has still to make is one whose answer is due.
FinalDue == audio.finalize /\ feed \in {"none", "wait", "drain", "sending"} => inflight # NoRequest

\* A cancelled feed task is being joined; before there is a connection there is
\* nothing to feed.
GoneJoined == FeedGone => proc \in {"joining", "dead"}
NoConn == ~conn => /\ vq = <<>> /\ active = NoRequest /\ inflight = NoRequest
                   /\ audio.pending = <<>> /\ proc # "joining"

Flow == /\ Closed /\ Queued /\ Buffered /\ Handed /\ Replayed
        /\ EndLast /\ EndAwaited /\ FinalDue /\ GoneJoined /\ NoConn

ScopeInv == NoRolls /\ StartsOnce /\ FinalSent /\ Flow
-----------------------------------------------------------------------------
LEMMA RangeOf ==
  ASSUME NEW S, NEW s \in Seq(S), NEW e \in S
  PROVE  /\ Range(Append(s, e)) = Range(s) \cup {e}
         /\ Range(<<>>) = {}
         /\ s # <<>> => Range(s) = Range(Tail(s)) \cup {Head(s)}
<1>1. Range(Append(s, e)) = Range(s) \cup {e}
  <2>1. /\ Len(Append(s, e)) = Len(s) + 1 /\ Append(s, e)[Len(s) + 1] = e
        /\ \A i \in 1..Len(s) : Append(s, e)[i] = s[i]
    OBVIOUS
  <2> QED BY <2>1 DEF Range
<1>2. ASSUME s # <<>> PROVE Range(s) = Range(Tail(s)) \cup {Head(s)}
  <2>1. /\ Len(s) \in Nat \ {0} /\ Len(Tail(s)) = Len(s) - 1 /\ Head(s) = s[1]
        /\ \A i \in 1..Len(Tail(s)) : Tail(s)[i] = s[i + 1]
    BY <1>2
  <2>2. \A i \in 2..Len(s) : s[i] = Tail(s)[i - 1] /\ i - 1 \in 1..Len(Tail(s))
    BY <2>1
  <2>3. \A i \in 1..Len(s) : i = 1 \/ i \in 2..Len(s)
    OBVIOUS
  <2>4. DOMAIN s = 1..Len(s) /\ DOMAIN Tail(s) = 1..Len(Tail(s))
    BY <1>2
  <2>5. ASSUME NEW i \in DOMAIN s PROVE s[i] \in Range(Tail(s)) \cup {Head(s)}
    <3>1. CASE i = 1
      BY <2>1, <3>1
    <3>2. CASE i # 1
      <4>1. i - 1 \in DOMAIN Tail(s) /\ s[i] = Tail(s)[i - 1]
        BY <2>2, <2>3, <2>4, <3>2
      <4> QED BY <4>1 DEF Range
    <3> QED BY <3>1, <3>2
  <2>6. Range(Tail(s)) \cup {Head(s)} \subseteq Range(s)
    BY <2>1, <2>4 DEF Range
  <2> QED BY <2>5, <2>6 DEF Range
<1>3. Range(<<>>) = {}
  BY DEF Range
<1> QED BY <1>1, <1>2, <1>3

\* A step that learns of no request and takes no message.
LEMMA NothingStarts ==
  ASSUME StartsOnce, FinalSent, UNCHANGED <<client, inq>>,
         active' \in {active, NoRequest}, inflight' \in {inflight, NoRequest},
         \A r \in Requests : Starting(r)' => Starting(r)
  PROVE  StartsOnce' /\ FinalSent'
<1>1. NoRequest \notin Requests
  BY SessionAssumption DEF SessionAssumption
<1>2. \A r \in Requests : Unknown(r) => Unknown(r)'
  BY <1>1 DEF Unknown
<1> QED BY <1>1, <1>2 DEF StartsOnce, FinalSent

\* A step of the processor that takes a message and learns at most of the
\* request the message names.
LEMMA TakeStarts ==
  ASSUME TypeOK, StartsOnce, FinalSent, NEW m, Take(m), UNCHANGED client,
         inflight' \in {inflight, NoRequest} \/ (inflight' = m.rid /\ m.kind = "final"),
         \A r \in Requests : r \in {active', inflight'} \/ Starting(r)'
            => r \in {active, inflight} \/ Starting(r) \/ m = Msg("start", r)
  PROVE  StartsOnce' /\ FinalSent'
<1>1. /\ inq \in Seq(MessageType) /\ inq # <<>> /\ m = inq[1] /\ inq' = Tail(inq)
      /\ DOMAIN inq = 1..Len(inq) /\ DOMAIN inq' = 1..(Len(inq) - 1) /\ Len(inq) \in Nat \ {0}
      /\ \A i \in DOMAIN inq' : inq'[i] = inq[i + 1] /\ i + 1 \in DOMAIN inq /\ i + 1 # 1
      /\ 1 \in DOMAIN inq
  BY DEF Take, TypeOK
<1>2. m \in MessageType
  BY TakeAnyType
<1>3. NoRequest \notin Requests
  BY SessionAssumption DEF SessionAssumption
<1>4. FinalSent'
  <2>1. \A r \in Requests : Msg("final", r) \in Range(inq') => Msg("final", r) \in Range(inq)
    BY <1>1 DEF Range
  <2>2. \A r \in Requests : inflight' = r /\ inflight' # inflight => m = Msg("final", r)
    BY <1>2, <1>3 DEF MessageType, Msg
  <2>3. m \in Range(inq)
    BY <1>1 DEF Range
  <2> QED BY <2>1, <2>2, <2>3 DEF FinalSent
<1>5. StartsOnce'
  <2> SUFFICES ASSUME NEW r \in Requests
               PROVE  /\ client[r] = "new" => Unknown(r)'
                      /\ \A i \in DOMAIN inq' : inq'[i] = Msg("start", r) =>
                           /\ client[r] # "new" /\ Unknown(r)'
                           /\ \A j \in DOMAIN inq' : inq'[j] = Msg("start", r) => i = j
    BY DEF StartsOnce
  <2>1. Unknown(r) /\ m # Msg("start", r) => Unknown(r)'
    BY DEF Unknown
  <2>2. client[r] = "new" => m # Msg("start", r)
    BY <1>1 DEF StartsOnce
  <2>3. ASSUME NEW i \in DOMAIN inq', inq'[i] = Msg("start", r)
        PROVE  /\ client[r] # "new" /\ Unknown(r)'
               /\ \A j \in DOMAIN inq' : inq'[j] = Msg("start", r) => i = j
    <3>1. inq[i + 1] = Msg("start", r) /\ i + 1 \in DOMAIN inq /\ i + 1 # 1
      BY <1>1, <2>3
    <3>2. /\ client[r] # "new" /\ Unknown(r)
          /\ \A j \in DOMAIN inq : inq[j] = Msg("start", r) => i + 1 = j
      BY <3>1 DEF StartsOnce
    <3>3. m # Msg("start", r)
      BY <1>1, <3>1, <3>2
    <3>4. \A j \in DOMAIN inq' : inq'[j] = Msg("start", r) => i = j
      <4> SUFFICES ASSUME NEW j \in DOMAIN inq', inq'[j] = Msg("start", r) PROVE i = j
        OBVIOUS
      <4>1. i + 1 = j + 1
        BY <1>1, <3>2
      <4> QED BY <4>1, <1>1
    <3> QED BY <2>1, <3>2, <3>3, <3>4
  <2> QED BY <2>1, <2>2, <2>3 DEF StartsOnce
<1> QED BY <1>4, <1>5

\* What the client sends is sent in the order of the protocol.
LEMMA ReceiveStarts ==
  ASSUME TypeOK, StartsOnce, FinalSent, Receive
  PROVE  StartsOnce' /\ FinalSent'
<1>1. PICK m \in Messages :
        /\ ClientMaySend(m) /\ ClientSent(m)
        /\ inq' = Append(inq, m) \/ UNCHANGED inq
        /\ UNCHANGED <<active, inflight, cmd>>
        /\ proc' \in {proc, "dead"}
  BY DEF Receive, StopProcessor
<1>2. m \in MessageType
  BY DEF Messages, MessageType, QueuedKinds, RequestIds
<1>3. \A r \in Requests : Unknown(r) => Unknown(r)'
  BY <1>1 DEF Unknown, Starting
<1>4. \A r \in Requests :
        /\ client'[r] = "new" => client[r] = "new"
        /\ client[r] \in {"final", "cancelled"} => client'[r] \in {"final", "cancelled"}
        /\ m = Msg("start", r) => client[r] = "new" /\ client'[r] # "new"
        /\ m = Msg("final", r) => client'[r] = "final"
  <2>1. client \in [Requests -> {"new", "open", "final", "cancelled"}]
    BY DEF TypeOK
  <2>2. CASE m.kind \in {"start", "final", "cancel"}
    <3>1. m.rid \in Requests
      BY <2>2 DEF Messages
    <3>2. PICK c \in {"open", "final", "cancelled"} :
            /\ client' = [client EXCEPT ![m.rid] = c]
            /\ m.kind = "final" => c = "final"
            /\ c = "open" => client[m.rid] = "new"
            /\ m.kind = "start" => client[m.rid] = "new"
      BY <1>1, <2>2 DEF ClientSent, ClientMaySend
    <3> QED BY <2>1, <3>1, <3>2 DEF Msg
  <2>3. CASE m.kind \notin {"start", "final", "cancel"}
    <3>1. client' = client
      BY <1>1, <2>3 DEF ClientSent
    <3> QED BY <2>3, <3>1 DEF Msg
  <2> QED BY <2>2, <2>3
<1>5. CASE UNCHANGED inq
  BY <1>1, <1>3, <1>4, <1>5 DEF StartsOnce, FinalSent
<1>6. CASE inq' = Append(inq, m)
  <2>1. /\ Len(inq) \in Nat /\ DOMAIN inq = 1..Len(inq) /\ DOMAIN inq' = 1..(Len(inq) + 1)
        /\ \A i \in DOMAIN inq : inq'[i] = inq[i]
        /\ inq'[Len(inq) + 1] = m
        /\ \A i \in DOMAIN inq' : i \in DOMAIN inq \/ i = Len(inq) + 1
    BY <1>2, <1>6 DEF TypeOK
  <2>2. FinalSent'
    <3>1. \A r \in Requests : Msg("final", r) \in Range(inq') => Msg("final", r) \in Range(inq) \/ m = Msg("final", r)
      BY <2>1 DEF Range
    <3> QED BY <3>1, <1>1, <1>4 DEF FinalSent
  <2>3. StartsOnce'
    BY <1>1, <1>3, <1>4, <2>1 DEF StartsOnce
  <2> QED BY <2>2, <2>3
<1> QED BY <1>1, <1>5, <1>6

LEMMA CancelFeedEffect ==
  ASSUME CancelFeed
  PROVE  feed' # "sending" /\ (feed' = feed \/ FeedGone')
BY DEF CancelFeed, FeedGone, FeedHolds, FeedEnded

\* A step that at most cancels the feed task, and leaves the processor waiting
\* for it or dead.
LEMMA CancelKeepsFlow ==
  ASSUME Flow, UNCHANGED <<active, inflight, vq, utterance, audio>>, conn' \in {conn, TRUE},
         feed' = feed \/ FeedGone', feed' # "sending" \/ UNCHANGED <<feed, hand>>,
         FeedGone' => proc' \in {"joining", "dead"}, ~conn' => proc' # "joining"
  PROVE  Flow'
BY DEF Flow, Closed, Queued, Buffered, Handed, Replayed, Current, EndLast, EndAwaited, EndQueued, FinalDue,
       GoneJoined, NoConn, FeedGone

\* Nothing is buffered or queued.
LEMMA EmptyFlow ==
  ASSUME vq' = <<>>, audio' = EmptyAudio, feed' # "sending", Closed', GoneJoined', NoConn'
  PROVE  Flow'
<1>1. /\ Range(vq') = {} /\ Range(audio'.pending) = {} /\ Range(audio'.overlap) = {}
      /\ DOMAIN vq' = {} /\ ~audio'.finalize
  BY DEF Range, EmptyAudio
<1> QED BY <1>1 DEF Flow, Queued, Buffered, Handed, Replayed, EndLast, EndAwaited, EndQueued, FinalDue

\* With no answer due and no open utterance the queue is empty.
LEMMA NothingQueued ==
  ASSUME TypeOK, Queued, EndAwaited, active = NoRequest, inflight = NoRequest
  PROVE  vq = <<>>
<1>1. Range(vq) = {}
  BY DEF Queued, Current, EndAwaited, EndQueued
<1> QED BY <1>1, TailFacts DEF TypeOK

\* Everything the flow of audio and of final commits depends on is kept by a
\* step of any task.
LEMMA FlowStep ==
  ASSUME ~InternalRoll, ~GenMayFail, TypeOK, ScopeInv, Next
  PROVE  Flow'
<1> USE DEF ScopeInv
<1>0. /\ NoRequest \notin Requests /\ EOS \notin Requests
      /\ Flow
      /\ vq \in Seq(Requests \cup {EOS}) /\ audio.pending \in Seq(Requests)
      /\ audio \in AudioType
      /\ active \in Requests \cup {NoRequest} /\ inflight \in Requests \cup {NoRequest}
      /\ conn \in BOOLEAN
  BY SessionAssumption DEF SessionAssumption, TypeOK, AudioType
<1>1. CASE Receiver
  <2>1. /\ UNCHANGED <<active, inflight, vq, utterance, audio, conn>>
        /\ \/ UNCHANGED <<feed, hand, proc>>
           \/ proc' = "dead" /\ UNCHANGED <<feed, hand>>
           \/ CancelFeed /\ proc = "joining" /\ UNCHANGED proc
    BY <1>1 DEF Receiver, Receive, ReceivePing, ReceiveLast, StopProcessor, stateVars, feedVars, genVars
  <2> QED BY <1>0, <2>1, CancelFeedEffect, CancelKeepsFlow DEF Flow, GoneJoined, FeedGone, NoConn
<1>2. CASE TeardownProcessorDone
  <2>1. /\ UNCHANGED <<active, inflight, vq, utterance, audio, conn, proc>> /\ proc = "dead"
        /\ CancelFeed \/ UNCHANGED <<feed, hand>>
    BY <1>2 DEF TeardownProcessorDone, stateVars
  <2> QED BY <1>0, <2>1, CancelFeedEffect, CancelKeepsFlow
<1>3. CASE TeardownConnDone
  <2>1. UNCHANGED <<active, inflight, conn, proc>>
    BY <1>3 DEF TeardownConnDone, stateVars
  <2>2. CASE CancelRest
    BY <1>0, <1>3, <2>1, <2>2, EmptyFlow
    DEF CancelRest, ResetAudio, Flow, Closed, GoneJoined, FeedGone, NoConn, EmptyAudio
  <2>3. CASE UNCHANGED <<feedVars, genVars>>
    BY <1>0, <2>1, <2>3, CancelKeepsFlow DEF feedVars, genVars, Flow, GoneJoined, FeedGone, NoConn
  <2> QED BY <1>3, <2>2, <2>3 DEF TeardownConnDone
<1>4. CASE ProcUpdate \/ ProcCancelRaises
  <2>1. CASE ProcUpdate
    <3>1. UNCHANGED <<active, inflight, vq, utterance, audio, feed, hand, proc>> /\ conn' = TRUE
      BY <2>1 DEF ProcUpdate, feedVars, genVars
    <3> QED BY <1>0, <3>1, CancelKeepsFlow DEF Flow, GoneJoined, FeedGone
  <2>2. CASE ProcCancelRaises
    <3>1. UNCHANGED <<active, inflight, vq, utterance, audio, feed, hand, conn>> /\ proc' = "dead"
      BY <2>2 DEF ProcCancelRaises, stateVars, feedVars, genVars
    <3> QED BY <1>0, <3>1, CancelKeepsFlow DEF Flow, GoneJoined, FeedGone
  <2> QED BY <1>4, <2>1, <2>2
<1>5. ASSUME NEW m, BeginCancel(m), conn', conn' \in {conn, TRUE} PROVE Flow'
  <2>1. /\ UNCHANGED <<active, inflight, vq, utterance, audio>> /\ proc' = "joining" /\ CancelFeed
    BY <1>5 DEF BeginCancel
  <2> QED BY <1>0, <1>5, <2>1, CancelFeedEffect, CancelKeepsFlow
<1>6. CASE ProcStart
  <2>1. PICK r \in Requests :
          /\ Take(Msg("start", r))
          /\ conn' = TRUE
          /\ \/ BeginCancel([kind |-> "start", rid |-> r])
             \/ /\ ~BargesIn(r) /\ BeginUtterance(r, feed, gen)
                /\ UNCHANGED <<inflight, proc, cmd, vq, out>>
    BY <1>6 DEF ProcStart, Msg
  <2>2. CASE BeginCancel([kind |-> "start", rid |-> r])
    BY <1>5, <2>1, <2>2
  <2>3. CASE ~BargesIn(r) /\ BeginUtterance(r, feed, gen) /\ UNCHANGED <<inflight, proc, cmd, vq, out>>
    <3>1. r \notin {active, inflight}
      <4>1. inq # <<>> /\ inq[1] = Msg("start", r) /\ 1 \in DOMAIN inq
        BY <2>1 DEF Take, TypeOK
      <4> QED BY <4>1 DEF StartsOnce, Unknown
    <3>2. active = NoRequest /\ inflight = NoRequest
      BY <2>3, <3>1 DEF BargesIn
    <3>3. vq = <<>>
      BY <1>0, <3>2, NothingQueued DEF Flow
    <3>4. /\ vq' = <<>> /\ audio' = EmptyAudio /\ UNCHANGED <<inflight, proc>> /\ proc = "idle"
          /\ feed' = EnsureFeed(feed) /\ feed # "sending"
      BY <1>0, <2>1, <2>3, <3>2, <3>3
      DEF BeginUtterance, OpenUtterance, ResetAudio, Take, Flow, Handed, Current
    <3> QED BY <1>0, <2>1, <3>2, <3>4, EmptyFlow
            DEF Flow, Closed, NoConn, GoneJoined, FeedGone, EnsureFeed, FeedEnded
  <2> QED BY <2>1, <2>2, <2>3
<1>7. CASE ProcCancel
  <2>1. PICK r \in Requests :
          /\ Take(Msg("cancel", r))
          /\ UNCHANGED conn
          /\ \/ conn /\ BeginCancel([kind |-> "cancel", rid |-> r])
             \/ /\ ~conn /\ active' = NoRequest /\ inflight' = NoRequest
                /\ UNCHANGED <<proc, cmd, feedVars, genVars>>
    BY <1>7 DEF ProcCancel, Msg
  <2>2. CASE conn /\ BeginCancel([kind |-> "cancel", rid |-> r])
    BY <1>5, <2>1, <2>2
  <2>3. CASE ~conn /\ active' = NoRequest /\ inflight' = NoRequest
             /\ UNCHANGED <<proc, cmd, feedVars, genVars>>
    <3>1. active = NoRequest /\ inflight = NoRequest
      BY <1>0, <2>3 DEF Flow, NoConn
    <3> QED BY <1>0, <2>1, <2>3, <3>1, CancelKeepsFlow
            DEF feedVars, genVars, Flow, GoneJoined, FeedGone, NoConn
  <2> QED BY <2>1, <2>2, <2>3
<1>8. CASE ProcCancelDone
  <2>1. conn
    BY <1>0, <1>8 DEF ProcCancelDone, Flow, NoConn
  <2>2. /\ vq' = <<>> /\ audio' = EmptyAudio /\ inflight' = NoRequest /\ UNCHANGED conn
        /\ feed' \in {"none", "wait"}
    BY <1>8 DEF ProcCancelDone, BeginUtterance, OpenUtterance, CancelRest, ResetAudio, EnsureFeed, FeedEnded
  <2> QED BY <2>1, <2>2, EmptyFlow DEF Closed, GoneJoined, FeedGone, NoConn
<1>9. CASE ProcFinal
  <2>1. PICK r \in Requests :
          /\ Take(Msg("final", r))
          /\ UNCHANGED <<proc, conn, vq, utterance, hand>>
          /\ \/ UNCHANGED <<active, inflight, audio, feed>>
             \/ /\ active = r /\ inflight' = r /\ active' = NoRequest
                /\ audio' = [audio EXCEPT !.finalize = TRUE] /\ feed' = EnsureFeed(feed)
    BY <1>9 DEF ProcFinal, Msg, NotActive, SignalFeeder, feedVars, genVars
  <2>2. CASE UNCHANGED <<active, inflight, audio, feed>>
    BY <1>0, <2>1, <2>2, CancelKeepsFlow DEF Flow, GoneJoined, FeedGone, NoConn
  <2>3. CASE /\ active = r /\ inflight' = r /\ active' = NoRequest
             /\ audio' = [audio EXCEPT !.finalize = TRUE] /\ feed' = EnsureFeed(feed)
    <3>1. inflight = NoRequest /\ ~EndQueued /\ proc = "idle" /\ ~FeedGone
      BY <1>0, <2>1, <2>3 DEF Flow, Closed, EndAwaited, GoneJoined, Take
    <3>2. audio'.pending = audio.pending /\ feed' = "sending" => feed = "sending"
      BY <1>0, <2>3 DEF AudioType, EnsureFeed
    <3> QED BY <1>0, <2>1, <2>3, <3>1, <3>2
            DEF Flow, Closed, Queued, Buffered, Handed, Replayed, Current, EndLast, EndAwaited, EndQueued, FinalDue,
                GoneJoined, NoConn, FeedGone, EnsureFeed, FeedEnded
  <2> QED BY <2>1, <2>2, <2>3
<1>10. CASE ProcAppend
  <2>1. PICK r \in Requests :
          /\ Take(Msg("append", r))
          /\ UNCHANGED <<conn, vq, utterance, active, inflight, hand>> /\ proc' \in {proc, "sending"}
          /\ \/ UNCHANGED <<audio, feed, proc>>
             \/ /\ active = r /\ feed' \in {feed, EnsureFeed(feed)}
                /\ audio' = [audio EXCEPT !.pending = PushPending(@, r)]
    BY <1>10 DEF ProcAppend, Msg, NotActive, SignalFeeder, feedVars, genVars
  <2>2. CASE UNCHANGED <<audio, feed, proc>>
    BY <1>0, <2>1, <2>2, CancelKeepsFlow DEF Flow, GoneJoined, FeedGone, NoConn
  <2>3. CASE /\ active = r /\ feed' \in {feed, EnsureFeed(feed)}
             /\ audio' = [audio EXCEPT !.pending = PushPending(@, r)]
    <3>1. /\ inflight = NoRequest /\ ~EndQueued /\ ~EndQueued'
          /\ proc = "idle" /\ ~FeedGone /\ conn
      BY <1>0, <2>1, <2>3 DEF Flow, Closed, EndAwaited, EndQueued, GoneJoined, NoConn, Take
    <3>2. /\ audio'.pending = Newest(Append(audio.pending, r), BacklogMax)
          /\ audio'.finalize = audio.finalize /\ audio'.overlap = audio.overlap
          /\ feed' = "sending" => feed = "sending"
      BY <1>0, <2>3 DEF AudioType, PushPending, EnsureFeed
    <3>3. Range(audio'.pending) \subseteq Range(audio.pending) \cup {r}
      <4>1. /\ Append(audio.pending, r) \in Seq(Requests) /\ BacklogMax \in Nat
            /\ Range(Append(audio.pending, r)) \subseteq Range(audio.pending) \cup {r}
        BY <1>0, AppendRange, SessionAssumption DEF SessionAssumption
      <4> QED BY <3>2, <4>1, NewestFacts
    <3>4. Buffered' /\ Queued' /\ Handed' /\ Replayed' /\ EndLast'
      BY <1>0, <2>1, <2>3, <3>2, <3>3
      DEF Flow, Queued, Buffered, Handed, Replayed, Current, EndLast
    <3> QED BY <2>1, <2>3, <3>1, <3>2, <3>4
            DEF Flow, Closed, EndAwaited, FinalDue, GoneJoined, NoConn, FeedGone, EnsureFeed, FeedEnded
  <2> QED BY <2>1, <2>2, <2>3
<1>19. CASE ProcSent
  <2>1. /\ UNCHANGED <<active, inflight, vq, utterance, audio, conn, hand>>
        /\ proc = "sending" /\ proc' = "idle" /\ feed' = EnsureFeed(feed)
    BY <1>19 DEF ProcSent, SignalFeeder, stateVars, genVars
  <2>2. ~FeedGone
    BY <1>0, <2>1 DEF Flow, GoneJoined
  <2>3. feed' = feed \/ (feed = "none" /\ feed' = "wait")
    BY <2>1, <2>2 DEF EnsureFeed, FeedEnded, FeedGone
  <2> QED BY <1>0, <2>1, <2>2, <2>3
          DEF Flow, Closed, Queued, Buffered, Handed, Replayed, Current, EndLast, EndAwaited,
              EndQueued, FinalDue, GoneJoined, NoConn, FeedGone
<1>11. CASE FeedWake \/ FeedPause \/ FeedUnwound
  <2>1. /\ UNCHANGED <<active, inflight, vq, utterance, audio, conn, proc>>
        /\ \/ feed \in {"wait", "drain"} /\ feed' = "wait"
           \/ feed = "wait" /\ utterance /\ feed' = "drain"
           \/ feed = "unwind" /\ feed' = "returned"
    BY <1>11 DEF FeedWake, FeedPause, FeedUnwound, stateVars, genVars
  <2> QED BY <1>0, <2>1
          DEF Flow, Closed, Queued, Buffered, Handed, Replayed, Current, EndLast, EndAwaited, EndQueued, FinalDue,
              GoneJoined, NoConn, FeedGone
<1>12. CASE FeedAppend
  <2>1. /\ UNCHANGED <<active, utterance, conn, proc>> /\ feed' = "sending"
        /\ feed = "drain" /\ utterance /\ audio.pending # <<>>
        /\ audio' = [audio EXCEPT !.pending = Tail(@)]
        /\ hand' = <<Head(audio.pending)>> /\ UNCHANGED inflight
        /\ AppendToVllm(Head(audio.pending))
    BY <1>12 DEF FeedAppend, Draining, AppendToVllm
  <2>2. ~EndQueued
    BY <1>0, <2>1 DEF Flow, EndAwaited, FeedGone
  <2>3. /\ Head(audio.pending) \in Requests /\ Head(audio.pending) \in Range(audio.pending)
        /\ Range(Tail(audio.pending)) \subseteq Range(audio.pending)
        /\ Range(vq') \subseteq Range(vq) \cup {Head(audio.pending)}
    BY <2>1, PoppedFacts, AppendToVllmType
  <2>4. /\ audio'.pending = Tail(audio.pending) /\ audio'.finalize = audio.finalize
        /\ audio'.overlap = audio.overlap
    BY <1>0, <2>1 DEF AudioType
  <2>5. ~EndQueued' /\ EndLast'
    <3>1. ~EndQueued'
      BY <1>0, <2>2, <2>3 DEF EndQueued
    <3>2. EndLast'
      BY <3>1 DEF EndQueued, EndLast, Range
    <3> QED BY <3>1, <3>2
  <2>6. conn /\ Head(audio.pending) \in Current
    BY <1>0, <2>1, <2>3 DEF Flow, NoConn, Buffered
  <2>7. Queued' /\ Buffered' /\ Handed' /\ Replayed'
    BY <1>0, <2>1, <2>3, <2>4, <2>6 DEF Flow, Queued, Buffered, Handed, Replayed, Current
  <2> QED BY <1>0, <2>1, <2>4, <2>5, <2>6, <2>7
          DEF Flow, Closed, EndAwaited, FinalDue, GoneJoined, NoConn, FeedGone
<1>20. CASE FeedSent
  <2>1. /\ UNCHANGED <<active, inflight, utterance, conn, proc, vq>>
        /\ feed = "sending" /\ feed' = "drain" /\ audio' = Counted
    BY <1>20 DEF FeedSent, Rolls, stateVars
  <2>2. PICK c \in Current : utterance /\ hand = <<c>>
    BY <1>0, <2>1 DEF Flow, Handed
  <2>3. ~EndQueued /\ ~EndQueued' /\ conn
    BY <1>0, <2>1, <2>2 DEF Flow, EndAwaited, EndQueued, FeedGone, NoConn, Current
  <2>4. /\ audio'.pending = audio.pending /\ audio'.finalize = audio.finalize
        /\ Range(audio'.overlap) \subseteq Range(audio.overlap) \cup {c}
    <3>1. Range(hand) = {c}
      BY <2>2 DEF Range
    <3> HIDE DEF Counted
    <3> QED BY <2>1, <3>1, CountedFacts
  <2>5. Replayed'
    BY <1>0, <2>1, <2>4 DEF Flow, Closed, Replayed, Current
  <2> HIDE DEF Counted
  <2> QED BY <1>0, <2>1, <2>3, <2>4, <2>5
          DEF Flow, Closed, Queued, Buffered, Handed, Current, EndLast, EndAwaited, FinalDue,
              GoneJoined, NoConn, FeedGone
<1>13. CASE FeedFinalize
  <2>1. /\ UNCHANGED <<active, inflight, utterance, audio, conn, proc>>
        /\ feed = "drain" /\ utterance /\ audio.pending = <<>> /\ audio.finalize
        /\ vq' = Append(vq, EOS) /\ feed' \in {"finish", "finished"}
    BY <1>13, AwaitFacts DEF FeedFinalize, Draining, stateVars
  <2>2. inflight # NoRequest /\ conn
    BY <1>0, <2>1 DEF Flow, FinalDue, NoConn
  <2>3. ~EndQueued
    BY <1>0, <2>1 DEF Flow, EndAwaited, FeedGone
  <2>4. Range(vq') = Range(vq) \cup {EOS}
    BY <1>0, <2>1, RangeOf
  <2>5. EndLast'
    <3>1. \A i \in DOMAIN vq : vq[i] # EOS
      BY <2>3 DEF EndQueued, Range
    <3> QED BY <1>0, <2>1, <3>1 DEF EndLast
  <2> QED BY <1>0, <2>1, <2>2, <2>4, <2>5
          DEF Flow, Closed, Queued, Buffered, Handed, Replayed, Current, EndAwaited, FinalDue, GoneJoined, NoConn, FeedGone
<1>14. CASE FeedFinalizeDone
  <2>1. /\ UNCHANGED <<active, inflight, vq, conn, proc>>
        /\ utterance' = FALSE /\ audio' = EmptyAudio /\ feed' = "wait"
    BY <1>14 DEF FeedFinalizeDone, ResetAudio, stateVars, genVars
  <2>2. /\ audio'.pending = <<>> /\ Range(audio'.pending) = {} /\ ~audio'.finalize
        /\ Range(audio'.overlap) = {}
    BY <2>1 DEF EmptyAudio, Range
  <2> QED BY <1>0, <2>1, <2>2
          DEF Flow, Closed, Queued, Buffered, Handed, Replayed, Current, EndLast, EndAwaited, EndQueued, FinalDue,
              GoneJoined, NoConn, FeedGone
<1>15. CASE GenConsume
  <2>1. /\ UNCHANGED <<active, inflight, utterance, audio, conn, proc, feed, hand>>
        /\ vq # <<>> /\ vq' = Tail(vq)
    BY <1>15 DEF GenConsume, stateVars, feedVars
  <2>2. /\ Range(vq') \subseteq Range(vq) /\ Len(vq') = Len(vq) - 1 /\ Len(vq) \in Nat
        /\ DOMAIN vq = 1..Len(vq) /\ DOMAIN vq' = 1..(Len(vq) - 1)
        /\ \A i \in DOMAIN vq' : vq'[i] = vq[i + 1]
    BY <1>0, <2>1, TailFacts
  <2>3. EndLast'
    BY <1>0, <2>2 DEF Flow, EndLast
  <2>4. conn
    BY <1>0, <2>1 DEF Flow, NoConn
  <2> QED BY <1>0, <2>1, <2>2, <2>3, <2>4
          DEF Flow, Closed, Queued, Buffered, Handed, Replayed, Current, EndAwaited, EndQueued, FinalDue,
              GoneJoined, NoConn, FeedGone
<1>16. CASE GenDone
  <2>1. /\ UNCHANGED <<active, utterance, audio, conn, proc, feed, hand>>
        /\ inflight' \in {inflight, NoRequest}
        /\ vq # <<>> /\ vq[1] = EOS /\ vq' = Tail(vq)
    BY <1>0, <1>16 DEF GenDone, ClearInflight, feedVars
  <2>2. EndQueued /\ vq' = <<>>
    <3>1. 1 \in DOMAIN vq
      BY <1>0, <2>1
    <3>2. Len(vq) = 1
      BY <1>0, <2>1, <3>1 DEF Flow, EndLast
    <3> QED BY <1>0, <2>1, <3>1, <3>2 DEF EndQueued, Range
  <2>3. Range(vq') = {} /\ DOMAIN vq' = {} /\ Range(audio.pending) = {}
    BY <1>0, <2>2 DEF Flow, EndAwaited, Range
  <2>4. /\ audio.finalize /\ feed \in {"none", "wait", "drain", "sending"} => FALSE
        /\ active = NoRequest /\ feed # "sending"
    BY <1>0, <2>2 DEF Flow, EndAwaited, Closed, FeedGone, Handed
  <2> QED BY <1>0, <2>1, <2>2, <2>3, <2>4
          DEF Flow, Closed, Queued, Buffered, Handed, Replayed, EndLast, EndAwaited, EndQueued, FinalDue,
              GoneJoined, NoConn, FeedGone
<1>17. CASE GenEnd
  <2>1. /\ UNCHANGED <<active, inflight, vq, utterance, audio, conn, proc, hand>>
        /\ feed' = feed \/ (feed = "finish" /\ feed' = "finished")
    BY <1>0, <1>17, AwaitFacts DEF GenEnd, stateVars, NoRolls
  <2> QED BY <1>0, <2>1
          DEF Flow, Closed, Queued, Buffered, Handed, Replayed, Current, EndLast, EndAwaited, EndQueued, FinalDue,
              GoneJoined, NoConn, FeedGone
<1>18. ~FeedRollDone /\ ~FeedReplay /\ ~Failure
  BY DEF NoRolls, FeedRollDone, FeedReplay, Failure, FeedFails, GenError, ProcRaises
<1> QED
  BY <1>1, <1>2, <1>3, <1>4, <1>6, <1>7, <1>8, <1>9, <1>10, <1>11, <1>12, <1>13, <1>14, <1>15,
     <1>16, <1>17, <1>18, <1>19, <1>20
  DEF Next, Teardown, Processor, Feeder, Generation

LEMMA NoRollsStep ==
  ASSUME ~InternalRoll, ~GenMayFail, TypeOK, NoRolls, Next
  PROVE  NoRolls'
<1>0. audio \in AudioType /\ ~EmptyAudio.closing
  BY DEF TypeOK, AudioType, EmptyAudio
<1> USE <1>0 DEF NoRolls
<1>1. CancelFeed => feed' \notin {"roll", "rolled", "replay"}
  BY DEF CancelFeed
<1>2. CASE Receiver \/ Teardown
  BY <1>1, <1>2 DEF Receiver, Receive, ReceivePing, ReceiveLast, StopProcessor, Teardown,
     TeardownProcessorDone, TeardownConnDone, CancelRest, ResetAudio, feedVars, genVars
<1>3. CASE ProcUpdate \/ ProcCancelRaises
  BY <1>3 DEF ProcUpdate, ProcCancelRaises, feedVars, genVars
<1>4. CASE ProcStart \/ ProcCancel \/ ProcCancelDone
  BY <1>1, <1>4 DEF ProcStart, ProcCancel, ProcCancelDone, BeginCancel, BeginUtterance, OpenUtterance, CancelRest,
     ResetAudio, EnsureFeed, feedVars, genVars
<1>5. CASE ProcFinal \/ ProcAppend \/ ProcSent
  <2>1. /\ UNCHANGED suppress /\ feed' \in {feed, "wait"}
        /\ \/ UNCHANGED audio
           \/ audio' = [audio EXCEPT !.finalize = TRUE]
           \/ \E r \in Requests : audio' = [audio EXCEPT !.pending = PushPending(@, r)]
    BY <1>5 DEF ProcFinal, ProcAppend, ProcSent, SignalFeeder, EnsureFeed, feedVars, genVars
  <2> QED BY <2>1 DEF AudioType
<1>6. CASE FeedAppend
  <2>1. /\ audio' = [audio EXCEPT !.pending = Tail(@)] /\ UNCHANGED suppress /\ feed' = "sending"
    BY <1>6 DEF FeedAppend, AppendToVllm
  <2> QED BY <2>1 DEF AudioType
<1>10. CASE FeedSent
  <2>1. audio' = Counted /\ UNCHANGED suppress /\ feed' = "drain" /\ feed = "sending"
    BY <1>10 DEF FeedSent, Rolls
  <2> HIDE DEF Counted
  <2> QED BY <2>1, CountedFacts
<1>7. CASE FeedWake \/ FeedFinalize \/ FeedFinalizeDone \/ FeedPause \/ FeedUnwound
  BY <1>7, AwaitFacts DEF FeedWake, FeedFinalize, FeedFinalizeDone, FeedPause, FeedUnwound, ResetAudio, genVars
<1>8. CASE Generation
  BY <1>8, AwaitFacts DEF Generation, GenConsume, GenDone, GenEnd, feedVars
<1>9. ~FeedRollDone /\ ~FeedReplay /\ ~Failure
  BY DEF FeedRollDone, FeedReplay, Failure, FeedFails, GenError, ProcRaises
<1> QED BY <1>2, <1>3, <1>4, <1>5, <1>6, <1>7, <1>8, <1>9, <1>10 DEF Next, Processor, Feeder

LEMMA StartsStep ==
  ASSUME ~InternalRoll, ~GenMayFail, TypeOK, ScopeInv, Next
  PROVE  StartsOnce' /\ FinalSent'
<1> USE DEF ScopeInv
<1>1. CASE Receive
  BY <1>1, ReceiveStarts
<1>2. CASE ReceivePing \/ ReceiveLast \/ Teardown \/ Feeder \/ Generation \/ ProcCancelRaises
  <2>1. /\ UNCHANGED <<client, inq, active, cmd>> /\ inflight' \in {inflight, NoRequest}
        /\ proc' \in {proc, "dead"}
    <3>1. CASE ReceivePing \/ ReceiveLast \/ Teardown \/ ProcCancelRaises
      BY <3>1 DEF ReceivePing, ReceiveLast, StopProcessor, Teardown, TeardownProcessorDone,
         TeardownConnDone, ProcCancelRaises, stateVars, envVars
    <3>2. CASE Feeder
      BY <3>2 DEF Feeder, FeedWake, FeedAppend, FeedSent, FeedRollDone, FeedReplay, ReplayRest,
         AppendToVllm, NoRolls, FeedFinalize, FeedFinalizeDone, FeedPause, FeedUnwound, stateVars, envVars
    <3>3. CASE Generation
      BY <3>3 DEF Generation, GenConsume, GenDone, GenEnd, ClearInflight, stateVars, envVars
    <3> QED BY <1>2, <3>1, <3>2, <3>3
  <2> QED BY <2>1, NothingStarts DEF Starting
<1>3. CASE ProcUpdate
  <2>1. /\ Take(Msg("update", KeepAlive))
        /\ UNCHANGED <<client, active, inflight, proc, cmd>>
    BY <1>3 DEF ProcUpdate, Msg, envVars
  <2> QED BY <2>1, TakeStarts DEF Starting
<1>4. CASE ProcStart
  <2>1. PICK r \in Requests :
          /\ Take(Msg("start", r)) /\ UNCHANGED <<client, inflight>>
          /\ \/ UNCHANGED active /\ cmd' = Msg("start", r)
             \/ active' = r /\ UNCHANGED <<proc, cmd>>
    BY <1>4 DEF ProcStart, BeginCancel, BeginUtterance, OpenUtterance, Msg, envVars
  <2>2. \A q \in Requests : q \in {active', inflight'} \/ Starting(q)'
            => q \in {active, inflight} \/ Starting(q) \/ Msg("start", r) = Msg("start", q)
    BY <2>1 DEF Starting
  <2> QED BY <2>1, <2>2, TakeStarts
<1>5. CASE ProcCancel
  <2>1. PICK r \in Requests :
          /\ Take(Msg("cancel", r)) /\ UNCHANGED client
          /\ active' \in {active, NoRequest} /\ inflight' \in {inflight, NoRequest}
          /\ cmd' = Msg("cancel", r) \/ UNCHANGED <<proc, cmd>>
    BY <1>5 DEF ProcCancel, BeginCancel, Msg, envVars
  <2>2. \A q \in Requests : q \in {active', inflight'} \/ Starting(q)'
            => q \in {active, inflight} \/ Starting(q)
    <3>1. NoRequest \notin Requests
      BY SessionAssumption DEF SessionAssumption
    <3> QED BY <2>1, <3>1 DEF Starting, Msg
  <2> QED BY <2>1, <2>2, TakeStarts
<1>6. CASE ProcCancelDone
  <2>1. /\ UNCHANGED <<client, inq>> /\ inflight' = NoRequest /\ proc' = "idle"
        /\ active' = NoRequest \/ (active' = cmd.rid /\ cmd.kind = "start" /\ proc = "joining")
    BY <1>6 DEF ProcCancelDone, BeginUtterance, OpenUtterance, envVars
  <2>2. cmd = Msg(cmd.kind, cmd.rid)
    BY DEF TypeOK, Msg
  <2>3. NoRequest \notin Requests
    BY SessionAssumption DEF SessionAssumption
  <2>4. \A r \in Requests : Unknown(r) => Unknown(r)'
    BY <2>1, <2>2, <2>3 DEF Unknown, Starting
  <2> QED BY <2>1, <2>3, <2>4 DEF StartsOnce, FinalSent
<1>7. CASE ProcFinal
  <2>1. PICK r \in Requests :
          /\ Take(Msg("final", r)) /\ UNCHANGED <<client, proc, cmd>>
          /\ \/ UNCHANGED <<active, inflight>>
             \/ active = r /\ inflight' = r /\ active' = NoRequest
    BY <1>7 DEF ProcFinal, NotActive, Msg, envVars
  <2>2. \A q \in Requests : q \in {active', inflight'} \/ Starting(q)'
            => q \in {active, inflight} \/ Starting(q)
    <3>1. NoRequest \notin Requests
      BY SessionAssumption DEF SessionAssumption
    <3> QED BY <2>1, <3>1 DEF Starting
  <2>3. inflight' = inflight \/ (inflight' = Msg("final", r).rid /\ Msg("final", r).kind = "final")
    BY <2>1 DEF Msg
  <2> QED BY <2>1, <2>2, <2>3, TakeStarts
<1>8. CASE ProcAppend
  <2>1. PICK r \in Requests :
          /\ Take(Msg("append", r)) /\ UNCHANGED <<client, active, inflight, cmd>>
          /\ proc' \in {proc, "sending"}
    BY <1>8 DEF ProcAppend, Msg, envVars
  <2> QED BY <2>1, TakeStarts DEF Starting
<1>10. CASE ProcSent
  <2>1. UNCHANGED <<client, inq, active, inflight, cmd>> /\ proc' = "idle"
    BY <1>10 DEF ProcSent, stateVars, envVars
  <2> QED BY <2>1, NothingStarts DEF Starting
<1>9. ~Failure
  BY DEF Failure, FeedFails, GenError, ProcRaises
<1> QED BY <1>1, <1>2, <1>3, <1>4, <1>5, <1>6, <1>7, <1>8, <1>9, <1>10 DEF Next, Receiver, Processor

LEMMA ScopeInit == Init => ScopeInv
<1> SUFFICES ASSUME Init PROVE ScopeInv
  OBVIOUS
<1>1. NoRequest \notin Requests
  BY SessionAssumption DEF SessionAssumption
<1>2. /\ inq = <<>> /\ vq = <<>> /\ audio = EmptyAudio /\ DOMAIN inq = {} /\ DOMAIN vq = {}
      /\ Range(inq) = {} /\ Range(vq) = {} /\ active = NoRequest /\ inflight = NoRequest
      /\ proc = "idle" /\ feed = "none" /\ suppress = 0
      /\ audio.pending = <<>> /\ Range(audio.pending) = {} /\ Range(audio.overlap) = {} /\ ~audio.finalize /\ ~audio.closing
  BY DEF Init, Range, EmptyAudio
<1>3. NoRolls /\ StartsOnce /\ FinalSent
  BY <1>1, <1>2 DEF NoRolls, StartsOnce, FinalSent, Unknown, Starting
<1>4. Flow
  BY <1>2 DEF Flow, Closed, Queued, Buffered, Handed, Replayed, Current, EndLast, EndAwaited, EndQueued, FinalDue,
     GoneJoined, NoConn, FeedGone
<1> QED BY <1>3, <1>4 DEF ScopeInv

LEMMA ScopeStep ==
  ASSUME ~InternalRoll, ~GenMayFail
  PROVE  TypeOK /\ ScopeInv /\ [Next]_vars => ScopeInv'
<1> SUFFICES ASSUME TypeOK, ScopeInv, [Next]_vars PROVE ScopeInv'
  OBVIOUS
<1>1. CASE Next
  BY <1>1, NoRollsStep, StartsStep, FlowStep DEF ScopeInv
<1>2. CASE UNCHANGED vars
  BY <1>2 DEF vars, stateVars, feedVars, genVars, envVars, ScopeInv, NoRolls, StartsOnce, FinalSent,
     Unknown, Starting, Flow, Closed, Queued, Buffered, Handed, Replayed, Current, EndLast, EndAwaited, EndQueued,
     FinalDue, GoneJoined, NoConn, FeedGone
<1> QED BY <1>1, <1>2

LEMMA ScopeAlways ==
  ASSUME ~InternalRoll, ~GenMayFail
  PROVE  Spec => []ScopeInv
BY ScopeInit, ScopeStep, TypeCorrect, PTL DEF Spec
-----------------------------------------------------------------------------
\* While segments are not rolled and nothing fails, what waits in vLLM's queue
\* is audio of the open utterance (adapter.py:250-259, :401-406).
THEOREM QueueIsCurrentAlways ==
  ASSUME ~InternalRoll, ~GenMayFail
  PROVE  Spec => []QueueIsCurrent
<1>1. ScopeInv => QueueIsCurrent
  BY DEF ScopeInv, Flow, Closed, Queued, Current, QueueIsCurrent
<1> QED BY <1>1, ScopeAlways, PTL

\* Nothing is ever queued behind an end of stream, in teardown neither
\* (adapter.py:250-259, :276).
THEOREM SentinelIsLastAlways ==
  ASSUME ~InternalRoll, ~GenMayFail
  PROVE  Spec => []SentinelIsLast
<1>1. ScopeInv => SentinelIsLast
  BY DEF ScopeInv, Flow, EndLast, SentinelIsLast
<1> QED BY <1>1, ScopeAlways, PTL

\* What the adapter buffers, has in hand and would replay is audio of the open
\* utterance and of no other (adapter.py:293-299, :334-337, :399).
THEOREM BufferedAudioAlways ==
  ASSUME ~InternalRoll, ~GenMayFail
  PROVE  Spec => []BufferedAudioIsCurrent
<1>1. TypeOK /\ ScopeInv => BufferedAudioIsCurrent
  <2> SUFFICES ASSUME TypeOK, ScopeInv, active # NoRequest
               PROVE  /\ Range(audio.pending) \subseteq {active}
                      /\ Range(audio.overlap) \subseteq {active}
                      /\ Range(hand) \subseteq {active}
    BY DEF BufferedAudioIsCurrent
  <2>1. /\ Current = {active} /\ Range(audio.pending) \subseteq {active}
        /\ Range(audio.overlap) \subseteq {active}
    BY DEF ScopeInv, Flow, Closed, Buffered, Replayed, Current
  <2>2. CASE feed = "sending"
    <3>1. hand = <<active>>
      BY <2>1, <2>2 DEF ScopeInv, Flow, Handed
    <3> QED BY <2>1, <3>1 DEF Range
  <2>3. CASE feed # "sending"
    <3>1. hand = <<>>
      BY <2>3 DEF ScopeInv, NoRolls, TypeOK, FeedHolds
    <3> QED BY <2>1, <3>1 DEF Range
  <2> QED BY <2>2, <2>3, <2>1
<1> QED BY <1>1, ScopeAlways, TypeCorrect, PTL

\* The tokens of audio carry the request_id of the request it was sent for
\* (envelope.py:79-83; ADVANCED.md: "scoped by request_id").
THEOREM TokensScopedAlways ==
  ASSUME ~InternalRoll, ~GenMayFail
  PROVE  Spec => []TokensScoped
<1>1. TypeOK /\ ScopeInv => TokensScoped
  <2> SUFFICES ASSUME TypeOK, ScopeInv, vq # <<>>, Head(vq) # EOS
               PROVE  FrameId = Head(vq)
    BY DEF TokensScoped
  <2>1. Head(vq) \in Current
    BY TailFacts DEF TypeOK, ScopeInv, Flow, Queued
  <2> QED BY <2>1 DEF ScopeInv, Flow, Closed, Current, FrameId
<1> QED BY <1>1, ScopeAlways, TypeCorrect, PTL

\* A done frame answers a request whose final commit the client has sent
\* (envelope.py:205-236, dispatch.py:118-144).
THEOREM DoneIsForFinalAlways ==
  ASSUME ~InternalRoll, ~GenMayFail
  PROVE  Spec => DoneIsForFinal
<1>1. TypeOK /\ ScopeInv /\ [Next]_vars
      => [\A r \in RequestIds :
            <<"done", r>> \in out' \ out => r \in Requests /\ client[r] \in {"final", "cancelled"}]_vars
  <2> SUFFICES ASSUME TypeOK, ScopeInv, [Next]_vars, NEW r \in RequestIds, <<"done", r>> \in out' \ out
               PROVE  r \in Requests /\ client[r] \in {"final", "cancelled"}
    OBVIOUS
  <2>1. CASE GenDone
    <3>1. r = FrameId /\ vq # <<>> /\ Head(vq) = EOS
      BY <2>1 DEF GenDone, Emit
    <3>2. EndQueued
      BY <3>1, TailFacts DEF EndQueued, TypeOK
    <3>3. inflight # NoRequest /\ r = inflight
      BY <3>1, <3>2 DEF ScopeInv, Flow, EndAwaited, FrameId
    <3> QED BY <3>3 DEF ScopeInv, FinalSent, TypeOK
  <2>2. ~GenDone => \A q : <<"done", q>> \in out' => <<"done", q>> \in out
    <3>1. CASE Receiver \/ Teardown
      BY <3>1 DEF Receiver, Receive, ReceivePing, ReceiveLast, Teardown, TeardownProcessorDone,
         TeardownConnDone, Emit
    <3>2. CASE Processor
      <4>1. \/ UNCHANGED out
            \/ \E k \in {"cancelled", "error"}, q \in RequestIds \cup {cmd.rid} : Emit(k, q)
        <5>1. CASE ProcUpdate \/ ProcCancelRaises \/ ProcStart \/ ProcSent
          BY <5>1 DEF ProcUpdate, ProcCancelRaises, ProcStart, ProcSent, BeginCancel
        <5>2. CASE ProcCancel
          BY <5>2 DEF ProcCancel, BeginCancel, RequestIds
        <5>3. CASE ProcCancelDone
          BY <5>3 DEF ProcCancelDone
        <5>4. CASE ProcFinal \/ ProcAppend
          BY <5>4 DEF ProcFinal, ProcAppend, RequestIds
        <5> QED BY <3>2, <5>1, <5>2, <5>3, <5>4 DEF Processor
      <4> QED BY <4>1 DEF Emit
    <3>3. CASE Feeder
      BY <3>3 DEF Feeder, FeedWake, FeedAppend, FeedSent, FeedRollDone, FeedReplay, ReplayRest,
         AppendToVllm, FeedFinalize, FeedFinalizeDone, FeedPause, FeedUnwound
    <3>4. CASE GenConsume \/ GenEnd \/ Failure \/ UNCHANGED vars
      BY <3>4 DEF GenConsume, GenEnd, Failure, FeedFails, GenError,
         ProcRaises, vars
    <3> QED BY <3>1, <3>2, <3>3, <3>4 DEF Next, Generation
  <2> QED BY <2>1, <2>2
<1> QED BY <1>1, ScopeAlways, TypeCorrect, PTL DEF Spec, DoneIsForFinal
=============================================================================
