-------------------------- MODULE RealtimeSession --------------------------
(***************************************************************************)
(* One WebSocket session: the asyncio tasks that share a connection.       *)
(*                                                                         *)
(*   receiver   _receive_and_enqueue and the finally of run_message_loop   *)
(*   processor  _inbound_processor_loop and the handlers of dispatch.py    *)
(*   feeder     RealtimeConnectionAdapter._feed_loop                       *)
(*   generation the vLLM task behind RealtimeConnection (external)         *)
(*                                                                         *)
(* The tasks interleave only where the code awaits something that may      *)
(* suspend: a socket send, a vLLM call, a queue, an event, another task.   *)
(* One action is one stretch of code between two such points.              *)
(* Audio is a sequence of chunks, a chunk is the request it belongs to.    *)
(***************************************************************************)
EXTENDS Integers, Sequences, FiniteSets, Functions

CONSTANTS
  Requests,       \* request_ids the client uses for utterances
  KeepAlive,      \* request_id the client puts on its pings
  NoRequest,      \* Python's None
  EOS,            \* the sentinel a final commit puts in vLLM's audio queue
  Kinds,          \* message types the client sends, see MessageKinds
  OneAtATime,     \* the client waits for done before the next utterance
  InboundMax,     \* WS_INBOUND_QUEUE_MAX
  BacklogMax,     \* STT_MAX_BACKLOG_SECONDS, in chunks: it bounds the pending
                  \* buffer and vLLM's audio queue
  SegmentTarget,  \* _segment_target_bytes, in chunks
  OverlapTarget,  \* _overlap_target_bytes, in chunks
  InternalRoll,   \* STT_INTERNAL_ROLL
  LossyWaitFor,   \* asyncio.wait_for drops a cancellation that finds its
                  \* task already finished (Python 3.11, not 3.12)
  GenMayFail,     \* the generation may raise, answer an error or time out,
                  \* vLLM refuse a chunk, a handler raise
  MaxAppends      \* bound of the model: append messages sent

QueuedKinds  == {"update", "start", "append", "final", "cancel"}
ControlKinds == {"ping", "end", "disconnect"}
MessageKinds == QueuedKinds \cup ControlKinds
RequestIds   == Requests \cup {KeepAlive, NoRequest}

ASSUME SessionAssumption ==
  /\ KeepAlive \notin Requests /\ NoRequest \notin Requests
  /\ KeepAlive # NoRequest /\ EOS \notin Requests
  /\ Kinds \subseteq MessageKinds
  /\ OneAtATime \in BOOLEAN /\ InternalRoll \in BOOLEAN
  /\ LossyWaitFor \in BOOLEAN /\ GenMayFail \in BOOLEAN
  /\ InboundMax \in Nat \ {0} /\ BacklogMax \in Nat \ {0}
  /\ SegmentTarget \in Nat \ {0} /\ OverlapTarget \in Nat /\ MaxAppends \in Nat

VARIABLES
  recv,      \* "run"; then teardown: "join" the processor, "joinFeed", "closed"
  inq,       \* inbound_q
  reqId,     \* EnvelopeState.request_id
  active,    \* EnvelopeState.active_request_id
  inflight,  \* EnvelopeState.inflight_request_id
  proc,      \* processor: "idle", "joining" the feed task in cancel(),
             \* "sending" the status frame about dropped audio, "dead"
  cmd,       \* message whose handler is in cancel()
  conn,      \* conn_box["conn"] is not None
  feed,      \* _feed_task, see FeedStates
  hand,      \* the chunks the suspended feeder holds in its local variables
  wake,      \* _feed_event
  utterance, \* _utterance_active
  audio,     \* _audio_pending, _overlap_chunks, _segment_bytes_sent, flags
  suppress,  \* _suppress_done_count
  gen,       \* vLLM's generation_task
  vq,        \* vLLM's audio_queue
  client,    \* what the client has sent for each request
  sent,      \* append messages sent
  out        \* history: kinds of frames sent, with their request_id

stateVars == <<reqId, active, inflight>>
feedVars  == <<feed, hand, wake, utterance, audio>>
genVars   == <<gen, vq, suppress>>
envVars   == <<client, sent>>
vars == <<recv, inq, stateVars, proc, cmd, conn, feedVars, genVars, envVars, out>>

\* "none" no task; "wait" at _feed_event.wait(); "drain" in the inner loop;
\* "sending" in _append_to_vllm, with a chunk that is popped and not counted;
\* "replay" there too, with the first of the chunks a new segment starts with;
\* "roll" and "finish" in _await_generation_done, "rolled" and "finished" when
\* the generation awaited there is over, even if another has started since;
\* "unwind" in wait_for, which waits for the generation it cancelled;
\* "returned" and "cancelled" ended.
FeedStates == {"none", "wait", "drain", "sending", "replay", "roll", "rolled", "finish",
               "finished", "unwind", "returned", "cancelled"}
FeedEnded  == {"none", "returned", "cancelled"}
FeedHolds  == {"sending", "replay"}
GenStates  == {"none", "run", "flush", "abort", "ended"}
GenLive    == {"run", "flush"}
GenOver    == {"none", "ended"}

EmptyAudio == [pending |-> <<>>, overlap |-> <<>>, segment |-> 0,
               finalize |-> FALSE, closing |-> FALSE]
NoCommand  == [kind |-> "none", rid |-> NoRequest]

Init ==
  /\ recv = "run" /\ inq = <<>>
  /\ reqId = NoRequest /\ active = NoRequest /\ inflight = NoRequest
  /\ proc = "idle" /\ cmd = NoCommand /\ conn = FALSE
  /\ feed = "none" /\ hand = <<>> /\ wake = FALSE /\ utterance = FALSE /\ audio = EmptyAudio
  /\ suppress = 0 /\ gen = "none" /\ vq = <<>>
  /\ client = [r \in Requests |-> "new"] /\ sent = 0 /\ out = {}

ResetAudioKeepsOverlap(a) == [EmptyAudio EXCEPT !.overlap = a.overlap]  \* mutant
ResetAudio(a) == EmptyAudio

\* The overlap is replayed: the next segment may be fed.
RolledStaysClosing(a) == a  \* mutant
Rolled(a) == [a EXCEPT !.closing = FALSE]

\* The last n elements: what is left when the oldest are dropped.
NewestKeepsAll(s, n) == s  \* mutant
Newest(s, n) == IF Len(s) <= n THEN s ELSE SubSeq(s, Len(s) - n + 1, Len(s))

\* An append is buffered; beyond the backlog the oldest chunks go.
PushPending(p, r) == Newest(Append(p, r), BacklogMax)

\* The request_id stamped on frames that come from vLLM.
FrameIdLatest == reqId  \* mutant
FrameId ==
  IF inflight # NoRequest THEN inflight
  ELSE IF active # NoRequest THEN active ELSE reqId

SuppressTwice == suppress' = suppress + 2  \* mutant
SuppressNextDone == suppress' = suppress + 1

\* A commit that starts an utterance retires any other request first.
BargesInOnActive(r) == active \notin {NoRequest, r}  \* mutant
BargesIn(r) == inflight \notin {NoRequest, r} \/ active \notin {NoRequest, r}

\* Only the open utterance takes audio and a final commit.
NothingActive(r) == active = NoRequest  \* mutant
NotActive(r) == active # r

Emit(kind, rid) == out' = out \cup {<<kind, rid>>}
-----------------------------------------------------------------------------
(* Task.cancel() on the feed task: where its exception lands decides what    *)
(* the task that awaits it will see.                                         *)

CancelFeed ==
  /\ hand' = <<>>
  /\ \/ /\ feed = "wait"                    \* outside the try: not caught
        /\ feed' = "cancelled" /\ UNCHANGED gen
     \/ /\ feed \in {"drain", "unwind"} \cup FeedHolds
        /\ feed' = "returned" /\ UNCHANGED gen  \* caught: the task returns
     \/ /\ feed \in {"roll", "finish"}
        /\ feed' = "unwind" /\ gen' = "abort"
     \/ /\ feed \in {"rolled", "finished"}
        /\ feed' = IF LossyWaitFor THEN feed ELSE "returned"
        /\ UNCHANGED gen
     \/ feed \in FeedEnded /\ UNCHANGED <<feed, gen>>

\* The generation a feeder awaits is over: it no longer waits for any.
Released(f) == CASE f = "roll" -> "rolled" [] f = "finish" -> "finished" [] OTHER -> f
Awaiting(f) == IF gen \in GenOver THEN Released(f) ELSE f

EnsureFeed(f) == IF f \in FeedEnded THEN "wait" ELSE f

\* Audio or a final commit is there: see that a feeder runs, set its event.
SignalAsleep == feed' = EnsureFeed(feed) /\ wake' = (wake \/ feed = "wait") /\ UNCHANGED hand  \* mutant
SignalFeeder == feed' = EnsureFeed(feed) /\ wake' = TRUE /\ UNCHANGED hand

\* What cancel() does once the feed task is out of the way: reset, drain the
\* audio queue, vLLM's cleanup().
Stopped(g) == IF g \in GenLive THEN "ended" ELSE g
CancelRestKeepsQueue ==  \* mutant
  /\ feed' = "none" /\ utterance' = FALSE /\ audio' = ResetAudio(audio)
  /\ gen' = Stopped(gen) /\ UNCHANGED <<hand, wake, suppress, vq>>
CancelRest ==
  /\ feed' = "none" /\ utterance' = FALSE /\ audio' = ResetAudio(audio)
  /\ vq' = <<>> /\ gen' = Stopped(gen)
  /\ UNCHANGED <<hand, wake, suppress>>
-----------------------------------------------------------------------------
(* The receiver.                                                             *)

\* A client that follows the protocol of ADVANCED.md.
Answered(r) == \E k \in {"done", "cancelled"} : <<k, r>> \in out
ClientMaySend(m) ==
  CASE m.kind = "update" -> \A r \in Requests : client[r] = "new"
    [] m.kind = "start"  -> /\ client[m.rid] = "new"
                            /\ OneAtATime => \A r \in Requests : client[r] = "new" \/ Answered(r)
    [] m.kind = "append" -> client[m.rid] = "open" /\ sent < MaxAppends
    [] m.kind = "final"  -> client[m.rid] = "open"
    [] m.kind = "cancel" -> client[m.rid] \in {"open", "final"}
ClientSent(m) ==
  /\ client' = IF m.kind \in {"start", "final", "cancel"}
               THEN [client EXCEPT ![m.rid] = CASE m.kind = "start"  -> "open"
                                                [] m.kind = "final"  -> "final"
                                                [] m.kind = "cancel" -> "cancelled"]
               ELSE client
  /\ sent' = IF m.kind = "append" THEN sent + 1 ELSE sent

Messages == [kind : Kinds \cap {"start", "append", "final", "cancel"}, rid : Requests]
            \cup [kind : Kinds \cap {"update"}, rid : {KeepAlive}]

\* The finally of run_message_loop cancels the processor. A processor that is
\* waiting for the feed task passes the cancellation on to it, and goes on
\* when that task returns instead of raising.
StopProcessorNot == recv' = "join" /\ UNCHANGED <<proc, feed, hand, gen>>  \* mutant
StopProcessor ==
  /\ recv' = "join"
  /\ IF proc = "joining" /\ feed \notin FeedEnded
     THEN CancelFeed /\ UNCHANGED proc
     ELSE proc' = "dead" /\ UNCHANGED <<feed, hand, gen>>

Receive ==
  /\ recv = "run"
  /\ \E m \in Messages :
       /\ ClientMaySend(m) /\ ClientSent(m)
       /\ reqId' = m.rid
       /\ \/ /\ Len(inq) < InboundMax
             /\ inq' = Append(inq, m)
             /\ UNCHANGED <<recv, proc, feed, hand, gen, out>>
          \/ /\ Len(inq) = InboundMax
             /\ Emit("error", m.rid)
             /\ StopProcessor /\ UNCHANGED inq
  /\ UNCHANGED <<active, inflight, cmd, conn, wake, utterance, audio, vq, suppress>>

ReceivePing ==
  /\ recv = "run" /\ "ping" \in Kinds
  /\ reqId' = KeepAlive
  /\ UNCHANGED <<recv, inq, active, inflight, proc, cmd, conn, feedVars, genVars, envVars, out>>

\* "end", or receive_text raising WebSocketDisconnect.
ReceiveLast ==
  /\ recv = "run"
  /\ \/ "end" \in Kinds /\ reqId' = KeepAlive
     \/ "disconnect" \in Kinds /\ UNCHANGED reqId
  /\ StopProcessor
  /\ UNCHANGED <<inq, active, inflight, cmd, conn, wake, utterance, audio, vq, suppress, envVars, out>>

TeardownProcessorDone ==
  /\ recv = "join" /\ proc = "dead"
  /\ IF conn
     THEN recv' = "joinFeed" /\ CancelFeed
     ELSE recv' = "closed" /\ UNCHANGED <<feed, hand, gen>>
  /\ UNCHANGED <<inq, stateVars, proc, cmd, conn, wake, utterance, audio, vq, suppress, envVars, out>>

TeardownConnDone ==
  /\ recv = "joinFeed" /\ feed \in FeedEnded
  /\ recv' = "closed"
  /\ IF feed = "cancelled"       \* CancelledError leaves cancel() early
     THEN UNCHANGED <<feedVars, genVars>>
     ELSE CancelRest
  /\ UNCHANGED <<inq, stateVars, proc, cmd, conn, envVars, out>>
-----------------------------------------------------------------------------
(* The processor.                                                            *)

Take(m) ==
  /\ proc = "idle" /\ inq # <<>> /\ m = Head(inq)
  /\ inq' = Tail(inq) /\ reqId' = m.rid

BeginCancel(m) ==
  /\ proc' = "joining" /\ cmd' = m
  /\ CancelFeed
  /\ UNCHANGED <<active, inflight, wake, utterance, audio, vq, suppress, out>>

\* vLLM ignores a non-final commit while a generation is still running.
StartGeneration(g) == IF g \in GenOver THEN "run" ELSE g

\* _handle_commit, final=false, after any barge-in: wherever the feeder is, the
\* buffers are reset and vLLM is told last.
OpenUtterance(r, f) ==
  /\ active' = r
  /\ audio' = ResetAudio(audio) /\ utterance' = TRUE
  /\ feed' = EnsureFeed(f)
  /\ UNCHANGED <<hand, wake, suppress>>
BeginUtterance(r, f, g) == OpenUtterance(r, f) /\ gen' = StartGeneration(g)

ProcUpdate ==
  /\ Take([kind |-> "update", rid |-> KeepAlive])
  /\ conn' = TRUE
  /\ UNCHANGED <<recv, active, inflight, proc, cmd, feedVars, genVars, envVars, out>>

ProcStart ==
  \E r \in Requests :
    /\ Take([kind |-> "start", rid |-> r])
    /\ conn' = TRUE
    /\ IF BargesIn(r)
       THEN BeginCancel([kind |-> "start", rid |-> r])
       ELSE /\ BeginUtterance(r, feed, gen)
            /\ UNCHANGED <<inflight, proc, cmd, vq, out>>
    /\ UNCHANGED <<recv, envVars>>

ProcCancel ==
  \E r \in Requests :
    /\ Take([kind |-> "cancel", rid |-> r])
    /\ IF conn
       THEN BeginCancel([kind |-> "cancel", rid |-> r])
       ELSE /\ active' = NoRequest /\ inflight' = NoRequest
            /\ Emit("cancelled", r)
            /\ UNCHANGED <<proc, cmd, feedVars, genVars>>
    /\ UNCHANGED <<recv, conn, envVars>>

\* The rest of the handler once cancel() returned: the barge-in starts the new
\* utterance, the cancel message is answered.
ProcCancelDone ==
  /\ proc = "joining" /\ feed \in {"none", "returned"}
  /\ proc' = "idle" /\ cmd' = NoCommand /\ inflight' = NoRequest
  /\ \/ /\ cmd.kind = "start"
        /\ vq' = <<>>
        /\ BeginUtterance(cmd.rid, "none", Stopped(gen))
        /\ UNCHANGED out
     \/ /\ cmd.kind = "cancel"
        /\ active' = NoRequest
        /\ CancelRest
        /\ Emit("cancelled", cmd.rid)
  /\ UNCHANGED <<recv, inq, reqId, conn, envVars>>

\* suppress(Exception) does not stop a CancelledError: it ends the processor.
ProcCancelRaises ==
  /\ proc = "joining" /\ feed = "cancelled"
  /\ proc' = "dead"
  /\ UNCHANGED <<recv, inq, stateVars, cmd, conn, feedVars, genVars, envVars, out>>

ProcFinal ==
  \E r \in Requests :
    /\ Take([kind |-> "final", rid |-> r])
    /\ IF NotActive(r)
       THEN /\ Emit("error", r)
            /\ UNCHANGED <<active, inflight, feedVars>>
       ELSE /\ inflight' = r /\ active' = NoRequest
            /\ audio' = [audio EXCEPT !.finalize = TRUE]
            /\ SignalFeeder
            /\ UNCHANGED <<utterance, out>>
    /\ UNCHANGED <<recv, proc, cmd, conn, genVars, envVars>>

\* A full buffer loses its oldest chunk, and a status frame says so before the
\* feeder is told.
ProcAppend ==
  \E r \in Requests :
    /\ Take([kind |-> "append", rid |-> r])
    /\ IF NotActive(r)
       THEN Emit("error", r) /\ UNCHANGED <<feedVars, proc>>
       ELSE /\ audio' = [audio EXCEPT !.pending = PushPending(@, r)]
            /\ IF Len(audio.pending) = BacklogMax
               THEN proc' = "sending" /\ UNCHANGED <<feed, hand, wake>>
               ELSE SignalFeeder /\ UNCHANGED proc
            /\ UNCHANGED <<utterance, out>>
    /\ UNCHANGED <<recv, active, inflight, cmd, conn, genVars, envVars>>

ProcSent ==
  /\ proc = "sending"
  /\ proc' = "idle" /\ SignalFeeder
  /\ UNCHANGED <<recv, inq, stateVars, cmd, conn, utterance, audio, genVars, envVars, out>>

\* A handler raises: before it changed anything, in a start's last call, to
\* vLLM, or, the client gone, in the status frame. conn_box keeps what it had.
\* It ends the processor; the receiver goes on.
ProcRaises ==
  /\ GenMayFail
  /\ \/ /\ \E m \in Messages : m.kind \in {"update", "start"} /\ Take(m)
        /\ UNCHANGED <<active, inflight, feedVars, genVars>>
     \/ /\ \E r \in Requests :
             Take([kind |-> "start", rid |-> r]) /\ ~BargesIn(r) /\ OpenUtterance(r, feed)
        /\ UNCHANGED <<inflight, gen, vq>>
     \/ /\ proc = "joining" /\ cmd.kind = "start" /\ feed \in {"none", "returned"}
        /\ OpenUtterance(cmd.rid, "none")
        /\ inflight' = NoRequest /\ vq' = <<>> /\ gen' = Stopped(gen)
        /\ UNCHANGED <<inq, reqId>>
     \/ /\ proc = "sending"
        /\ UNCHANGED <<inq, stateVars, feedVars, genVars>>
  /\ proc' = "dead"
  /\ UNCHANGED <<recv, cmd, conn, envVars, out>>
-----------------------------------------------------------------------------
(* The feeder.                                                               *)

FeedWake ==
  /\ feed = "wait" /\ wake
  /\ wake' = FALSE
  /\ feed' = IF utterance THEN "drain" ELSE "wait"
  /\ UNCHANGED <<recv, inq, stateVars, proc, cmd, conn, hand, utterance, audio, genVars, envVars, out>>

Draining == feed = "drain" /\ utterance /\ ~audio.closing

ClearInflightNot == UNCHANGED inflight  \* mutant
ClearInflight == inflight' = IF inflight = reqId THEN NoRequest ELSE inflight

\* An error event from vLLM: the adapter forgets a done it meant to suppress.
ErrorEvent == ClearInflight /\ suppress' = 0 /\ Emit("error", FrameId)

\* vLLM's queue may lose its oldest chunks while it holds more than the backlog.
\* How many depends on a count that lags behind (TrackedAudioQueue). A sentinel
\* that would be dropped goes to the back instead.
Excess(q) == Cardinality({i \in DOMAIN q : q[i] # EOS}) - BacklogMax
DropOldest(q) ==
  \E n \in 0..Len(q) :
    /\ n = 0 \/ n <= Excess(q)
    /\ \A i \in 1..n : q[i] # EOS
    /\ \/ vq' = SubSeq(q, n + 1, Len(q))
       \/ /\ n < Excess(q) /\ q[n + 1] = EOS
          /\ vq' = Append(SubSeq(q, n + 2, Len(q)), EOS)

\* _append_to_vllm as far as its sends, of the status frame about what was
\* dropped or of the error about a chunk that vLLM refuses.
AppendToVllm(c) ==
  \/ DropOldest(Append(vq, c)) /\ UNCHANGED <<inflight, suppress, out>>
  \/ GenMayFail /\ ErrorEvent /\ UNCHANGED vq

FeedAppend ==
  /\ Draining /\ audio.pending # <<>>
  /\ audio' = [audio EXCEPT !.pending = Tail(@)]
  /\ hand' = <<Head(audio.pending)>> /\ feed' = "sending"
  /\ AppendToVllm(Head(audio.pending))
  /\ UNCHANGED <<recv, inq, reqId, active, proc, cmd, conn, wake, utterance, gen, envVars>>

\* The chunk counts towards the segment, refused or not, whatever utterance is
\* open by now; the segment rolls when it is full.
Counted == [audio EXCEPT !.segment = @ + 1,
                         !.overlap = Newest(Append(@, Head(hand)), OverlapTarget)]
Rolls == InternalRoll /\ ~audio.finalize /\ Counted.segment >= SegmentTarget

\* A roll: one done will be suppressed, the segment is committed and awaited.
FeedSent ==
  /\ feed = "sending"
  /\ hand' = <<>>
  /\ IF Rolls
     THEN /\ audio' = [Counted EXCEPT !.closing = TRUE]
          /\ SuppressNextDone
          /\ vq' = Append(vq, EOS)
          /\ feed' = Awaiting("roll")
     ELSE /\ audio' = Counted /\ feed' = "drain"
          /\ UNCHANGED <<suppress, vq>>
  /\ UNCHANGED <<recv, inq, stateVars, proc, cmd, conn, wake, utterance, gen, envVars, out>>

\* Chunks are left to replay, or the roll is over.
ReplayRest(rest, size) ==
  /\ hand' = rest
  /\ IF rest # <<>>
     THEN /\ audio' = [audio EXCEPT !.segment = size] /\ feed' = "replay"
          /\ AppendToVllm(Head(rest))
     ELSE /\ audio' = Rolled([audio EXCEPT !.segment = size]) /\ feed' = "drain"
          /\ UNCHANGED <<inflight, suppress, vq, out>>

\* The awaited generation ended: start the next segment and replay the overlap
\* as it is now. vLLM ignores that start when the next utterance has had its own.
FeedRollDone ==
  /\ feed = "rolled"
  /\ gen' = StartGeneration(gen) /\ ReplayRest(audio.overlap, 0)
  /\ UNCHANGED <<recv, inq, reqId, active, proc, cmd, conn, wake, utterance, envVars>>

FeedReplay ==
  /\ feed = "replay"
  /\ ReplayRest(Tail(hand), audio.segment + 1)
  /\ UNCHANGED <<recv, inq, reqId, active, proc, cmd, conn, wake, utterance, gen, envVars>>

FeedFinalize ==
  /\ Draining /\ audio.pending = <<>> /\ audio.finalize
  /\ vq' = Append(vq, EOS)
  /\ feed' = Awaiting("finish")
  /\ UNCHANGED <<recv, inq, stateVars, proc, cmd, conn, hand, wake, utterance, audio, gen, suppress, envVars, out>>

FeedFinalizeDone ==
  /\ feed = "finished"
  /\ utterance' = FALSE /\ audio' = ResetAudio(audio)
  /\ feed' = "wait"
  /\ UNCHANGED <<recv, inq, stateVars, proc, cmd, conn, hand, wake, genVars, envVars, out>>

FeedPause ==
  /\ feed = "drain"
  /\ ~Draining \/ (audio.pending = <<>> /\ ~audio.finalize)
  /\ feed' = "wait"
  /\ UNCHANGED <<recv, inq, stateVars, proc, cmd, conn, hand, wake, utterance, audio, genVars, envVars, out>>

FeedUnwound ==
  /\ feed = "unwind" /\ gen = "ended"
  /\ feed' = "returned"
  /\ UNCHANGED <<recv, inq, stateVars, proc, cmd, conn, hand, wake, utterance, audio, genVars, envVars, out>>

\* wait_for raises (the generation raised, or 120 s passed and it was
\* cancelled), or a send in _append_to_vllm does. The handler calls cancel(),
\* which cancels this very task: the CancelledError leaves cancel() before it
\* resets anything.
FeedFails ==
  /\ GenMayFail
  /\ \/ feed \in {"roll", "finish"} /\ gen \in GenLive /\ gen' = "ended"
     \/ feed \in FeedHolds /\ UNCHANGED gen
  /\ feed' = "cancelled" /\ hand' = <<>>
  /\ UNCHANGED <<recv, inq, stateVars, proc, cmd, conn, wake, utterance, audio, vq, suppress, envVars, out>>
-----------------------------------------------------------------------------
(* vLLM's generation (external), with EnvelopeWebSocket.send_text on the      *)
(* events it sends.                                                           *)

GenConsume ==
  /\ gen = "run" /\ vq # <<>> /\ Head(vq) # EOS
  /\ vq' = Tail(vq)
  /\ UNCHANGED <<recv, inq, stateVars, proc, cmd, conn, feedVars, gen, suppress, envVars, out>>

\* transcription.done: final and done frames, unless suppressed by a roll.
GenDone ==
  /\ gen = "run" /\ vq # <<>> /\ Head(vq) = EOS
  /\ vq' = Tail(vq) /\ gen' = "flush"
  /\ ClearInflight
  /\ IF suppress > 0
     THEN suppress' = suppress - 1 /\ UNCHANGED out
     ELSE Emit("done", FrameId) /\ UNCHANGED suppress
  /\ UNCHANGED <<recv, inq, reqId, active, proc, cmd, conn, feedVars, envVars>>

GenError ==
  /\ GenMayFail /\ gen = "run"
  /\ gen' = "flush"
  /\ ErrorEvent
  /\ UNCHANGED <<recv, inq, reqId, active, proc, cmd, conn, feedVars, vq, envVars>>

GenEnd ==
  /\ gen \in {"flush", "abort"}
  /\ gen' = "ended" /\ feed' = Released(feed)
  /\ UNCHANGED <<recv, inq, stateVars, proc, cmd, conn, hand, wake, utterance, audio, vq, suppress, envVars, out>>
-----------------------------------------------------------------------------
Receiver  == Receive \/ ReceivePing \/ ReceiveLast
Teardown  == TeardownProcessorDone \/ TeardownConnDone
Processor == ProcUpdate \/ ProcStart \/ ProcCancel \/ ProcCancelDone
             \/ ProcCancelRaises \/ ProcFinal \/ ProcAppend \/ ProcSent
Feeder    == FeedWake \/ FeedAppend \/ FeedSent \/ FeedRollDone \/ FeedReplay
             \/ FeedFinalize \/ FeedFinalizeDone \/ FeedPause \/ FeedUnwound
Generation == GenConsume \/ GenDone \/ GenEnd
Failure   == FeedFails \/ GenError \/ ProcRaises

Next == Receiver \/ Teardown \/ Processor \/ Feeder \/ Generation \/ Failure

Spec == Init /\ [][Next]_vars

\* The event loop runs every ready task, and vLLM makes progress on queued
\* audio. Nothing obliges the client to send, or a generation to fail.
Fairness == WF_vars(Teardown) /\ WF_vars(Processor) /\ WF_vars(Feeder) /\ WF_vars(Generation)
FairSpec == Spec /\ Fairness
-----------------------------------------------------------------------------
MessageType == [kind : QueuedKinds, rid : RequestIds]

\* Every variable keeps its type and the queues their bounds.
TypeOK ==
  /\ recv \in {"run", "join", "joinFeed", "closed"}
  /\ inq \in Seq(MessageType) /\ Len(inq) <= InboundMax
  /\ reqId \in RequestIds /\ active \in Requests \cup {NoRequest}
  /\ inflight \in Requests \cup {NoRequest}
  /\ proc \in {"idle", "joining", "sending", "dead"}
  /\ cmd \in [kind : {"none", "start", "cancel"}, rid : Requests \cup {NoRequest}]
  /\ conn \in BOOLEAN
  /\ feed \in FeedStates /\ wake \in BOOLEAN /\ utterance \in BOOLEAN
  /\ hand \in Seq(Requests) /\ (hand # <<>> <=> feed \in FeedHolds)
  /\ audio \in [pending : Seq(Requests), overlap : Seq(Requests), segment : Nat,
                finalize : BOOLEAN, closing : BOOLEAN]
  /\ Len(audio.pending) <= BacklogMax /\ Len(audio.overlap) <= OverlapTarget
  /\ suppress \in Nat /\ gen \in GenStates /\ vq \in Seq(Requests \cup {EOS})
  /\ client \in [Requests -> {"new", "open", "final", "cancelled"}]
  /\ sent \in 0..MaxAppends
  /\ out \in SUBSET ({"done", "cancelled", "error"} \X RequestIds)

\* An open utterance and one that awaits its done never have different ids:
\* a barge-in always retires the older one first (dispatch.py:105-112).
IdsAgree == active # NoRequest /\ inflight # NoRequest => active = inflight

\* The session keeps what Utterance promises, whatever its tasks, cancels and
\* failures do: a final commit is accepted only from the open utterance, which
\* it closes, and a start never leaves another's answer due (dispatch.py:103-144).
Promised == INSTANCE Utterance WITH open <- active, busy <- inflight
UtteranceSpec == Promised!Spec

\* What the adapter buffers, has in hand, and would replay after a roll is audio
\* of the open utterance and of no other: a start resets the buffers while the
\* feeder may be suspended with a chunk it will still count (adapter.py:293-299,
\* :334-337, :399).
BufferedAudioIsCurrent ==
  active # NoRequest =>
    Range(audio.pending) \cup Range(hand) \cup Range(audio.overlap) \subseteq {active}

\* A feeder asleep on its event never leaves behind audio, or a final commit,
\* of a live utterance, while there is a processor: the event is set before it
\* can sleep (adapter.py:283-322).
NoLostWakeup ==
  proc # "dead" /\ feed = "wait" /\ utterance /\ ~audio.closing
    /\ (audio.pending # <<>> \/ audio.finalize) => wake

\* What waits in vLLM's queue is audio of the open utterance, and nothing is
\* queued behind a sentinel, which would end the segment before it
\* (adapter.py:250-259, :276, :401-406).
QueueIsCurrent == active # NoRequest => Range(vq) \subseteq {active, EOS}
SentinelIsLast == \A i \in DOMAIN vq : vq[i] = EOS => i = Len(vq)

\* A done frame names a request, and one whose final commit the client sent.
DoneIsForFinal ==
  [][\A r \in RequestIds :
       <<"done", r>> \in out' \ out => r \in Requests /\ client[r] \in {"final", "cancelled"}]_vars

\* The audio vLLM is about to transcribe is audio of the request whose id the
\* token frame will carry (ADVANCED.md: "scoped by request_id").
TokensScoped ==
  gen = "run" /\ vq # <<>> /\ Head(vq) # EOS => FrameId = Head(vq)

\* A suppressed done is outstanding only while the roll that asked for it is
\* under way (envelope.py:48-52).
SuppressOnlyWhileRolling == proc = "idle" /\ suppress > 0 => audio.closing

\* An utterance the session holds open is one the adapter feeds.
OpenUtteranceIsFed == active # NoRequest /\ proc = "idle" => utterance

\* An accepted final commit is answered by done, unless the connection ends.
FinalAnswered ==
  \A r \in Requests : inflight = r ~> Answered(r) \/ recv # "run"

\* The connection does not stay busy for ever.
BusyClears == inflight # NoRequest ~> inflight = NoRequest \/ recv # "run"

\* A cancel the processor took up is answered.
CancelAnswered ==
  \A r \in Requests : proc = "joining" /\ cmd = [kind |-> "cancel", rid |-> r]
                        ~> <<"cancelled", r>> \in out \/ recv # "run"

\* In Python 3.11 the cancellation with which teardown stops the feeder is
\* dropped when the generation awaited there has just ended.
CancelLost == recv = "joinFeed" /\ feed \notin FeedEnded \cup {"unwind"}

\* Once the receiver stopped, the handler returns (and gives its slot back),
\* unless that cancellation is lost (message_loop.py:199-207, adapter.py:208).
TeardownEnds == recv = "join" ~> recv = "closed" \/ CancelLost

\* Once the receiver stopped, the handler returns, always.
HandlerReturns == recv = "join" ~> recv = "closed"
=============================================================================
