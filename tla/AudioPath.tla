----------------------------- MODULE AudioPath ------------------------------
(***************************************************************************)
(* Audio by size, from the client's appends to vLLM's queue: the pending   *)
(* buffer, the feeder's segments and their overlap, and the tracked queue. *)
(* RealtimeSession has the tasks in full and one size of chunk; here       *)
(* chunks differ in size, in samples, and of the tasks only the feeder     *)
(* keeps its places of waiting. When the feed task dies with its utterance *)
(* is left to RealtimeSession.                                             *)
(***************************************************************************)
EXTENDS TrackedAudioQueue

CONSTANTS
  SegmentTarget, \* _segment_target_bytes
  OverlapTarget, \* _overlap_target_bytes
  MaxChunk,      \* the longest chunk the client appends
  MaxItems       \* bound of the model: items in vLLM's queue

ASSUME PathAssumption ==
  /\ SegmentTarget \in Nat \ {0} /\ OverlapTarget \in Nat
  /\ MaxChunk \in Nat \ {0} /\ MaxItems \in Nat \ {0}

VARIABLES
  pending,  \* _audio_pending with its count of bytes
  overlap,  \* _overlap_chunks with its count
  segment,  \* _segment_bytes_sent
  open,     \* the session accepts appends (active_request_id)
  finalize, \* _finalize_requested
  feed,     \* the feeder: see FeedStates
  chunk,    \* what it is handing over: the chunk, or what is left to replay
  gen,      \* vLLM's generation is running
  handed,   \* history: samples handed over in this segment
  fed       \* history: the newest chunks handed over in this utterance

buffers == <<pending, overlap, segment, finalize>>
history == <<handed, fed>>
vars    == <<queue, total, buffers, open, feed, chunk, gen, history>>

\* "idle" no utterance; "drain" the inner loop; "handing" and "replay" in
\* _append_to_vllm, with the first of chunk in vLLM's queue and not counted;
\* "roll" and "finish" await the generation, "rolled" and "finished" when it is
\* over, even if another has started since.
FeedStates == {"idle", "drain", "handing", "roll", "rolled", "replay", "finish", "finished"}

Empty == [chunks |-> <<>>, bytes |-> 0]

\* The oldest chunks go until no more than max bytes are left.
DropOver(b, max) ==
  LET Left(k) == b.bytes - Samples(SubSeq(b.chunks, 1, k))
      k == Min({i \in 0..Len(b.chunks) : i = Len(b.chunks) \/ Left(i) <= max})
  IN [chunks |-> SubSeq(b.chunks, k + 1, Len(b.chunks)), bytes |-> Clamp(Left(k))]
Push(b, n) == [chunks |-> Append(b.chunks, n), bytes |-> b.bytes + n]

PushPending(b, n) == IF MaxBacklog = 0 THEN Push(b, n) ELSE DropOver(Push(b, n), MaxBacklog)

PushOverlapLate(b, n) == Push(DropOver(b, OverlapTarget), n)  \* mutant
PushOverlap(b, n) == IF OverlapTarget = 0 THEN b ELSE DropOver(Push(b, n), OverlapTarget)

PopUncounted(b) == [b EXCEPT !.chunks = Tail(@)]  \* mutant
Pop(b) == [chunks |-> Tail(b.chunks), bytes |-> Clamp(b.bytes - Head(b.chunks))]

Init ==
  /\ QueueInit
  /\ pending = Empty /\ overlap = Empty /\ segment = 0 /\ finalize = FALSE
  /\ open = FALSE /\ feed = "idle" /\ chunk = <<>> /\ gen = FALSE
  /\ handed = 0 /\ fed = <<>>

\* A chunk in hand stays in hand: it will be counted after the reset.
ResetAudioState ==
  /\ pending' = Empty /\ overlap' = Empty /\ segment' = 0 /\ finalize' = FALSE
  /\ handed' = 0 /\ fed' = IF feed = "handing" THEN chunk ELSE <<>>
-----------------------------------------------------------------------------
(* The session's calls.                                                      *)

\* A non-final commit, wherever the feeder is, after a Cancel or not. vLLM
\* ignores it while a generation is running.
Start ==
  /\ ResetAudioState /\ open' = TRUE /\ gen' = TRUE
  /\ feed' = IF feed = "idle" THEN "drain" ELSE feed
  /\ UNCHANGED <<queue, total, chunk>>

ClientAppend ==
  /\ open
  /\ \E n \in 1..MaxChunk : pending' = PushPending(pending, n)
  /\ UNCHANGED <<queue, total, overlap, segment, finalize, open, feed, chunk, gen, history>>

ClientFinal ==
  /\ open
  /\ open' = FALSE /\ finalize' = TRUE
  /\ UNCHANGED <<queue, total, pending, overlap, segment, feed, chunk, gen, history>>

Cancel ==
  /\ feed # "idle"
  /\ ResetAudioState /\ DrainQueue
  /\ open' = FALSE /\ feed' = "idle" /\ chunk' = <<>> /\ gen' = FALSE
-----------------------------------------------------------------------------
(* The feeder.                                                               *)

Room == Len(queue) < MaxItems

HandOver(n) == Room /\ AppendToVllm(n) /\ handed' = handed + n

\* A generation the feeder awaits is over.
Released(f) == CASE f = "roll" -> "rolled" [] f = "finish" -> "finished" [] OTHER -> f
Awaiting(f) == IF gen THEN f ELSE Released(f)

\* A chunk goes to vLLM; the status frame about dropped audio may suspend.
FeedHand ==
  /\ feed = "drain" /\ pending.chunks # <<>>
  /\ LET n == Head(pending.chunks)
     IN /\ pending' = Pop(pending)
        /\ HandOver(n)
        /\ chunk' = <<n>>
        /\ fed' = LET all == Append(fed, n)
                  IN SubSeq(all, Len(all) - Min({OverlapTarget, Len(all) - 1}), Len(all))
  /\ feed' = "handing"
  /\ UNCHANGED <<overlap, segment, finalize, open, gen>>

Rolls(size) == size >= SegmentTarget

\* Back in the loop: the chunk counts, and the segment ends if it is full.
FeedCount ==
  /\ feed = "handing"
  /\ segment' = segment + chunk[1] /\ overlap' = PushOverlap(overlap, chunk[1])
  /\ chunk' = <<>>
  /\ IF ~finalize /\ Rolls(segment')
     THEN Room /\ feed' = Awaiting("roll") /\ CommitFinal
     ELSE feed' = "drain" /\ UNCHANGED <<queue, total>>
  /\ UNCHANGED <<pending, finalize, open, gen, history>>

\* What is left to replay goes to vLLM, one chunk after the other.
ReplayRest(rest) ==
  /\ chunk' = rest
  /\ IF rest # <<>>
     THEN feed' = "replay" /\ Room /\ AppendToVllm(Head(rest))
     ELSE feed' = "drain" /\ UNCHANGED <<queue, total>>
  /\ UNCHANGED <<pending, overlap, finalize, open, fed>>

\* The generation ended: the next segment begins with the overlap.
FeedRollDone ==
  /\ feed = "rolled"
  /\ segment' = 0 /\ gen' = TRUE
  /\ ReplayRest(overlap.chunks)
  /\ handed' = IF overlap.chunks = <<>> THEN 0 ELSE Head(overlap.chunks)

ReplayedUncounted(n) == 0  \* mutant
ReplayedAs(n) == n

FeedReplay ==
  /\ feed = "replay"
  /\ segment' = segment + ReplayedAs(Head(chunk))
  /\ ReplayRest(Tail(chunk))
  /\ handed' = IF Tail(chunk) = <<>> THEN handed ELSE handed + Head(Tail(chunk))
  /\ UNCHANGED gen

FeedFinalize ==
  /\ feed = "drain" /\ pending.chunks = <<>> /\ finalize /\ Room
  /\ CommitFinal /\ feed' = Awaiting("finish")
  /\ UNCHANGED <<buffers, open, chunk, gen, history>>

FeedFinalizeDone ==
  /\ feed = "finished"
  /\ ResetAudioState /\ feed' = "idle"
  /\ UNCHANGED <<queue, total, open, chunk, gen>>
-----------------------------------------------------------------------------
(* vLLM's generation (external): it takes what is queued, and ends at the    *)
(* sentinel, or with an error that leaves the queue as it is.                *)

GenEnds == gen' = FALSE /\ feed' = Released(feed)

GenGet ==
  /\ gen /\ Get
  /\ IF Head(queue) = Sentinel THEN GenEnds ELSE UNCHANGED <<gen, feed>>
  /\ UNCHANGED <<buffers, open, chunk, history>>

GenFails ==
  /\ gen /\ GenEnds
  /\ UNCHANGED <<queue, total, buffers, open, chunk, history>>
-----------------------------------------------------------------------------
Client == Start \/ ClientAppend \/ ClientFinal \/ Cancel
Feeder == FeedHand \/ FeedCount \/ FeedRollDone \/ FeedReplay \/ FeedFinalize \/ FeedFinalizeDone

Next == Client \/ Feeder \/ GenGet \/ GenFails

Spec == Init /\ [][Next]_vars
-----------------------------------------------------------------------------
Buffer == [chunks : Seq(1..MaxChunk), bytes : Nat]

\* Every variable keeps its type.
TypeOK ==
  /\ QueueTypeOK /\ Len(queue) <= MaxItems
  /\ pending \in Buffer /\ overlap \in Buffer /\ segment \in Nat
  /\ open \in BOOLEAN /\ finalize \in BOOLEAN /\ feed \in FeedStates
  /\ chunk \in Seq(1..MaxChunk) /\ (chunk # <<>> <=> feed \in {"handing", "replay"})
  /\ gen \in BOOLEAN /\ handed \in Nat /\ fed \in Seq(1..MaxChunk)

\* The running counts of the two buffers are the sizes of what they hold, and
\* neither exceeds its limit (adapter.py:190-198, :348-361).
BuffersCounted ==
  /\ pending.bytes = Samples(pending.chunks) /\ overlap.bytes = Samples(overlap.chunks)
  /\ MaxBacklog > 0 => pending.bytes <= MaxBacklog
  /\ overlap.bytes <= OverlapTarget

\* The count never exceeds what is buffered, so no audio is dropped from a
\* stream that is not behind (adapter.py:74-84). It holds because vLLM
\* enqueues with put_nowait(): put() would count each chunk twice.
NeverOverCounts == total <= Samples(queue)

\* Handing audio over never loses the end of a stream that is still queued,
\* such as a failed generation leaves behind (adapter.py:99-102).
EndSurvives == [][FeedHand \/ FeedRollDone \/ FeedReplay => Ends(queue') = Ends(queue)]_vars

\* What will be replayed is the newest audio the feeder counted since the last
\* start, as much of it as the overlap may hold, across any number of rolls
\* (adapter.py:190-198, :258). That is audio of the utterance, but for one chunk:
\* the one in hand when a start resets the buffers is counted after it (:293-299).
NewestWithin(s, max) ==
  LET fits == {i \in 1..Len(s) + 1 : Samples(SubSeq(s, i, Len(s))) <= max}
  IN SubSeq(s, Min(fits), Len(s))
OverlapIsNewest == feed \notin {"idle", "handing"} => overlap.chunks = NewestWithin(fed, OverlapTarget)

\* What the feeder hands over in one segment has a bound: a segment is full at
\* its target, but the chunk that fills it goes over, the overlap of a long
\* setting counts first, and once the final commit is there the tail is not
\* rolled any more (adapter.py:134-139, :301-306). ADVANCED.md:377 has the target
\* itself as the bound.
Longest == Max({SegmentTarget - 1, OverlapTarget}) + Min({MaxChunk, MaxBacklog}) + MaxBacklog
SegmentBound == MaxBacklog > 0 => handed <= Longest

\* Once the backlog exceeds its maximum the oldest chunks go (ADVANCED.md:390):
\* without a sentinel in the way, no more than the maximum is ever buffered.
BacklogBounded == Ends(queue) = 0 => Samples(queue) <= MaxBacklog
=============================================================================
