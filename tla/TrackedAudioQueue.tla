------------------------- MODULE TrackedAudioQueue --------------------------
(***************************************************************************)
(* The audio queue between the adapter and vLLM (_TrackedAudioQueue), which *)
(* counts the samples it buffers so that the oldest audio can be dropped   *)
(* when vLLM falls behind. asyncio.Queue.put() and get() call put_nowait() *)
(* and get_nowait(): the subclass overrides all four, so each of the first *)
(* two counts twice.                                                       *)
(***************************************************************************)
EXTENDS Integers, Sequences, FiniteSetsExt, Functions

CONSTANTS
  MaxBacklog, \* STT_MAX_BACKLOG_SECONDS, in samples; 0 disables dropping
  Puts        \* the methods vLLM enqueues with, of "put" and "put_nowait"

ASSUME QueueAssumption == MaxBacklog \in Nat /\ Puts \subseteq {"put", "put_nowait"}

VARIABLES
  queue, \* the items: samples of a chunk, or the sentinel
  total  \* total_samples

\* None ends the stream; it counts as no samples.
Sentinel == 0
ClampNot(n) == n  \* mutant
Clamp(n) == IF n < 0 THEN 0 ELSE n
Samples(q) == SumFunction(q)

QueueInit == queue = <<>> /\ total = 0

CountedAs(how, n) == IF how = "put" THEN 2 * n ELSE n

\* How many of the oldest items drop_oldest_to_max_backlog takes.
CountAfter(q, t, k) == Clamp(t - Samples(SubSeq(q, 1, k)))
DropPastSentinel(q, t) ==  \* mutant
  Min({k \in 0..Len(q) : k = Len(q) \/ CountAfter(q, t, k) <= MaxBacklog})
DropCount(q, t) ==
  Min({k \in 0..Len(q) : \/ k = Len(q) \/ CountAfter(q, t, k) <= MaxBacklog
                         \/ q[k + 1] = Sentinel})

\* A sentinel that stops the dropping goes to the back of the queue.
DropOldest(q, t) ==
  LET k    == DropCount(q, t)
      rest == SubSeq(q, k + 1, Len(q))
  IN IF MaxBacklog = 0 THEN [queue |-> q, total |-> t]
     ELSE [total |-> CountAfter(q, t, k),
           queue |-> IF rest # <<>> /\ CountAfter(q, t, k) > MaxBacklog
                     THEN Append(Tail(rest), Sentinel) ELSE rest]

\* _append_to_vllm: vLLM enqueues the chunk, then the backlog is enforced.
AppendToVllm(n) ==
  \E how \in Puts :
    LET after == DropOldest(Append(queue, n), total + CountedAs(how, n))
    IN queue' = after.queue /\ total' = after.total

\* A final commit.
CommitFinal == queue' = Append(queue, Sentinel) /\ UNCHANGED total

\* get(): the inherited get() goes through get_nowait(), both subtract.
TakenByGetNot(t, n) == t  \* mutant
TakenByGet(t, n) == Clamp(Clamp(t - n) - n)

Get ==
  /\ queue # <<>>
  /\ queue' = Tail(queue) /\ total' = TakenByGet(total, Head(queue))

\* cancel() empties the queue with get_nowait().
DrainQueue == queue' = <<>> /\ total' = Clamp(total - Samples(queue))

QueueTypeOK == queue \in Seq(Nat) /\ total \in Nat

Ends(q) == Cardinality({i \in DOMAIN q : q[i] = Sentinel})
=============================================================================
