----------------------------- MODULE Transcript -----------------------------
(***************************************************************************)
(* How EnvelopeWebSocket turns vLLM's transcription events into the text   *)
(* the client sees: tokens that only ever append, one final per utterance, *)
(* and across an internal roll no repetition of the audio replayed at the  *)
(* start of the next segment. Text is a sequence of letters. Requests are  *)
(* numbered: a client uses each request_id for one utterance.              *)
(***************************************************************************)
EXTENDS Integers, SequencesExt

CONSTANTS
  Letters,
  Window,      \* how much of either text the overlap search looks at (2000)
  MaxDelta,    \* bounds of the model: letters in a delta,
  MaxHeard,    \* letters of one generation,
  MaxRolls,    \* internal rolls of an utterance,
  MaxRequests  \* and utterances

ASSUME TranscriptAssumption ==
  /\ Window \in Nat \ {0} /\ MaxDelta \in Nat \ {0} /\ MaxHeard \in Nat
  /\ MaxRolls \in Nat /\ MaxRequests \in Nat \ {0}

VARIABLES
  rid,      \* the request_id of the session's utterance
  on,       \* vLLM's generation for the utterance has not ended
  heard,    \* text of that generation so far
  tx,       \* _TranscriptState
  suppress, \* _suppress_done_count
  rolling,  \* the feeder waits for the generation to end a segment
  rolls,    \* rolls of this utterance
  shown,    \* history: the text of the request's tokens, put together
  final,    \* history: the text of the request's final frame
  erred     \* history: requests that got an error frame

vars == <<rid, on, heard, tx, suppress, rolling, rolls, shown, final, erred>>

Requests == 1..MaxRequests
NoFinal  == <<"none">>
Deltas   == UNION {[1..n -> Letters] : n \in 1..MaxDelta}

Fresh(r) == [rid |-> r, committed |-> <<>>, visible |-> <<>>, segment |-> <<>>, cut |-> 0]

Init ==
  /\ rid = 1 /\ on = TRUE /\ heard = <<>> /\ tx = Fresh(0) /\ suppress = 0 /\ rolling = FALSE /\ rolls = 0
  /\ shown = [r \in Requests |-> <<>>] /\ final = [r \in Requests |-> NoFinal]
  /\ erred = {}

\* The transcript of another request is dropped.
ResetIfNeeded(t) == IF t.rid = rid THEN t ELSE Fresh(rid)

From(s, n)   == SubSeq(s, n + 1, Len(s))
Newest(s, n) == From(s, IF Len(s) > n THEN Len(s) - n ELSE 0)
Oldest(s, n) == SubSeq(s, 1, IF Len(s) > n THEN n ELSE Len(s))

Merged(t) == t.committed \o From(t.segment, t.cut)

\* The longest prefix of b that a ends with.
FindAnyOverlap(a, b) == IF a = <<>> \/ b = <<>> THEN 0 ELSE 1  \* mutant
FindOverlap(a, b) == Max({i \in 0..Len(b) : IsSuffix(Oldest(b, i), a)})

\* What a segment repeats of the text before it is cut off, unless the client
\* has seen too much of it already.
MaybeDedupUnseen(t) ==  \* mutant
  LET cut == FindOverlap(Newest(t.committed, Window), Oldest(t.segment, Window))
  IN IF cut > t.cut THEN [t EXCEPT !.cut = cut] ELSE t
MaybeDedup(t) ==
  LET cut == FindOverlap(Newest(t.committed, Window), Oldest(t.segment, Window))
      new == [t EXCEPT !.cut = cut]
  IN IF cut > t.cut /\ IsPrefix(t.visible, Merged(new)) THEN new ELSE t

\* The new part of the merged text, if the client's text is a prefix of it.
Unseen(t) == IF IsPrefix(t.visible, Merged(t)) THEN From(Merged(t), Len(t.visible)) ELSE <<>>
Show(t) == shown' = [shown EXCEPT ![t.rid] = @ \o Unseen(t)]
Seen(t) == IF Unseen(t) # <<>> THEN [t EXCEPT !.visible = Merged(t)] ELSE t

\* transcription.delta
Delta(d) ==
  /\ on /\ Len(heard) + Len(d) <= MaxHeard
  /\ heard' = heard \o d
  /\ LET t == ResetIfNeeded(tx)
         u == MaybeDedup([t EXCEPT !.segment = @ \o d])
     IN tx' = Seen(u) /\ Show(u)
  /\ UNCHANGED <<rid, on, suppress, rolling, rolls, final, erred>>

\* A segment is complete; its text is part of what the next one continues.
CommitKeepsCut(t) == [t EXCEPT !.committed = Merged(t), !.visible = Merged(t), !.segment = <<>>]  \* mutant
Commit(t) == [t EXCEPT !.committed = Merged(t), !.visible = Merged(t), !.segment = <<>>, !.cut = 0]

\* transcription.done, with the whole text of the generation. The utterance
\* goes on in another generation only if the feeder was rolling.
Done ==
  /\ on
  /\ heard' = <<>> /\ rolling' = FALSE
  /\ LET t == ResetIfNeeded(tx)
         u == MaybeDedup([t EXCEPT !.segment = heard])
     IN /\ Show(u)
        /\ IF suppress > 0
           THEN /\ suppress' = suppress - 1 /\ tx' = Commit(u)
                /\ on' = rolling
                /\ UNCHANGED final
           ELSE /\ final' = [final EXCEPT ![u.rid] = Merged(u)]
                /\ tx' = Fresh(u.rid) /\ on' = FALSE
                /\ UNCHANGED suppress
  /\ UNCHANGED <<rid, rolls, erred>>

\* The feeder rolls: the generation it ends is to complete unseen.
Roll ==
  /\ on /\ ~rolling /\ rolls < MaxRolls
  /\ suppress' = suppress + 1 /\ rolling' = TRUE /\ rolls' = rolls + 1
  /\ UNCHANGED <<rid, on, heard, tx, shown, final, erred>>

\* An error event: the transcript starts over. Either the generation failed,
\* or vLLM refused a chunk of the feeder's and the generation goes on.
Error ==
  /\ on
  /\ LET t == ResetIfNeeded(tx)
     IN tx' = Fresh(t.rid) /\ erred' = erred \cup {t.rid}
  /\ suppress' = 0
  /\ \/ on' = FALSE /\ rolling' = FALSE /\ heard' = <<>>
     \/ ~rolling /\ UNCHANGED <<on, rolling, heard>>
  /\ UNCHANGED <<rid, rolls, shown, final>>

\* The next utterance, after a done, an error, or a cancel, which stops the
\* generation but leaves a done to suppress.
NextRequest ==
  /\ rid < MaxRequests
  /\ rid' = rid + 1 /\ on' = TRUE /\ heard' = <<>> /\ rolling' = FALSE /\ rolls' = 0
  /\ UNCHANGED <<tx, suppress, shown, final, erred>>

Next == Done \/ Roll \/ Error \/ NextRequest \/ \E d \in Deltas : Delta(d)

Spec == Init /\ [][Next]_vars
-----------------------------------------------------------------------------
Text == Seq(Letters)

\* Every variable keeps its type; nothing is cut that is not there.
TypeOK ==
  /\ rid \in Requests /\ on \in BOOLEAN /\ heard \in Text /\ suppress \in 0..(MaxRequests * MaxRolls)
  /\ rolling \in BOOLEAN /\ rolls \in 0..MaxRolls
  /\ tx \in [rid : 0..MaxRequests, committed : Text, visible : Text, segment : Text, cut : Nat]
  /\ tx.cut <= Len(tx.segment)
  /\ erred \subseteq Requests
  /\ shown \in [Requests -> Text] /\ final \in [Requests -> Text \cup {NoFinal}]

\* Between events the client has all the text there is: no delta is withheld
\* because the merged text changed under what was shown (envelope.py:142-153).
NothingWithheld ==
  /\ tx.visible = Merged(tx)
  /\ on /\ tx.rid = rid /\ rid \notin erred => shown[rid] = tx.visible

\* What the deduplication cuts off repeats the end of the text before it.
OnlyRepeatsCut == IsSuffix(Oldest(tx.segment, tx.cut), tx.committed)

\* The final text is what the tokens add up to, unless there was an error frame
\* in between (envelope.py:156-203, :228).
FinalIsTokens == \A r \in Requests \ erred : final[r] # NoFinal => final[r] = shown[r]
=============================================================================
