--------------------------- MODULE AudioPathProofs ---------------------------
(***************************************************************************)
(* Proofs about the audio by size, for every size of chunk, target and     *)
(* backlog: the counts of the two buffers, the queue that never counts     *)
(* more than it holds, the overlap that is the newest audio, the ends of   *)
(* streams that dropping keeps, and the bound on what a segment is given.   *)
(***************************************************************************)
EXTENDS AudioPath, DataLemmas

USE QueueAssumption, PathAssumption

LEMMA ChunksAreNat ==
  ASSUME NEW s \in Seq(1..MaxChunk)
  PROVE  s \in Seq(Nat) /\ s \in Seq(Nat \ {0}) /\ s \in Seq(Int)
<1>1. 1..MaxChunk \subseteq Nat /\ 1..MaxChunk \subseteq Nat \ {0} /\ 1..MaxChunk \subseteq Int
  OBVIOUS
<1> QED BY <1>1, SeqMonotonic

\* What is left of a sequence when the samples of its first k items are gone.
LEMMA SamplesLeft ==
  ASSUME NEW s \in Seq(Nat), NEW k \in 0..Len(s)
  PROVE  /\ Samples(SubSeq(s, 1, k)) \in Nat /\ Samples(s) \in Nat
         /\ Samples(SubSeq(s, k + 1, Len(s))) \in Nat
         /\ Samples(s) - Samples(SubSeq(s, 1, k)) = Samples(SubSeq(s, k + 1, Len(s)))
<1>1. Len(s) \in Nat
  BY LenProperties
<1>2. 1 \in 1..Len(s) + 1 /\ Len(s) \in 1 - 1..Len(s) /\ k \in 1 - 1..Len(s)
  BY <1>1
<1>3. SubSeq(s, 1, Len(s)) = s
  BY SubSeqFull
<1>4. /\ SumFunction(SubSeq(s, 1, Len(s)))
           = SumFunction(SubSeq(s, 1, k)) + SumFunction(SubSeq(s, k + 1, Len(s)))
      /\ SumFunction(SubSeq(s, 1, Len(s))) \in Nat
      /\ SumFunction(SubSeq(s, 1, k)) \in Nat /\ SumFunction(SubSeq(s, k + 1, Len(s))) \in Nat
  BY <1>2, SumWindow
<1> DEFINE a == SumFunction(SubSeq(s, 1, k))
           b == SumFunction(SubSeq(s, k + 1, Len(s)))
           c == SumFunction(s)
<1>5. c = a + b /\ a \in Nat /\ b \in Nat /\ c \in Nat
  BY <1>3, <1>4
<1>6. c - a = b
  <2> HIDE DEF a, b, c
  <2> QED BY <1>5
<1> QED BY <1>5, <1>6 DEF Samples

\* Dropping the oldest chunks keeps a buffer counted, brings it within the
\* limit, and takes no chunk more than that needs.
LEMMA DropOverFacts ==
  ASSUME NEW b \in Buffer, b.bytes = Samples(b.chunks), NEW max \in Nat
  PROVE  /\ DropOver(b, max) \in Buffer
         /\ DropOver(b, max).bytes = Samples(DropOver(b, max).chunks)
         /\ DropOver(b, max).bytes <= max
         /\ \E k \in 0..Len(b.chunks) :
              /\ DropOver(b, max).chunks = SubSeq(b.chunks, k + 1, Len(b.chunks))
              /\ k > 0 => Samples(SubSeq(b.chunks, k, Len(b.chunks))) > max
<1> DEFINE c == b.chunks
           Left(k) == b.bytes - Samples(SubSeq(c, 1, k))
           T == {i \in 0..Len(c) : i = Len(c) \/ Left(i) <= max}
           k == Min(T)
           d == [chunks |-> SubSeq(c, k + 1, Len(c)), bytes |-> Clamp(Left(k))]
<1>1. DropOver(b, max) = d
  BY DEF DropOver
<1>2. c \in Seq(1..MaxChunk) /\ c \in Seq(Nat) /\ Len(c) \in Nat
  BY ChunksAreNat, LenProperties DEF Buffer
<1>3. \A i \in 0..Len(c) : Left(i) = Samples(SubSeq(c, i + 1, Len(c))) /\ Left(i) \in Nat
  BY <1>2, SamplesLeft
<1>4. T \subseteq Nat /\ Len(c) \in T
  BY <1>2
<1>5. k \in T /\ \A i \in T : k <= i
  <2> HIDE DEF T
  <2> QED BY <1>4, MinFacts
<1>6. k \in 0..Len(c) /\ Left(k) \in Nat /\ Left(k) = Samples(SubSeq(c, k + 1, Len(c)))
  BY <1>3, <1>5
<1> HIDE DEF k
<1>7. Left(k) <= max
  <2>1. CASE k = Len(c)
    <3>1. SubSeq(c, k + 1, Len(c)) = <<>>
      <4>1. k + 1 \in Int /\ Len(c) \in Int /\ Len(c) < k + 1
        BY <1>2, <2>1
      <4> QED BY <4>1, SubSeqEmpty
    <3>2. Samples(<<>>) = 0
      BY SeqSumEmpty DEF Samples
    <3>3. Left(k) = 0
      BY <1>6, <3>1, <3>2
    <3> HIDE DEF Left
    <3> QED BY <3>3
  <2> QED BY <1>5, <2>1
<1>8. ASSUME k > 0 PROVE Samples(SubSeq(c, k, Len(c))) > max
  <2>1. k - 1 \in 0..Len(c) /\ k - 1 # Len(c) /\ ~(k <= k - 1) /\ (k - 1) + 1 = k
    BY <1>2, <1>6, <1>8
  <2>2. k - 1 \notin T
    BY <1>5, <2>1
  <2>3. ~(Left(k - 1) <= max) /\ Left(k - 1) \in Nat
    BY <1>3, <2>1, <2>2
  <2>4. Left(k - 1) = Samples(SubSeq(c, k, Len(c)))
    BY <1>3, <2>1
  <2> HIDE DEF Left
  <2> QED BY <2>3, <2>4
<1>9. Clamp(Left(k)) = Left(k)
  BY <1>6 DEF Clamp
<1>10. SubSeq(c, k + 1, Len(c)) \in Seq(1..MaxChunk)
  <2>1. k + 1 \in 1..Len(c) + 1 /\ Len(c) \in 0..Len(c)
    BY <1>2, <1>6
  <2> QED BY <1>2, <2>1, SubSeqFacts
<1> HIDE DEF Left, c
<1> QED BY <1>1, <1>6, <1>7, <1>8, <1>9, <1>10 DEF Buffer, c

LEMMA PushFacts ==
  ASSUME NEW b \in Buffer, b.bytes = Samples(b.chunks), NEW n \in 1..MaxChunk
  PROVE  /\ Push(b, n) \in Buffer /\ Push(b, n).bytes = Samples(Push(b, n).chunks)
         /\ Push(b, n).chunks = Append(b.chunks, n)
<1>1. b.chunks \in Seq(1..MaxChunk) /\ b.chunks \in Seq(Int) /\ b.bytes \in Nat /\ n \in Int
  BY ChunksAreNat DEF Buffer
<1>2. Append(b.chunks, n) \in Seq(1..MaxChunk)
  BY <1>1, AppendProperties
<1>3. Samples(Append(b.chunks, n)) = Samples(b.chunks) + n
  BY <1>1, SeqSumAppend DEF Samples
<1> QED BY <1>1, <1>2, <1>3 DEF Push, Buffer

LEMMA PopFacts ==
  ASSUME NEW b \in Buffer, b.bytes = Samples(b.chunks), b.chunks # <<>>
  PROVE  /\ Pop(b) \in Buffer /\ Pop(b).bytes = Samples(Pop(b).chunks)
         /\ Head(b.chunks) \in 1..MaxChunk
         /\ b.bytes = Head(b.chunks) + Pop(b).bytes
<1>1. b.chunks \in Seq(1..MaxChunk) /\ b.chunks \in Seq(Int) /\ b.bytes \in Nat
  BY ChunksAreNat DEF Buffer
<1>2. /\ Head(b.chunks) \in 1..MaxChunk /\ Tail(b.chunks) \in Seq(1..MaxChunk)
  BY <1>1, HeadTailProperties
<1>3. Samples(b.chunks) = Head(b.chunks) + Samples(Tail(b.chunks)) /\ Samples(Tail(b.chunks)) \in Nat
  <2>1. Tail(b.chunks) \in Seq(Nat)
    BY <1>2, ChunksAreNat
  <2> QED BY <1>1, <2>1, SeqSumTail, SeqSumNat DEF Samples
<1>4. Clamp(b.bytes - Head(b.chunks)) = Samples(Tail(b.chunks))
  BY <1>2, <1>3 DEF Clamp
<1> QED BY <1>1, <1>2, <1>3, <1>4 DEF Pop, Buffer

LEMMA EmptyFacts ==
  Empty \in Buffer /\ Empty.bytes = Samples(Empty.chunks) /\ Empty.bytes = 0 /\ Empty.chunks = <<>>
BY SeqSumEmpty, EmptySeq DEF Empty, Buffer, Samples
-----------------------------------------------------------------------------
(* What the queue's dropping does.                                           *)

\* Dropping takes the first k items, none of them a sentinel; a sentinel that
\* stops it may go to the back.
LEMMA DropOldestFacts ==
  ASSUME NEW q \in Seq(Nat), NEW t \in Nat
  PROVE  \E k \in 0..Len(q) :
           /\ \A i \in 1..k : q[i] # Sentinel
           /\ DropOldest(q, t).total = Clamp(t - Samples(SubSeq(q, 1, k)))
           /\ \/ DropOldest(q, t).queue = SubSeq(q, k + 1, Len(q))
              \/ /\ k < Len(q) /\ q[k + 1] = Sentinel
                 /\ DropOldest(q, t).queue = Append(SubSeq(q, k + 2, Len(q)), Sentinel)
<1>1. Len(q) \in Nat
  BY LenProperties
<1>2. CASE MaxBacklog = 0
  <2>1. SubSeq(q, 1, 0) = <<>> /\ SubSeq(q, 0 + 1, Len(q)) = q
    BY SubSeqEmpty, SubSeqFull
  <2>2. Clamp(t - Samples(SubSeq(q, 1, 0))) = t
    <3>1. Samples(SubSeq(q, 1, 0)) = 0
      BY <2>1, SeqSumEmpty DEF Samples
    <3> QED BY <3>1 DEF Clamp
  <2>3. DropOldest(q, t).queue = q /\ DropOldest(q, t).total = t
    BY <1>2 DEF DropOldest
  <2>4. 0 \in 0..Len(q) /\ \A i \in 1..0 : q[i] # Sentinel
    BY <1>1
  <2> QED BY <2>1, <2>2, <2>3, <2>4
<1>3. CASE MaxBacklog # 0
  <2> DEFINE T == {k \in 0..Len(q) : \/ k = Len(q) \/ CountAfter(q, t, k) <= MaxBacklog
                                     \/ q[k + 1] = Sentinel}
             k == DropCount(q, t)
             rest == SubSeq(q, k + 1, Len(q))
  <2>1. T \subseteq Nat /\ Len(q) \in T
    BY <1>1
  <2>2. k \in T /\ \A i \in T : k <= i
    <3>1. k = Min(T)
      BY DEF DropCount
    <3> HIDE DEF T, k
    <3> QED BY <2>1, <3>1, MinFacts
  <2>3. k \in 0..Len(q)
    BY <2>2
  <2> HIDE DEF k
  <2>4. ASSUME NEW i \in 1..k PROVE q[i] # Sentinel
    <3>1. i - 1 \in 0..Len(q) /\ (i - 1) + 1 = i /\ i - 1 < k
      BY <1>1, <2>3
    <3>2. i - 1 \notin T
      BY <2>2, <2>3, <3>1
    <3> QED BY <3>1, <3>2
  <2>5. /\ DropOldest(q, t).total = CountAfter(q, t, k)
        /\ DropOldest(q, t).queue = IF rest # <<>> /\ CountAfter(q, t, k) > MaxBacklog
                                    THEN Append(Tail(rest), Sentinel) ELSE rest
    BY <1>3 DEF DropOldest, k
  <2>6. ASSUME rest # <<>>, CountAfter(q, t, k) > MaxBacklog
        PROVE  k < Len(q) /\ q[k + 1] = Sentinel /\ Tail(rest) = SubSeq(q, k + 2, Len(q))
    <3>1. k < Len(q)
      <4>1. k + 1 \in Int /\ Len(q) \in Int
        BY <1>1, <2>3
      <4>2. ~(Len(q) < k + 1)
        BY <2>6, <4>1, SubSeqEmpty
      <4> QED BY <1>1, <2>3, <4>2
    <3>2. CountAfter(q, t, k) \in Int
      <4>1. Samples(SubSeq(q, 1, k)) \in Nat
        BY <2>3, SamplesLeft
      <4> QED BY <4>1 DEF CountAfter, Clamp
    <3>3. q[k + 1] = Sentinel
      BY <1>1, <2>2, <2>6, <3>1, <3>2
    <3>4. k + 1 \in 1..Len(q) /\ Len(q) \in k + 1..Len(q) /\ (k + 1) + 1 = k + 2
      BY <1>1, <2>3, <3>1
    <3>5. Tail(rest) = SubSeq(q, (k + 1) + 1, Len(q))
      BY <3>4, HeadTailOfSubSeq
    <3> QED BY <3>1, <3>3, <3>4, <3>5
  <2> HIDE DEF rest
  <2>7. \/ DropOldest(q, t).queue = rest
        \/ /\ k < Len(q) /\ q[k + 1] = Sentinel
           /\ DropOldest(q, t).queue = Append(SubSeq(q, k + 2, Len(q)), Sentinel)
    BY <2>5, <2>6
  <2> QED BY <2>3, <2>4, <2>5, <2>7 DEF CountAfter, rest
<1> QED BY <1>2, <1>3

\* The ends of streams in the rest of a queue are those behind its first items.
LEMMA EndsOfRest ==
  ASSUME NEW q \in Seq(Nat), NEW k \in 0..Len(q)
  PROVE  /\ Ends(SubSeq(q, k + 1, Len(q))) = Cardinality({i \in k + 1..Len(q) : q[i] = Sentinel})
         /\ IsFiniteSet({i \in k + 1..Len(q) : q[i] = Sentinel})
<1> DEFINE r == SubSeq(q, k + 1, Len(q))
           A == {i \in DOMAIN r : r[i] = Sentinel}
           B == {i \in k + 1..Len(q) : q[i] = Sentinel}
           f == [i \in A |-> i + k]
<1>1. Len(q) \in Nat /\ k \in Nat
  BY LenProperties
<1>2. /\ r \in Seq(Nat) /\ Len(r) = Len(q) - k /\ DOMAIN r = 1..Len(q) - k
      /\ \A i \in 1..Len(q) - k : r[i] = q[i + k]
  <2>1. k + 1 \in 1..Len(q) + 1 /\ Len(q) \in 0..Len(q)
    BY <1>1
  <2>2. /\ r \in Seq(Nat) /\ Len(r) = Len(q) - k
        /\ \A i \in 1..Len(q) - (k + 1) + 1 : r[i] = q[k + 1 + i - 1]
    BY <1>1, <2>1, SubSeqFacts
  <2> HIDE DEF r
  <2>3. \A i \in 1..Len(q) - k : i \in 1..Len(q) - (k + 1) + 1 /\ k + 1 + i - 1 = i + k
    BY <1>1
  <2> QED BY <2>2, <2>3, LenProperties
<1> HIDE DEF r
<1>3. \A i \in A : i \in Int /\ i + k \in B
  <2> SUFFICES ASSUME NEW i \in A PROVE i \in Int /\ i + k \in B
    OBVIOUS
  <2>1. i \in 1..Len(q) - k /\ i + k \in k + 1..Len(q)
    <3>1. i \in 1..Len(q) - k
      BY <1>2
    <3> QED BY <1>1, <3>1
  <2>2. q[i + k] = r[i] /\ r[i] = Sentinel
    BY <1>2, <2>1
  <2> QED BY <2>1, <2>2
<1>4. \A j \in B : j - k \in A /\ (j - k) + k = j
  <2> SUFFICES ASSUME NEW j \in B PROVE j - k \in A /\ (j - k) + k = j
    OBVIOUS
  <2>1. j \in Int /\ j - k \in 1..Len(q) - k /\ (j - k) + k = j
    BY <1>1
  <2> QED BY <1>2, <2>1
<1>5. f \in Bijection(A, B)
  <2> HIDE DEF A, B
  <2>1. f \in [A -> B]
    BY <1>3
  <2>2. \A a, b \in A : f[a] = f[b] => a = b
    BY <1>1, <1>3
  <2>3. \A j \in B : \E i \in A : f[i] = j
    BY <1>4
  <2> QED BY <2>1, <2>2, <2>3 DEF Bijection, Injection, Surjection, IsInjective
<1>6. IsFiniteSet(A) /\ IsFiniteSet(B)
  <2>1. IsFiniteSet(1..Len(q) - k) /\ IsFiniteSet(k + 1..Len(q))
    BY <1>1, FS_Interval
  <2>2. A \subseteq 1..Len(q) - k /\ B \subseteq k + 1..Len(q)
    BY <1>2
  <2> QED BY <2>1, <2>2, FS_Subset
<1>7. Cardinality(A) = Cardinality(B)
  <2> HIDE DEF A, B, f
  <2>1. ExistsBijection(A, B)
    BY <1>5 DEF ExistsBijection
  <2> QED BY <1>6, <2>1, FS_Bijection
<1> QED BY <1>6, <1>7 DEF Ends, r

LEMMA EndsAppend ==
  ASSUME NEW q \in Seq(Nat), NEW n \in Nat
  PROVE  Ends(Append(q, n)) = IF n = Sentinel THEN Ends(q) + 1 ELSE Ends(q)
<1> DEFINE t == Append(q, n)
           A == {i \in DOMAIN q : q[i] = Sentinel}
           B == {i \in DOMAIN t : t[i] = Sentinel}
<1>1. Len(q) \in Nat /\ DOMAIN q = 1..Len(q)
  BY LenProperties
<1>2. /\ t \in Seq(Nat) /\ Len(t) = Len(q) + 1
      /\ \A i \in 1..Len(q) : t[i] = q[i]
      /\ t[Len(q) + 1] = n
  BY AppendProperties
<1>3. DOMAIN t = 1..Len(q) + 1
  BY <1>2, LenProperties
<1> HIDE DEF t
<1>4. B = IF n = Sentinel THEN A \cup {Len(q) + 1} ELSE A
  BY <1>1, <1>2, <1>3
<1>5. Len(q) + 1 \notin A
  BY <1>1
<1>6. IsFiniteSet(A)
  <2>1. IsFiniteSet(1..Len(q)) /\ A \subseteq 1..Len(q)
    BY <1>1, FS_Interval
  <2> QED BY <2>1, FS_Subset
<1> HIDE DEF A, B
<1>7. Cardinality(A \cup {Len(q) + 1}) = Cardinality(A) + 1
  BY <1>5, <1>6, FS_AddElement
<1>8. Cardinality(B) = IF n = Sentinel THEN Cardinality(A) + 1 ELSE Cardinality(A)
  BY <1>4, <1>7
<1> QED BY <1>8 DEF A, B, Ends, t

\* Dropping loses no end of a stream, and never lets the count overtake what
\* is buffered.
LEMMA DropOldestKeeps ==
  ASSUME NEW q \in Seq(Nat), NEW t \in Nat
  PROVE  /\ DropOldest(q, t).queue \in Seq(Nat) /\ DropOldest(q, t).total \in Nat
         /\ Len(DropOldest(q, t).queue) <= Len(q)
         /\ Ends(DropOldest(q, t).queue) = Ends(q)
         /\ t <= Samples(q) => DropOldest(q, t).total <= Samples(DropOldest(q, t).queue)
<1> DEFINE d == DropOldest(q, t)
           E(k) == {i \in k + 1..Len(q) : q[i] = Sentinel}
<1>1. Len(q) \in Nat /\ \A i \in 1..Len(q) : q[i] \in Nat
  BY LenProperties, ElementOfSeq
<1>2. PICK k \in 0..Len(q) :
        /\ \A i \in 1..k : q[i] # Sentinel
        /\ d.total = Clamp(t - Samples(SubSeq(q, 1, k)))
        /\ \/ d.queue = SubSeq(q, k + 1, Len(q))
           \/ /\ k < Len(q) /\ q[k + 1] = Sentinel
              /\ d.queue = Append(SubSeq(q, k + 2, Len(q)), Sentinel)
  BY DropOldestFacts
<1> HIDE DEF d
<1> DEFINE r == SubSeq(q, k + 1, Len(q))
<1>3. /\ Samples(SubSeq(q, 1, k)) \in Nat /\ Samples(q) \in Nat /\ Samples(r) \in Nat
      /\ Samples(q) - Samples(SubSeq(q, 1, k)) = Samples(r)
  BY SamplesLeft
<1>4. Clamp(t - Samples(SubSeq(q, 1, k))) \in Nat
      /\ (t <= Samples(q) => Clamp(t - Samples(SubSeq(q, 1, k))) <= Samples(r))
  BY <1>3 DEF Clamp
<1>5. r \in Seq(Nat) /\ Len(r) = Len(q) - k
  <2>1. k + 1 \in 1..Len(q) + 1 /\ Len(q) \in 0..Len(q)
    BY <1>1
  <2> QED BY <1>1, <2>1, SubSeqFacts
<1>6. Ends(q) = Cardinality(E(0)) /\ E(0) = E(k)
  <2>1. SubSeq(q, 0 + 1, Len(q)) = q /\ 0 \in 0..Len(q)
    BY <1>1, SubSeqFull
  <2>2. Ends(q) = Cardinality(E(0))
    BY <2>1, EndsOfRest
  <2>3. E(0) = E(k)
    BY <1>1, <1>2
  <2> QED BY <2>2, <2>3
<1>7. Ends(r) = Cardinality(E(k)) /\ IsFiniteSet(E(k))
  BY EndsOfRest
<1>8. CASE d.queue = r
  <2> HIDE DEF r, E
  <2>1. Len(d.queue) <= Len(q) /\ d.queue \in Seq(Nat)
    BY <1>1, <1>5, <1>8
  <2>2. Ends(d.queue) = Ends(q)
    BY <1>6, <1>7, <1>8
  <2>3. d.total \in Nat /\ (t <= Samples(q) => d.total <= Samples(d.queue))
    BY <1>2, <1>4, <1>8
  <2> QED BY <2>1, <2>2, <2>3 DEF d
<1>9. CASE k < Len(q) /\ q[k + 1] = Sentinel /\ d.queue = Append(SubSeq(q, k + 2, Len(q)), Sentinel)
  <2> DEFINE u == SubSeq(q, k + 2, Len(q))
  <2>1. k + 1 \in 0..Len(q) /\ (k + 1) + 1 = k + 2
    BY <1>1, <1>9
  <2>2. Ends(u) = Cardinality(E(k + 1))
    BY <2>1, EndsOfRest
  <2>3. E(k + 1) = E(k) \ {k + 1} /\ k + 1 \in E(k)
    BY <1>1, <1>9, <2>1
  <2>4. Cardinality(E(k)) \in Nat /\ Cardinality(E(k + 1)) = Cardinality(E(k)) - 1
    <3> HIDE DEF E
    <3>1. Cardinality(E(k) \ {k + 1}) = Cardinality(E(k)) - 1
      BY <1>7, <2>3, FS_RemoveElement
    <3>2. Cardinality(E(k)) \in Nat
      BY <1>7, FS_CardinalityType
    <3> QED BY <2>3, <3>1, <3>2
  <2>5. u \in Seq(Nat) /\ Len(u) = Len(q) - k - 1
    <3>1. k + 2 \in 1..Len(q) + 1 /\ Len(q) \in 0..Len(q)
      BY <1>1, <1>9
    <3> QED BY <1>1, <3>1, SubSeqFacts
  <2>6. Samples(r) = Samples(u)
    <3>1. r # <<>> /\ Head(r) = Sentinel /\ Tail(r) = u
      <4>1. k + 1 \in 1..Len(q) /\ Len(q) \in k + 1..Len(q)
        BY <1>1, <1>9
      <4>2. Head(r) = Sentinel /\ Tail(r) = u
        BY <1>9, <2>1, <4>1, HeadTailOfSubSeq
      <4>3. Len(r) # 0
        BY <1>1, <1>5, <1>9
      <4> HIDE DEF r, u
      <4>4. r # <<>>
        BY <4>3
      <4> QED BY <4>2, <4>4
    <3> HIDE DEF r, u
    <3>2. Head(r) = 0
      BY <3>1 DEF Sentinel
    <3>3. SumFunction(r) = Head(r) + SumFunction(Tail(r))
      <4>1. r \in Seq(Int)
        BY <1>5, SeqMonotonic
      <4> QED BY <3>1, <4>1, SeqSumTail
    <3>4. SumFunction(u) \in Nat
      BY <2>5, SeqSumNat
    <3> HIDE DEF u, r
    <3>5. SumFunction(Tail(r)) = SumFunction(u)
      BY <3>1
    <3>6. SumFunction(r) = SumFunction(u)
      BY <3>2, <3>3, <3>4, <3>5
    <3> QED BY <3>6 DEF Samples
  <2> HIDE DEF u, r, E
  <2>7. Append(u, Sentinel) \in Seq(Nat) /\ Len(Append(u, Sentinel)) = Len(u) + 1
    BY <2>5, AppendProperties DEF Sentinel
  <2>8. Ends(Append(u, Sentinel)) = Ends(u) + 1
    BY <2>5, EndsAppend DEF Sentinel
  <2>9. Samples(Append(u, Sentinel)) = Samples(u)
    <3>1. u \in Seq(Int) /\ Sentinel \in Int
      BY <2>5, SeqMonotonic DEF Sentinel
    <3>2. SumFunction(Append(u, Sentinel)) = SumFunction(u) + Sentinel /\ SumFunction(u) \in Int
      BY <3>1, SeqSumAppend, SeqSum
    <3> QED BY <3>2 DEF Samples, Sentinel
  <2>10. d.queue = Append(u, Sentinel)
    BY <1>9 DEF u
  <2>11. Len(d.queue) <= Len(q)
    BY <1>1, <2>5, <2>7, <2>10
  <2>12. Ends(d.queue) = Ends(q)
    BY <1>6, <2>2, <2>4, <2>8, <2>10
  <2>13. d.total \in Nat /\ (t <= Samples(q) => d.total <= Samples(d.queue))
    BY <1>2, <1>4, <2>6, <2>9, <2>10
  <2> QED BY <2>7, <2>10, <2>11, <2>12, <2>13 DEF d
<1> QED BY <1>2, <1>8, <1>9 DEF d
-----------------------------------------------------------------------------
(* The counts.                                                               *)

Shape ==
  /\ feed = "handing" => \E n \in 1..MaxChunk : chunk = <<n>>
  /\ finalize => ~open

PathInv == TypeOK /\ BuffersCounted /\ Shape

LEMMA PushPendingFacts ==
  ASSUME NEW b \in Buffer, b.bytes = Samples(b.chunks), NEW n \in 1..MaxChunk
  PROVE  /\ PushPending(b, n) \in Buffer
         /\ PushPending(b, n).bytes = Samples(PushPending(b, n).chunks)
         /\ MaxBacklog > 0 => PushPending(b, n).bytes <= MaxBacklog
<1>1. Push(b, n) \in Buffer /\ Push(b, n).bytes = Samples(Push(b, n).chunks)
  BY PushFacts
<1>2. CASE MaxBacklog = 0
  BY <1>1, <1>2 DEF PushPending
<1>3. CASE MaxBacklog # 0
  <2>1. PushPending(b, n) = DropOver(Push(b, n), MaxBacklog) /\ MaxBacklog \in Nat
    BY <1>3 DEF PushPending
  <2> QED BY <1>1, <2>1, DropOverFacts
<1> QED BY <1>2, <1>3

LEMMA PushOverlapFacts ==
  ASSUME NEW b \in Buffer, b.bytes = Samples(b.chunks), b.bytes <= OverlapTarget, NEW n \in 1..MaxChunk
  PROVE  /\ PushOverlap(b, n) \in Buffer
         /\ PushOverlap(b, n).bytes = Samples(PushOverlap(b, n).chunks)
         /\ PushOverlap(b, n).bytes <= OverlapTarget
<1>1. Push(b, n) \in Buffer /\ Push(b, n).bytes = Samples(Push(b, n).chunks)
  BY PushFacts
<1>2. OverlapTarget \in Nat
  OBVIOUS
<1> QED BY <1>1, <1>2, DropOverFacts DEF PushOverlap

\* Handing a chunk over: the queue keeps its kind, its ends and its count.
LEMMA AppendEffect ==
  ASSUME queue \in Seq(Nat), total \in Nat, NEW n \in 1..MaxChunk, Room, AppendToVllm(n)
  PROVE  /\ queue' \in Seq(Nat) /\ total' \in Nat /\ Len(queue') <= MaxItems
         /\ Ends(queue') = Ends(queue)
         /\ "put" \notin Puts /\ total <= Samples(queue) => total' <= Samples(queue')
<1>1. PICK how \in Puts :
        LET after == DropOldest(Append(queue, n), total + CountedAs(how, n))
        IN queue' = after.queue /\ total' = after.total
  BY DEF AppendToVllm
<1> DEFINE q == Append(queue, n)
           t == total + CountedAs(how, n)
<1>2. n \in Nat /\ n # Sentinel /\ CountedAs(how, n) \in Nat /\ t \in Nat
  BY DEF Sentinel, CountedAs
<1>3. q \in Seq(Nat) /\ Len(q) = Len(queue) + 1 /\ Len(queue) \in Nat
  BY <1>2, AppendProperties, LenProperties
<1>4. Ends(q) = Ends(queue)
  BY <1>2, EndsAppend
<1>5. "put" \notin Puts /\ total <= Samples(queue) => t <= Samples(q)
  <2>1. queue \in Seq(Int) /\ n \in Int
    BY <1>2, SeqMonotonic
  <2>2. Samples(q) = Samples(queue) + n /\ Samples(queue) \in Int
    BY <2>1, SeqSumAppend, SeqSum DEF Samples
  <2>3. "put" \notin Puts => CountedAs(how, n) = n
    BY DEF CountedAs
  <2> HIDE DEF q
  <2> QED BY <1>2, <2>2, <2>3
<1>6. Len(queue) < MaxItems
  BY DEF Room
<1>7. queue' = DropOldest(q, t).queue /\ total' = DropOldest(q, t).total
  BY <1>1
<1> HIDE DEF q, t
<1>8. /\ DropOldest(q, t).queue \in Seq(Nat) /\ DropOldest(q, t).total \in Nat
      /\ Len(DropOldest(q, t).queue) <= Len(q)
      /\ Ends(DropOldest(q, t).queue) = Ends(q)
      /\ t <= Samples(q) => DropOldest(q, t).total <= Samples(DropOldest(q, t).queue)
  BY <1>2, <1>3, DropOldestKeeps
<1>9. Len(queue') \in Nat
  BY <1>7, <1>8, LenProperties
<1> QED BY <1>3, <1>4, <1>5, <1>6, <1>7, <1>8, <1>9

LEMMA HeadTail ==
  ASSUME NEW s \in Seq(1..MaxChunk), s # <<>>
  PROVE  /\ Head(s) \in 1..MaxChunk /\ Tail(s) \in Seq(1..MaxChunk)
         /\ Samples(s) = Head(s) + Samples(Tail(s))
         /\ Samples(Tail(s)) \in Nat
<1>1. Head(s) \in 1..MaxChunk /\ Tail(s) \in Seq(1..MaxChunk)
  BY HeadTailProperties
<1>2. s \in Seq(Int) /\ Tail(s) \in Seq(Nat)
  BY <1>1, ChunksAreNat
<1> QED BY <1>1, <1>2, SeqSumTail, SeqSumNat DEF Samples

\* Going on with a replay: the next chunk is handed over, or none is left.
LEMMA ReplayEffect ==
  ASSUME queue \in Seq(Nat), total \in Nat, Len(queue) <= MaxItems,
         NEW rest \in Seq(1..MaxChunk), ReplayRest(rest)
  PROVE  /\ queue' \in Seq(Nat) /\ total' \in Nat /\ Len(queue') <= MaxItems
         /\ Ends(queue') = Ends(queue)
         /\ "put" \notin Puts /\ total <= Samples(queue) => total' <= Samples(queue')
<1>1. CASE rest = <<>>
  BY <1>1 DEF ReplayRest
<1>2. CASE rest # <<>>
  <2>1. Head(rest) \in 1..MaxChunk /\ Room /\ AppendToVllm(Head(rest))
    BY <1>2, HeadTail DEF ReplayRest
  <2> QED BY <2>1, AppendEffect
<1> QED BY <1>1, <1>2

\* The newest chunks handed over, with one more.
LEMMA FedFacts ==
  ASSUME NEW s \in Seq(1..MaxChunk), s # <<>>
  PROVE  /\ Min({OverlapTarget, Len(s) - 1}) \in 0..Len(s) - 1
         /\ Min({OverlapTarget, Len(s) - 1}) = IF OverlapTarget <= Len(s) - 1 THEN OverlapTarget ELSE Len(s) - 1
         /\ SubSeq(s, Len(s) - Min({OverlapTarget, Len(s) - 1}), Len(s)) \in Seq(1..MaxChunk)
<1> DEFINE m == Min({OverlapTarget, Len(s) - 1})
<1>1. Len(s) \in Nat /\ Len(s) # 0 /\ OverlapTarget \in Nat
  BY LenProperties, EmptySeq
<1>2. {OverlapTarget, Len(s) - 1} \subseteq Nat
  BY <1>1
<1>3. m \in {OverlapTarget, Len(s) - 1} /\ m <= OverlapTarget /\ m <= Len(s) - 1
  BY <1>2, MinFacts
<1> HIDE DEF m
<1>4. m \in 0..Len(s) - 1 /\ m = IF OverlapTarget <= Len(s) - 1 THEN OverlapTarget ELSE Len(s) - 1
  BY <1>1, <1>3
<1>5. Len(s) - m \in 1..Len(s) + 1 /\ Len(s) \in 0..Len(s)
  BY <1>1, <1>4
<1>6. SubSeq(s, Len(s) - m, Len(s)) \in Seq(1..MaxChunk)
  BY <1>5, SubSeqFacts
<1> QED BY <1>4, <1>6 DEF m

LEMMA PathInit == Init => PathInv
<1> SUFFICES ASSUME Init PROVE PathInv
  OBVIOUS
<1> USE DEF Init, QueueInit
<1>1. <<>> \in Seq(Nat) /\ <<>> \in Seq(1..MaxChunk) /\ Len(<<>>) = 0
  BY EmptySeq
<1>2. TypeOK
  <2>1. queue \in Seq(Nat) /\ total \in Nat /\ Len(queue) <= MaxItems
    BY <1>1
  <2>2. pending \in Buffer /\ overlap \in Buffer /\ segment \in Nat
    BY EmptyFacts
  <2>3. /\ open \in BOOLEAN /\ finalize \in BOOLEAN /\ feed \in FeedStates
        /\ gen \in BOOLEAN /\ handed \in Nat
    BY DEF FeedStates
  <2>4. chunk \in Seq(1..MaxChunk) /\ (chunk # <<>> <=> feed \in {"handing", "replay"})
        /\ fed \in Seq(1..MaxChunk)
    BY <1>1
  <2> QED BY <2>1, <2>2, <2>3, <2>4 DEF TypeOK, QueueTypeOK
<1>3. BuffersCounted
  BY EmptyFacts DEF BuffersCounted
<1>4. Shape
  BY DEF Shape
<1> QED BY <1>2, <1>3, <1>4 DEF PathInv

LEMMA PathStep == PathInv /\ [Next]_vars => PathInv'
<1> SUFFICES ASSUME PathInv, [Next]_vars PROVE PathInv'
  OBVIOUS
<1> USE DEF PathInv
<1>1. /\ queue \in Seq(Nat) /\ total \in Nat /\ Len(queue) <= MaxItems
      /\ pending \in Buffer /\ overlap \in Buffer /\ segment \in Nat
      /\ open \in BOOLEAN /\ finalize \in BOOLEAN /\ feed \in FeedStates
      /\ chunk \in Seq(1..MaxChunk) /\ (chunk # <<>> <=> feed \in {"handing", "replay"})
      /\ gen \in BOOLEAN /\ handed \in Nat /\ fed \in Seq(1..MaxChunk)
  BY DEF TypeOK, QueueTypeOK
<1>2. /\ pending.bytes = Samples(pending.chunks) /\ overlap.bytes = Samples(overlap.chunks)
      /\ MaxBacklog > 0 => pending.bytes <= MaxBacklog
      /\ overlap.bytes <= OverlapTarget
  BY DEF BuffersCounted
<1>3. <<>> \in Seq(Nat) /\ <<>> \in Seq(1..MaxChunk) /\ Len(<<>>) = 0 /\ Len(queue) \in Nat
  BY <1>1, EmptySeq, LenProperties
<1>4. Shape
  OBVIOUS
<1> USE DEF TypeOK, QueueTypeOK, FeedStates, BuffersCounted, buffers, history
\* The buffers emptied, wherever the feeder is.
<1>5. ASSUME ResetAudioState
      PROVE  /\ pending' = Empty /\ overlap' = Empty /\ segment' = 0 /\ finalize' = FALSE
             /\ handed' = 0 /\ fed' \in Seq(1..MaxChunk) /\ BuffersCounted'
  <2>1. /\ pending' = Empty /\ overlap' = Empty /\ segment' = 0 /\ finalize' = FALSE
        /\ handed' = 0 /\ fed' = IF feed = "handing" THEN chunk ELSE <<>>
    BY <1>5 DEF ResetAudioState
  <2>2. fed' \in Seq(1..MaxChunk)
    BY <1>1, <1>3, <2>1
  <2> QED BY <2>1, <2>2, EmptyFacts
<1>6. CASE Start
  <2>1. /\ pending' = Empty /\ overlap' = Empty /\ segment' = 0 /\ finalize' = FALSE
        /\ handed' = 0 /\ fed' \in Seq(1..MaxChunk) /\ BuffersCounted'
    BY <1>5, <1>6 DEF Start
  <2>2. /\ queue' = queue /\ total' = total /\ open' = TRUE /\ gen' = TRUE /\ chunk' = chunk
        /\ feed' = IF feed = "idle" THEN "drain" ELSE feed
    BY <1>6 DEF Start
  <2>3. TypeOK'
    BY <1>1, <2>1, <2>2, EmptyFacts
  <2>4. Shape'
    BY <1>4, <2>1, <2>2 DEF Shape
  <2> QED BY <2>1, <2>3, <2>4
<1>7. CASE ClientAppend
  <2>1. PICK n \in 1..MaxChunk : pending' = PushPending(pending, n)
    BY <1>7 DEF ClientAppend
  <2>2. /\ pending' \in Buffer /\ pending'.bytes = Samples(pending'.chunks)
        /\ MaxBacklog > 0 => pending'.bytes <= MaxBacklog
    BY <1>1, <1>2, <2>1, PushPendingFacts
  <2> QED BY <1>1, <1>2, <1>4, <1>7, <2>2 DEF ClientAppend, Shape
<1>8. CASE ClientFinal
  BY <1>1, <1>2, <1>4, <1>8 DEF ClientFinal, Shape
<1>9. CASE Cancel
  <2>1. queue' = <<>> /\ total' \in Nat
    <3>1. Samples(queue) \in Nat
      BY <1>1, SeqSumNat DEF Samples
    <3> QED BY <1>1, <1>9, <3>1 DEF Cancel, DrainQueue, Clamp
  <2>2. /\ pending' = Empty /\ overlap' = Empty /\ segment' = 0 /\ finalize' = FALSE
        /\ handed' = 0 /\ fed' \in Seq(1..MaxChunk) /\ BuffersCounted'
    BY <1>5, <1>9 DEF Cancel
  <2>3. open' = FALSE /\ feed' = "idle" /\ chunk' = <<>> /\ gen' = FALSE
    BY <1>9 DEF Cancel
  <2>4. TypeOK'
    <3>1. queue' \in Seq(Nat) /\ Len(queue') <= MaxItems /\ total' \in Nat
      BY <1>3, <2>1
    <3>2. pending' \in Buffer /\ overlap' \in Buffer
      BY <2>2, EmptyFacts
    <3>3. chunk' \in Seq(1..MaxChunk)
      BY <1>3, <2>3
    <3> QED BY <2>2, <2>3, <3>1, <3>2, <3>3
  <2>5. Shape'
    BY <2>2, <2>3 DEF Shape
  <2> QED BY <2>2, <2>4, <2>5
<1>10. CASE FeedHand
  <2> DEFINE n == Head(pending.chunks)
             all == Append(fed, n)
  <2>1. /\ pending' = Pop(pending) /\ Room /\ AppendToVllm(n) /\ handed' = handed + n
        /\ chunk' = <<n>> /\ feed' = "handing"
        /\ fed' = SubSeq(all, Len(all) - Min({OverlapTarget, Len(all) - 1}), Len(all))
        /\ pending.chunks # <<>>
        /\ UNCHANGED <<overlap, segment, finalize, open, gen>>
    BY <1>10 DEF FeedHand, HandOver
  <2>2. /\ Pop(pending) \in Buffer /\ Pop(pending).bytes = Samples(Pop(pending).chunks)
        /\ n \in 1..MaxChunk /\ pending.bytes = n + Pop(pending).bytes
    BY <1>1, <1>2, <2>1, PopFacts
  <2> HIDE DEF n
  <2>3. queue' \in Seq(Nat) /\ total' \in Nat /\ Len(queue') <= MaxItems
    BY <1>1, <2>1, <2>2, AppendEffect
  <2>4. fed' \in Seq(1..MaxChunk) /\ chunk' \in Seq(1..MaxChunk) /\ chunk' # <<>>
    <3>1. all \in Seq(1..MaxChunk) /\ all # <<>>
      <4>1. fed \in Seq(1..MaxChunk) /\ n \in 1..MaxChunk
        BY <1>1, <2>2
      <4>2. all \in Seq(1..MaxChunk)
        BY <4>1, AppendProperties
      <4>3. Len(all) = Len(fed) + 1 /\ Len(fed) \in Nat
        BY <4>1, AppendProperties, LenProperties
      <4> HIDE DEF all
      <4>4. all # <<>>
        BY <1>3, <4>3
      <4> QED BY <4>2, <4>4
    <3> HIDE DEF all
    <3>2. <<n>> \in Seq(1..MaxChunk) /\ <<n>> # <<>>
      BY <2>2
    <3> QED BY <2>1, <3>1, <3>2, FedFacts
  <2>5. MaxBacklog > 0 => Pop(pending).bytes <= MaxBacklog
    <3>1. Pop(pending).bytes \in Nat /\ pending.bytes \in Nat
      BY <1>1, <2>2 DEF Buffer
    <3> QED BY <1>2, <2>2, <3>1
  <2>6. handed' \in Nat
    BY <1>1, <2>1, <2>2
  <2>7. Shape'
    BY <1>4, <2>1, <2>2 DEF Shape
  <2> QED BY <1>1, <1>2, <2>1, <2>2, <2>3, <2>4, <2>5, <2>6, <2>7
<1>11. CASE FeedCount
  <2>1. PICK n \in 1..MaxChunk : chunk = <<n>>
    BY <1>4, <1>11 DEF FeedCount, Shape
  <2>2. /\ overlap' \in Buffer /\ overlap'.bytes = Samples(overlap'.chunks)
        /\ overlap'.bytes <= OverlapTarget /\ segment' \in Nat
    BY <1>1, <1>2, <1>11, <2>1, PushOverlapFacts DEF FeedCount
  <2>3. /\ queue' \in Seq(Nat) /\ total' \in Nat /\ Len(queue') <= MaxItems
        /\ feed' \in {"roll", "rolled", "drain"}
    <3>1. CASE ~finalize /\ Rolls(segment')
      <4>1. Room /\ feed' = Awaiting("roll") /\ CommitFinal
        BY <1>11, <3>1 DEF FeedCount
      <4>2. Append(queue, Sentinel) \in Seq(Nat) /\ Len(Append(queue, Sentinel)) = Len(queue) + 1
        BY <1>1, AppendProperties DEF Sentinel
      <4> QED BY <1>1, <1>3, <4>1, <4>2 DEF Room, CommitFinal, Awaiting, Released
    <3>2. CASE ~(~finalize /\ Rolls(segment'))
      BY <1>1, <1>11, <3>2 DEF FeedCount
    <3> QED BY <3>1, <3>2
  <2> QED BY <1>1, <1>2, <1>3, <1>4, <1>11, <2>2, <2>3 DEF FeedCount, Shape
\* A replay begins or goes on.
<1>12. ASSUME NEW rest \in Seq(1..MaxChunk), ReplayRest(rest), segment' \in Nat, handed' \in Nat, gen' \in BOOLEAN
       PROVE  PathInv'
  <2>1. /\ chunk' = rest /\ feed' = (IF rest # <<>> THEN "replay" ELSE "drain")
        /\ UNCHANGED <<pending, overlap, finalize, open, fed>>
    BY <1>12 DEF ReplayRest
  <2>2. queue' \in Seq(Nat) /\ total' \in Nat /\ Len(queue') <= MaxItems
    BY <1>1, <1>12, ReplayEffect
  <2>3. TypeOK'
    BY <1>1, <1>12, <2>1, <2>2
  <2>4. BuffersCounted'
    BY <1>2, <2>1
  <2>5. Shape'
    BY <1>4, <2>1 DEF Shape
  <2> QED BY <2>3, <2>4, <2>5
<1>13. CASE FeedRollDone
  <2>1. overlap.chunks \in Seq(1..MaxChunk)
    BY <1>1 DEF Buffer
  <2>2. overlap.chunks # <<>> => Head(overlap.chunks) \in Nat
    BY <2>1, HeadTail
  <2>3. ReplayRest(overlap.chunks) /\ segment' \in Nat /\ handed' \in Nat /\ gen' \in BOOLEAN
    BY <1>13, <2>2 DEF FeedRollDone
  <2> QED BY <1>12, <2>1, <2>3
<1>14. CASE FeedReplay
  <2>1. chunk # <<>>
    BY <1>1, <1>14 DEF FeedReplay
  <2>2. Head(chunk) \in 1..MaxChunk /\ Tail(chunk) \in Seq(1..MaxChunk)
    BY <1>1, <2>1, HeadTail
  <2> DEFINE h == Head(chunk)
             r == Tail(chunk)
             g == Head(r)
  <2>3. /\ ReplayRest(r) /\ segment' = segment + h /\ gen' = gen
        /\ handed' = IF r = <<>> THEN handed ELSE handed + g
    BY <1>14 DEF FeedReplay, ReplayedAs
  <2>4. h \in Nat /\ r \in Seq(1..MaxChunk)
    BY <2>2
  <2> HIDE DEF h, r
  <2>5. r # <<>> => g \in Nat
    BY <2>4, HeadTailProperties
  <2> HIDE DEF g
  <2>6. segment' \in Nat /\ handed' \in Nat /\ gen' \in BOOLEAN
    BY <1>1, <2>3, <2>4, <2>5
  <2> QED BY <1>12, <2>3, <2>4, <2>6
<1>15. CASE FeedFinalize
  <2>1. Append(queue, Sentinel) \in Seq(Nat) /\ Len(Append(queue, Sentinel)) = Len(queue) + 1
    BY <1>1, AppendProperties DEF Sentinel
  <2>2. queue' \in Seq(Nat) /\ Len(queue') <= MaxItems
    BY <1>3, <1>15, <2>1 DEF FeedFinalize, Room, CommitFinal
  <2>3. feed = "drain" /\ feed' \in {"finish", "finished"}
    BY <1>15 DEF FeedFinalize, Awaiting, Released
  <2> QED BY <1>1, <1>2, <1>4, <1>15, <2>2, <2>3 DEF FeedFinalize, CommitFinal, Shape
<1>16. CASE FeedFinalizeDone
  <2>1. /\ pending' = Empty /\ overlap' = Empty /\ segment' = 0 /\ finalize' = FALSE
        /\ handed' = 0 /\ fed' \in Seq(1..MaxChunk) /\ BuffersCounted'
    BY <1>5, <1>16 DEF FeedFinalizeDone
  <2>2. feed = "finished" /\ feed' = "idle" /\ UNCHANGED <<queue, total, open, chunk, gen>>
    BY <1>16 DEF FeedFinalizeDone
  <2>3. TypeOK'
    BY <1>1, <2>1, <2>2, EmptyFacts
  <2>4. Shape'
    BY <2>1, <2>2 DEF Shape
  <2> QED BY <2>1, <2>3, <2>4
\* A generation that ends releases the feeder that awaits it.
<1>17. ASSUME feed' \in {feed, Released(feed)}, gen' \in BOOLEAN,
              queue' \in Seq(Nat), total' \in Nat, Len(queue') <= MaxItems,
              UNCHANGED <<buffers, open, chunk, history>>
       PROVE  PathInv'
  <2>1. feed' \in FeedStates /\ \A f \in {"handing", "replay"} : feed' = f <=> feed = f
    BY <1>1, <1>17 DEF Released
  <2>2. TypeOK'
    BY <1>1, <1>17, <2>1
  <2>3. BuffersCounted'
    BY <1>2, <1>17
  <2>4. Shape'
    BY <1>4, <1>17, <2>1 DEF Shape
  <2> QED BY <2>2, <2>3, <2>4
<1>18. CASE GenGet
  <2>1. /\ queue # <<>> /\ queue' = Tail(queue) /\ total' = TakenByGet(total, Head(queue))
        /\ feed' \in {feed, Released(feed)} /\ gen' \in BOOLEAN
        /\ UNCHANGED <<buffers, open, chunk, history>>
    BY <1>1, <1>18 DEF GenGet, Get, GenEnds
  <2>2. Head(queue) \in Nat /\ Tail(queue) \in Seq(Nat) /\ Len(Tail(queue)) = Len(queue) - 1
    BY <1>1, <2>1, HeadTailProperties
  <2>3. TakenByGet(total, Head(queue)) \in Nat
    BY <1>1, <2>2 DEF TakenByGet, Clamp
  <2>4. Len(queue') <= MaxItems
    BY <1>1, <1>3, <2>1, <2>2
  <2> QED BY <1>17, <2>1, <2>2, <2>3, <2>4
<1>19. CASE GenFails
  BY <1>1, <1>17, <1>19 DEF GenFails, GenEnds
<1>20. CASE UNCHANGED vars
  BY <1>1, <1>17, <1>20 DEF vars
<1> QED BY <1>6, <1>7, <1>8, <1>9, <1>10, <1>11, <1>13, <1>14, <1>15, <1>16, <1>18, <1>19, <1>20
        DEF Next, Client, Feeder

LEMMA PathAlways == Spec => []PathInv
BY PathInit, PathStep, PTL DEF Spec

\* Every variable keeps its type: chunks stay within the client's longest, the
\* queue within its bound, the counts never go below zero.
THEOREM AudioTypeCorrect == Spec => []TypeOK
BY PathAlways, PTL DEF PathInv

\* The counts that adapter.py keeps beside its two buffers are the sizes of
\* what they hold, and keep to their limits, whatever the chunks' sizes.
THEOREM BuffersCountedAlways == Spec => []BuffersCounted
BY PathAlways, PTL DEF PathInv

\* The queue in the steps that hand audio over.
LEMMA HandingEffect ==
  ASSUME PathInv, FeedHand \/ FeedRollDone \/ FeedReplay
  PROVE  /\ Ends(queue') = Ends(queue)
         /\ "put" \notin Puts /\ total <= Samples(queue) => total' <= Samples(queue')
<1>1. /\ queue \in Seq(Nat) /\ total \in Nat /\ Len(queue) <= MaxItems
      /\ chunk \in Seq(1..MaxChunk) /\ overlap.chunks \in Seq(1..MaxChunk)
      /\ feed = "replay" => chunk # <<>>
  BY DEF PathInv, TypeOK, QueueTypeOK, Buffer
<1>2. CASE FeedHand
  <2>1. pending.chunks # <<>> /\ Room /\ AppendToVllm(Head(pending.chunks))
    BY <1>2 DEF FeedHand, HandOver
  <2>2. Head(pending.chunks) \in 1..MaxChunk
    BY <2>1, PopFacts DEF PathInv, TypeOK, BuffersCounted
  <2> QED BY <1>1, <2>1, <2>2, AppendEffect
<1>3. CASE FeedRollDone
  <2>1. ReplayRest(overlap.chunks)
    BY <1>3 DEF FeedRollDone
  <2> QED BY <1>1, <2>1, ReplayEffect
<1>4. CASE FeedReplay
  <2>1. ReplayRest(Tail(chunk)) /\ Tail(chunk) \in Seq(1..MaxChunk)
    BY <1>1, <1>4, HeadTail DEF FeedReplay
  <2> QED BY <1>1, <2>1, ReplayEffect
<1> QED BY <1>2, <1>3, <1>4

\* Handing audio over, in a drain or a replay, drops no end of a stream, at
\* any backlog and whichever of its methods vLLM enqueues with.
THEOREM EndSurvivesAlways == Spec => EndSurvives
<1>1. PathInv /\ [Next]_vars => [FeedHand \/ FeedRollDone \/ FeedReplay => Ends(queue') = Ends(queue)]_vars
  <2> SUFFICES ASSUME PathInv, FeedHand \/ FeedRollDone \/ FeedReplay PROVE Ends(queue') = Ends(queue)
    OBVIOUS
  <2> QED BY HandingEffect
<1> QED BY <1>1, PathAlways, PTL DEF Spec, EndSurvives
-----------------------------------------------------------------------------
(* The queue's count.                                                        *)

LEMMA CommitKeepsSamples ==
  ASSUME queue \in Seq(Nat), CommitFinal
  PROVE  total' = total /\ Samples(queue') = Samples(queue)
<1>1. queue \in Seq(Int) /\ Sentinel \in Int
  BY SeqMonotonic DEF Sentinel
<1>2. SumFunction(Append(queue, Sentinel)) = SumFunction(queue) + Sentinel /\ SumFunction(queue) \in Int
  BY <1>1, SeqSumAppend, SeqSum
<1> QED BY <1>2 DEF CommitFinal, Samples, Sentinel

LEMMA NeverOverCountsStep ==
  ASSUME "put" \notin Puts
  PROVE  PathInv /\ NeverOverCounts /\ [Next]_vars => NeverOverCounts'
<1> SUFFICES ASSUME PathInv, NeverOverCounts, [Next]_vars PROVE NeverOverCounts'
  OBVIOUS
<1> USE DEF NeverOverCounts
<1>1. queue \in Seq(Nat) /\ total \in Nat
  BY DEF PathInv, TypeOK, QueueTypeOK
<1>2. Samples(queue) \in Nat
  BY <1>1, SeqSumNat DEF Samples
<1>3. CASE queue' = queue /\ total' = total
  BY <1>3
<1>4. CASE Cancel
  <2>1. queue' = <<>> /\ total' = 0
    BY <1>1, <1>2, <1>4 DEF Cancel, DrainQueue, Clamp
  <2> QED BY <2>1, SeqSumEmpty DEF Samples
<1>5. CASE FeedHand \/ FeedRollDone \/ FeedReplay
  BY <1>5, HandingEffect
<1>6. CASE CommitFinal
  BY <1>1, <1>6, CommitKeepsSamples
<1>7. CASE GenGet
  <2>1. queue # <<>> /\ queue' = Tail(queue) /\ total' = TakenByGet(total, Head(queue))
    BY <1>7 DEF GenGet, Get
  <2>2. Head(queue) \in Nat /\ Tail(queue) \in Seq(Nat)
    BY <1>1, <2>1, HeadTailProperties
  <2>3. Samples(queue) = Head(queue) + Samples(Tail(queue)) /\ Samples(Tail(queue)) \in Nat
    <3>1. queue \in Seq(Int)
      BY <1>1, SeqMonotonic
    <3> QED BY <2>1, <2>2, <3>1, SeqSumTail, SeqSumNat DEF Samples
  <2>4. TakenByGet(total, Head(queue)) <= Samples(Tail(queue))
    BY <1>1, <2>2, <2>3 DEF TakenByGet, Clamp
  <2> QED BY <2>1, <2>4
<1>8. \/ queue' = queue /\ total' = total
      \/ Cancel \/ FeedHand \/ FeedRollDone \/ FeedReplay \/ CommitFinal \/ GenGet
  BY DEF Next, Client, Feeder, vars, Start, ClientAppend, ClientFinal, FeedCount, FeedFinalize, FeedFinalizeDone, GenFails
<1> QED BY <1>3, <1>4, <1>5, <1>6, <1>7, <1>8

\* The count of _TrackedAudioQueue never exceeds the samples it holds, as long
\* as vLLM enqueues with put_nowait() alone: put() would count a chunk twice.
THEOREM NeverOverCountsAlways ==
  ASSUME "put" \notin Puts
  PROVE  Spec => []NeverOverCounts
<1>1. Init => NeverOverCounts
  BY SeqSumEmpty DEF Init, QueueInit, NeverOverCounts, Samples
<1>2. PathInv /\ NeverOverCounts /\ [Next]_vars => NeverOverCounts'
  BY NeverOverCountsStep
<1> QED BY <1>1, <1>2, PathAlways, PTL DEF Spec
-----------------------------------------------------------------------------
(* The overlap.                                                              *)

\* o is the longest end of s within the overlap's limit.
NewestOf(o, s) ==
  \E i \in 1..Len(s) + 1 :
    /\ o = SubSeq(s, i, Len(s)) /\ Samples(o) <= OverlapTarget
    /\ i > 1 => Samples(SubSeq(s, i - 1, Len(s))) > OverlapTarget

\* Between handing a chunk over and counting it, the overlap is the newest of
\* what went before that chunk.
OverlapInv ==
  /\ feed \notin {"idle", "handing"} => NewestOf(overlap.chunks, fed)
  /\ feed = "handing" => /\ fed # <<>> /\ chunk = <<fed[Len(fed)]>>
                         /\ NewestOf(overlap.chunks, SubSeq(fed, 1, Len(fed) - 1))

\* A longer end of a sequence has no fewer samples.
LEMMA EndsGrow ==
  ASSUME NEW s \in Seq(Nat), NEW i \in 1..Len(s) + 1, NEW j \in 1..i
  PROVE  /\ Samples(SubSeq(s, i, Len(s))) \in Nat /\ Samples(SubSeq(s, j, Len(s))) \in Nat
         /\ Samples(SubSeq(s, i, Len(s))) <= Samples(SubSeq(s, j, Len(s)))
<1>1. Len(s) \in Nat
  BY LenProperties
<1>2. j \in 1..Len(s) + 1 /\ Len(s) \in j - 1..Len(s) /\ i - 1 \in j - 1..Len(s) /\ (i - 1) + 1 = i
  BY <1>1
<1>3. /\ SumFunction(SubSeq(s, j, Len(s)))
           = SumFunction(SubSeq(s, j, i - 1)) + SumFunction(SubSeq(s, (i - 1) + 1, Len(s)))
      /\ SumFunction(SubSeq(s, j, Len(s))) \in Nat
      /\ SumFunction(SubSeq(s, j, i - 1)) \in Nat /\ SumFunction(SubSeq(s, (i - 1) + 1, Len(s))) \in Nat
  BY <1>2, SumWindow
<1> DEFINE a == SumFunction(SubSeq(s, j, Len(s)))
           b == SumFunction(SubSeq(s, j, i - 1))
           c == SumFunction(SubSeq(s, i, Len(s)))
<1>4. a = b + c /\ a \in Nat /\ b \in Nat /\ c \in Nat
  BY <1>2, <1>3
<1>5. c <= a
  <2> HIDE DEF a, b, c
  <2> QED BY <1>4
<1> QED BY <1>4, <1>5 DEF Samples

LEMMA NewestOfIsNewestWithin ==
  ASSUME NEW s \in Seq(Nat), NEW o, NewestOf(o, s)
  PROVE  o = NewestWithin(s, OverlapTarget)
<1> DEFINE T == {i \in 1..Len(s) + 1 : Samples(SubSeq(s, i, Len(s))) <= OverlapTarget}
<1>1. PICK i \in 1..Len(s) + 1 :
        /\ o = SubSeq(s, i, Len(s)) /\ Samples(o) <= OverlapTarget
        /\ i > 1 => Samples(SubSeq(s, i - 1, Len(s))) > OverlapTarget
  BY DEF NewestOf
<1>2. Len(s) \in Nat
  BY LenProperties
<1>3. i \in T /\ T \subseteq Nat
  BY <1>1
<1>4. ASSUME NEW j \in T PROVE i <= j
  <2> SUFFICES ASSUME j < i PROVE FALSE
    BY <1>2, <1>4
  <2>1. i - 1 \in 1..Len(s) + 1 /\ j \in 1..i - 1 /\ i > 1
    BY <1>2, <1>4
  <2>2. Samples(SubSeq(s, i - 1, Len(s))) <= Samples(SubSeq(s, j, Len(s)))
    BY <2>1, EndsGrow
  <2>3. Samples(SubSeq(s, i - 1, Len(s))) \in Nat /\ Samples(SubSeq(s, j, Len(s))) \in Nat
    BY <2>1, EndsGrow
  <2>4. Samples(SubSeq(s, j, Len(s))) <= OverlapTarget
    BY <1>4
  <2> QED BY <1>1, <2>1, <2>2, <2>3, <2>4
<1> HIDE DEF T
<1>5. Min(T) = i
  <2>1. Min(T) \in T /\ Min(T) <= i
    BY <1>3, MinFacts
  <2>2. i <= Min(T) /\ Min(T) \in Nat /\ i \in Nat
    BY <1>3, <1>4, <2>1
  <2> QED BY <2>1, <2>2
<1> QED BY <1>1, <1>5 DEF NewestWithin, T

LEMMA LastOfSeq ==
  ASSUME NEW S, NEW s \in Seq(S), s # <<>>
  PROVE  /\ SubSeq(s, 1, Len(s) - 1) \in Seq(S) /\ Len(SubSeq(s, 1, Len(s) - 1)) = Len(s) - 1
         /\ s[Len(s)] \in S
         /\ s = Append(SubSeq(s, 1, Len(s) - 1), s[Len(s)])
<1>1. Len(s) \in Nat \ {0}
  BY EmptySeq
<1>2. 1 \in 1..Len(s) + 1 /\ Len(s) - 1 \in 0..Len(s) /\ Len(s) \in 1..Len(s)
  BY <1>1
<1>3. SubSeq(s, 1, Len(s) - 1) \in Seq(S) /\ Len(SubSeq(s, 1, Len(s) - 1)) = Len(s) - 1 /\ s[Len(s)] \in S
  <2>1. s[Len(s)] \in S
    BY <1>2, ElementOfSeq
  <2>2. /\ SubSeq(s, 1, Len(s) - 1) \in Seq(S)
        /\ Len(SubSeq(s, 1, Len(s) - 1)) = IF 1 <= Len(s) - 1 THEN Len(s) - 1 - 1 + 1 ELSE 0
    BY <1>2, SubSeqFacts
  <2> DEFINE u == SubSeq(s, 1, Len(s) - 1)
  <2>3. u \in Seq(S) /\ Len(u) = IF 1 <= Len(s) - 1 THEN Len(s) - 1 - 1 + 1 ELSE 0
    BY <2>2
  <2> HIDE DEF u
  <2>4. Len(u) = Len(s) - 1
    <3> DEFINE l == Len(s)
               v == Len(u)
    <3>1. l \in Nat \ {0} /\ v = IF 1 <= l - 1 THEN l - 1 - 1 + 1 ELSE 0
      BY <1>1, <2>3
    <3> HIDE DEF l, v
    <3>2. v = l - 1
      BY <3>1
    <3> QED BY <3>2 DEF l, v
  <2> QED BY <2>1, <2>3, <2>4 DEF u
<1>4. s = SubSeq(s, 1, Len(s) - 1) \o <<s[Len(s)]>>
  <2>1. 1 \in 1..Len(s) /\ Len(s) \in 1..Len(s)
    BY <1>1
  <2> QED BY <2>1, SubSeqRecursiveSecond, SubSeqFull
<1> QED BY <1>3, <1>4, AppendIsConcat

\* Counting a chunk keeps the overlap the newest audio.
LEMMA NewestOfPush ==
  ASSUME NEW s \in Seq(1..MaxChunk), s # <<>>,
         NEW b \in Buffer, b.bytes = Samples(b.chunks),
         NewestOf(b.chunks, SubSeq(s, 1, Len(s) - 1))
  PROVE  NewestOf(PushOverlap(b, s[Len(s)]).chunks, s)
<1> DEFINE n == s[Len(s)]
           L == Len(s)
           f == SubSeq(s, 1, L - 1)
           p == Push(b, n)
<1>1. f \in Seq(1..MaxChunk) /\ Len(f) = L - 1 /\ n \in 1..MaxChunk /\ s = Append(f, n)
  BY LastOfSeq
<1>2. L \in Nat \ {0} /\ OverlapTarget \in Nat
  BY EmptySeq
<1>3. p \in Buffer /\ p.bytes = Samples(p.chunks) /\ p.chunks = Append(b.chunks, n)
  BY <1>1, PushFacts
<1> HIDE DEF n, f, p, L
<1>4. PICK i \in 1..L :
        /\ b.chunks = SubSeq(f, i, L - 1) /\ Samples(b.chunks) <= OverlapTarget
        /\ i > 1 => Samples(SubSeq(f, i - 1, L - 1)) > OverlapTarget
  <2>1. NewestOf(b.chunks, f)
    BY DEF f, L
  <2>2. Len(f) = L - 1 /\ Len(f) + 1 = L
    BY <1>1, <1>2
  <2>3. \E i \in 1..Len(f) + 1 :
          /\ b.chunks = SubSeq(f, i, Len(f)) /\ Samples(b.chunks) <= OverlapTarget
          /\ i > 1 => Samples(SubSeq(f, i - 1, Len(f))) > OverlapTarget
    BY <2>1 DEF NewestOf
  <2> QED BY <2>2, <2>3
\* An end of s is one of f with n behind it.
<1>5. ASSUME NEW j \in 1..L
      PROVE  /\ SubSeq(s, j, L) = Append(SubSeq(f, j, L - 1), n)
             /\ Samples(SubSeq(s, j, L)) = Samples(SubSeq(f, j, L - 1)) + n
             /\ Samples(SubSeq(f, j, L - 1)) \in Nat
  <2>1. j \in 1..Len(f) + 1 /\ Len(f) \in 0..Len(f) /\ Len(f) + 1 = L
    BY <1>1, <1>2
  <2>2. SubSeq(s, j, L) = Append(SubSeq(f, j, L - 1), n)
    <3>1. SubSeq(Append(f, n), j, Len(f) + 1) = Append(SubSeq(f, j, Len(f)), n)
      BY <1>1, <2>1, SubSeqAppend
    <3> QED BY <1>1, <2>1, <3>1
  <2>3. SubSeq(f, j, L - 1) \in Seq(1..MaxChunk)
    BY <1>1, <2>1, SubSeqFacts
  <2>4. SubSeq(f, j, L - 1) \in Seq(Int) /\ SubSeq(f, j, L - 1) \in Seq(Nat) /\ n \in Int
    BY <1>1, <2>3, ChunksAreNat
  <2> QED BY <2>2, <2>4, SeqSumAppend, SeqSumNat DEF Samples
<1>6. p.chunks = SubSeq(s, i, L)
  BY <1>3, <1>4, <1>5
<1>7. CASE OverlapTarget = 0
  <2>1. PushOverlap(b, n).chunks = b.chunks
    BY <1>7 DEF PushOverlap
  <2>2. b.chunks = <<>>
    <3>1. b.chunks \in Seq(Nat \ {0}) /\ b.chunks \in Seq(1..MaxChunk)
      BY ChunksAreNat DEF Buffer
    <3>2. Len(b.chunks) <= 0 /\ Len(b.chunks) \in Nat
      <4>1. Len(b.chunks) <= SumFunction(b.chunks)
        BY <3>1, LenWithinSum
      <4>2. SumFunction(b.chunks) <= 0 /\ SumFunction(b.chunks) \in Nat
        BY <1>4, <1>7 DEF Buffer, Samples
      <4> QED BY <3>1, <4>1, <4>2, LenProperties
    <3> QED BY <3>1, <3>2, EmptySeq
  <2>3. SubSeq(s, L + 1, L) = <<>> /\ L + 1 \in 1..L + 1
    <3>1. L + 1 \in Int /\ L \in Int /\ L < L + 1
      BY <1>2
    <3> QED BY <1>2, <3>1, SubSeqEmpty
  <2>4. Samples(SubSeq(s, L, L)) > OverlapTarget
    BY <1>1, <1>2, <1>5, <1>7
  <2>5. Samples(<<>>) <= OverlapTarget
    BY <1>2, SeqSumEmpty DEF Samples
  <2>6. (L + 1) - 1 = L
    BY <1>2
  <2> QED BY <2>1, <2>2, <2>3, <2>4, <2>5, <2>6 DEF NewestOf, n, L
<1>8. CASE OverlapTarget # 0
  <2>1. PushOverlap(b, n).chunks = DropOver(p, OverlapTarget).chunks
    BY <1>8 DEF PushOverlap, p
  <2>2. PICK k \in 0..Len(p.chunks) :
          /\ DropOver(p, OverlapTarget).chunks = SubSeq(p.chunks, k + 1, Len(p.chunks))
          /\ k > 0 => Samples(SubSeq(p.chunks, k, Len(p.chunks))) > OverlapTarget
    BY <1>2, <1>3, DropOverFacts
  <2>3. Samples(DropOver(p, OverlapTarget).chunks) <= OverlapTarget
    BY <1>2, <1>3, DropOverFacts
  <2>4. Len(p.chunks) = L - i + 1
    <3>1. i \in 1..L + 1 /\ L \in 0..L
      BY <1>2
    <3> QED BY <1>2, <1>6, <3>1, SubSeqFacts DEF L
  \* Ends of the pushed overlap are ends of s.
  <2>5. ASSUME NEW j \in 1..L - i + 2 PROVE SubSeq(p.chunks, j, Len(p.chunks)) = SubSeq(s, i + j - 1, L)
    <3>1. i - 1 \in 0..L /\ (i - 1) + 1 = i /\ j \in 1..L - (i - 1) + 1 /\ L - i + 1 \in 0..L - (i - 1)
          /\ (i - 1) + j = i + j - 1 /\ (i - 1) + (L - i + 1) = L
      BY <1>2
    <3>2. SubSeq(SubSeq(s, (i - 1) + 1, L), j, L - i + 1) = SubSeq(s, (i - 1) + j, (i - 1) + (L - i + 1))
      BY <3>1, SubSeqShift DEF L
    <3> QED BY <1>6, <2>4, <3>1, <3>2
  <2>6. k \in 0..L - i + 1 /\ k + 1 \in 1..L - i + 2 /\ i + (k + 1) - 1 = i + k /\ i + k \in 1..L + 1
    BY <1>2, <2>2, <2>4
  <2>7. DropOver(p, OverlapTarget).chunks = SubSeq(s, i + k, L)
    BY <2>2, <2>5, <2>6
  <2>8. ASSUME i + k > 1 PROVE Samples(SubSeq(s, i + k - 1, L)) > OverlapTarget
    <3>1. CASE k > 0
      <4>1. k \in 1..L - i + 2
        BY <1>2, <2>6, <3>1
      <4> QED BY <2>2, <2>5, <3>1, <4>1
    <3>2. CASE k = 0
      <4>1. i > 1 /\ i - 1 \in 1..L /\ i + k - 1 = i - 1
        BY <1>2, <2>8, <3>2
      <4>2. Samples(SubSeq(s, i - 1, L)) = Samples(SubSeq(f, i - 1, L - 1)) + n
            /\ Samples(SubSeq(f, i - 1, L - 1)) \in Nat
        BY <1>5, <4>1
      <4> QED BY <1>1, <1>2, <1>4, <4>1, <4>2
    <3> QED BY <2>6, <3>1, <3>2
  <2> QED BY <2>1, <2>3, <2>6, <2>7, <2>8 DEF NewestOf, n, L
<1> QED BY <1>7, <1>8 DEF n

\* Forgetting chunks too old to be in any overlap changes nothing.
LEMMA NewestOfTrim ==
  ASSUME NEW f \in Seq(1..MaxChunk), NEW o, NewestOf(o, f), NEW n \in 1..MaxChunk,
         NEW m \in 0..Len(f), m = OverlapTarget \/ (m = Len(f) /\ m <= OverlapTarget)
  PROVE  LET t == SubSeq(Append(f, n), Len(f) + 1 - m, Len(f) + 1)
         IN t # <<>> /\ t[Len(t)] = n /\ NewestOf(o, SubSeq(t, 1, Len(t) - 1))
<1> DEFINE L == Len(f)
           all == Append(f, n)
           a == L + 1 - m
           b == L + 1
           t == SubSeq(all, a, b)
           g == SubSeq(f, a, L)
<1>1. L \in Nat /\ OverlapTarget \in Nat
  BY LenProperties
<1>2. all \in Seq(1..MaxChunk) /\ Len(all) = b /\ all[b] = n
  BY AppendProperties
<1>4. m \in 0..L /\ (m = OverlapTarget \/ (m = L /\ m <= OverlapTarget))
  OBVIOUS
<1> HIDE DEF L
<1>5. /\ a \in Nat /\ b \in Nat /\ b = L + 1 /\ a = L + 1 - m /\ a \in 1..b /\ b - a + 1 = m + 1
      /\ a + (m + 1) - 1 = b /\ a = (L - m) + 1 /\ a \in 1..L + 1
  BY <1>1, <1>4
<1> HIDE DEF a, b, t, g, all
<1>6. t \in Seq(1..MaxChunk) /\ Len(t) = m + 1 /\ t[m + 1] = n
  <2>1. a \in 1..Len(all) + 1 /\ b \in 0..Len(all)
    <3>1. a \in Nat /\ 1 <= a /\ a <= b /\ b \in Nat
      BY <1>5
    <3>2. a \in 1..b + 1 /\ b \in 0..b
      BY <3>1
    <3> QED BY <1>2, <3>2
  <2>2. /\ t \in Seq(1..MaxChunk)
        /\ Len(t) = IF a <= b THEN b - a + 1 ELSE 0
        /\ \A j \in 1..b - a + 1 : t[j] = all[a + j - 1]
    BY <1>2, <2>1, SubSeqFacts DEF t
  <2>3. a <= b /\ m + 1 \in 1..b - a + 1
    BY <1>1, <1>4, <1>5
  <2>4. t[m + 1] = all[b]
    BY <1>5, <2>2, <2>3
  <2> QED BY <1>2, <1>5, <2>2, <2>3, <2>4
<1>7. g \in Seq(1..MaxChunk) /\ Len(g) = m
  <2>1. a \in 1..Len(f) + 1 /\ L \in 0..Len(f)
    BY <1>1, <1>5 DEF L
  <2>2. g \in Seq(1..MaxChunk) /\ Len(g) = IF a <= L THEN L - a + 1 ELSE 0
    BY <2>1, SubSeqFacts DEF g
  <2> QED BY <1>1, <1>4, <1>5, <2>2
<1>8. SubSeq(t, 1, m) = g
  <2>1. L - m \in 0..Len(all) /\ (L - m) + 1 = a /\ 1 \in 1..Len(all) - (L - m) + 1
        /\ m \in 0..Len(all) - (L - m) /\ (L - m) + m = L
    BY <1>1, <1>2, <1>4, <1>5
  <2>2. SubSeq(SubSeq(all, (L - m) + 1, Len(all)), 1, m) = SubSeq(all, (L - m) + 1, (L - m) + m)
    BY <1>2, <2>1, SubSeqShift
  <2>3. SubSeq(t, 1, m) = SubSeq(all, a, L)
    BY <1>2, <2>1, <2>2 DEF t
  <2>4. a \in 1..Len(f) + 1 /\ L \in 0..Len(f)
    BY <1>1, <1>5 DEF L
  <2>5. SubSeq(all, a, L) = SubSeq(f, a, L)
    BY <2>4, SubSeqAppend DEF all
  <2> QED BY <2>3, <2>5 DEF g
<1>9. PICK i \in 1..L + 1 :
        /\ o = SubSeq(f, i, L) /\ Samples(o) <= OverlapTarget
        /\ i > 1 => Samples(SubSeq(f, i - 1, L)) > OverlapTarget
  BY DEF NewestOf, L
<1>10. L - i + 1 <= m
  <2>1. i \in 1..L + 1 /\ L \in 0..L
    BY <1>1
  <2>2. o \in Seq(1..MaxChunk) /\ Len(o) = IF i <= L THEN L - i + 1 ELSE 0
    <3> DEFINE u == SubSeq(f, i, L)
    <3>1. i \in 1..Len(f) + 1 /\ L \in 0..Len(f)
      BY <2>1 DEF L
    <3>2. u \in Seq(1..MaxChunk) /\ Len(u) = IF i <= L THEN L - i + 1 ELSE 0
      BY <3>1, SubSeqFacts
    <3> HIDE DEF u
    <3> QED BY <1>9, <3>2 DEF u
  <2>3. Len(o) <= SumFunction(o) /\ SumFunction(o) \in Nat
    BY <2>2, ChunksAreNat, LenWithinSum, SeqSumNat
  <2>4. SumFunction(o) <= OverlapTarget
    BY <1>9 DEF Samples
  <2> QED BY <1>1, <1>4, <2>1, <2>2, <2>3, <2>4
<1> DEFINE h == i - (L - m)
<1>11. h \in 1..m + 1 /\ (L - m) + h = i /\ (h > 1 => i > 1)
  BY <1>1, <1>4, <1>10
\* Ends of g are ends of f.
<1>12. ASSUME NEW j \in 1..m + 1 PROVE SubSeq(g, j, m) = SubSeq(f, (L - m) + j, L)
  <2>1. L - m \in 0..L /\ (L - m) + 1 = a /\ j \in 1..L - (L - m) + 1 /\ m \in 0..L - (L - m)
        /\ (L - m) + m = L
    BY <1>1, <1>4, <1>5
  <2>2. SubSeq(SubSeq(f, (L - m) + 1, L), j, m) = SubSeq(f, (L - m) + j, (L - m) + m)
    BY <2>1, SubSeqShift DEF L
  <2> QED BY <2>1, <2>2 DEF g
<1>13. o = SubSeq(g, h, m)
  BY <1>9, <1>11, <1>12
<1>14. ASSUME h > 1 PROVE Samples(SubSeq(g, h - 1, m)) > OverlapTarget
  <2>1. h - 1 \in 1..m + 1 /\ (L - m) + (h - 1) = i - 1
    BY <1>1, <1>4, <1>11, <1>14
  <2> HIDE DEF h
  <2> QED BY <1>9, <1>11, <1>12, <1>14, <2>1
<1> HIDE DEF h
<1>15. NewestOf(o, g)
  BY <1>7, <1>9, <1>11, <1>13, <1>14 DEF NewestOf
<1>16. Len(t) - 1 = m /\ t # <<>>
  <2>1. Len(t) - 1 = m /\ Len(t) # 0
    BY <1>1, <1>4, <1>6
  <2> QED BY <2>1
<1>17. t # <<>> /\ t[Len(t)] = n /\ NewestOf(o, SubSeq(t, 1, Len(t) - 1))
  BY <1>6, <1>8, <1>15, <1>16
<1> QED BY <1>17 DEF t, a, b, L, all

LEMMA OverlapStep == PathInv /\ OverlapInv /\ [Next]_vars => OverlapInv'
<1> SUFFICES ASSUME PathInv, OverlapInv, [Next]_vars PROVE OverlapInv'
  OBVIOUS
<1>1. /\ pending \in Buffer /\ pending.bytes = Samples(pending.chunks)
      /\ overlap \in Buffer /\ overlap.bytes = Samples(overlap.chunks)
      /\ fed \in Seq(1..MaxChunk) /\ feed \in FeedStates
      /\ feed = "handing" => \E n \in 1..MaxChunk : chunk = <<n>>
  BY DEF PathInv, TypeOK, BuffersCounted, Shape
<1>2. CASE Start
  <2>1. /\ overlap'.chunks = <<>> /\ feed' = (IF feed = "idle" THEN "drain" ELSE feed) /\ chunk' = chunk
        /\ fed' = IF feed = "handing" THEN chunk ELSE <<>>
    BY <1>2, EmptyFacts DEF Start, ResetAudioState
  <2>2. NewestOf(<<>>, <<>>)
    <3>1. 1 \in 1..Len(<<>>) + 1 /\ SubSeq(<<>>, 1, Len(<<>>)) = <<>>
      BY SubSeqEmpty
    <3>2. Samples(<<>>) <= OverlapTarget
      BY SeqSumEmpty DEF Samples
    <3> QED BY <3>1, <3>2 DEF NewestOf
  <2>3. CASE feed = "handing"
    <3>1. PICK n \in 1..MaxChunk : chunk = <<n>>
      BY <1>1, <2>3
    <3>2. feed' = "handing" /\ fed' = <<n>> /\ chunk' = <<n>>
      BY <2>1, <2>3, <3>1
    <3>3. Len(<<n>>) = 1 /\ <<n>> # <<>> /\ <<n>>[1] = n
      OBVIOUS
    <3>4. SubSeq(<<n>>, 1, 0) = <<>>
      BY SubSeqEmpty
    <3>5. fed' # <<>> /\ chunk' = <<fed'[Len(fed')]>> /\ SubSeq(fed', 1, Len(fed') - 1) = <<>>
      BY <3>2, <3>3, <3>4
    <3> QED BY <2>1, <2>2, <3>2, <3>5 DEF OverlapInv
  <2>4. CASE feed # "handing"
    BY <2>1, <2>2, <2>4 DEF OverlapInv
  <2> QED BY <2>3, <2>4
<1>3. CASE /\ chunk' = chunk /\ overlap' = overlap /\ fed' = fed
           /\ feed' = feed \/ (feed \notin {"idle", "handing"} /\ feed' # "handing")
  BY <1>3 DEF OverlapInv
<1>4. CASE feed' = "idle"
  BY <1>4 DEF OverlapInv
<1>5. CASE FeedHand
  <2> DEFINE n == Head(pending.chunks)
             all == Append(fed, n)
             m == Min({OverlapTarget, Len(all) - 1})
  <2>1. /\ pending.chunks # <<>> /\ feed = "drain" /\ feed' = "handing" /\ chunk' = <<n>>
        /\ fed' = SubSeq(all, Len(all) - m, Len(all)) /\ overlap' = overlap
    BY <1>5 DEF FeedHand
  <2>2. n \in 1..MaxChunk
    BY <1>1, <2>1, PopFacts
  <2> HIDE DEF n
  <2>3. all \in Seq(1..MaxChunk) /\ Len(all) = Len(fed) + 1 /\ Len(fed) \in Nat
    BY <1>1, <2>2, AppendProperties, LenProperties
  <2>4. /\ m \in 0..Len(all) - 1
        /\ m = IF OverlapTarget <= Len(all) - 1 THEN OverlapTarget ELSE Len(all) - 1
    <3>1. all # <<>>
      <4> HIDE DEF all
      <4> QED BY <2>3
    <3> HIDE DEF all
    <3> QED BY <2>3, <3>1, FedFacts
  <2> HIDE DEF m
  <2>5. m \in 0..Len(fed) /\ (m = OverlapTarget \/ (m = Len(fed) /\ m <= OverlapTarget))
    <3> HIDE DEF all
    <3>1. Len(all) - 1 = Len(fed)
      BY <2>3
    <3>2. m \in 0..Len(fed) /\ m = IF OverlapTarget <= Len(fed) THEN OverlapTarget ELSE Len(fed)
      BY <2>4, <3>1
    <3> QED BY <2>3, <3>2
  <2>6. fed' = SubSeq(all, Len(fed) + 1 - m, Len(fed) + 1)
    <3> DEFINE l == Len(all)
    <3>1. fed' = SubSeq(all, l - m, l) /\ l = Len(fed) + 1
      BY <2>1, <2>3
    <3> HIDE DEF all, l
    <3> QED BY <2>3, <2>5, <3>1
  <2>7. NewestOf(overlap.chunks, fed)
    BY <2>1 DEF OverlapInv
  <2>8. fed' # <<>> /\ fed'[Len(fed')] = n /\ NewestOf(overlap.chunks, SubSeq(fed', 1, Len(fed') - 1))
    BY <1>1, <2>2, <2>5, <2>6, <2>7, NewestOfTrim
  <2> QED BY <2>1, <2>8 DEF OverlapInv
<1>6. CASE FeedCount
  <2>1. feed = "handing" /\ overlap' = PushOverlap(overlap, chunk[1]) /\ fed' = fed
        /\ feed' # "handing"
    BY <1>6 DEF FeedCount, Awaiting, Released, history
  <2>2. fed # <<>> /\ chunk = <<fed[Len(fed)]>> /\ NewestOf(overlap.chunks, SubSeq(fed, 1, Len(fed) - 1))
    BY <2>1 DEF OverlapInv
  <2>3. NewestOf(PushOverlap(overlap, fed[Len(fed)]).chunks, fed)
    BY <1>1, <2>2, NewestOfPush
  <2>4. chunk[1] = fed[Len(fed)]
    BY <2>2
  <2> QED BY <2>1, <2>3, <2>4 DEF OverlapInv
<1>7. CASE FeedRollDone \/ FeedReplay
  <2>1. feed \notin {"idle", "handing"} /\ feed' # "handing" /\ overlap' = overlap /\ fed' = fed
    BY <1>7 DEF FeedRollDone, FeedReplay, ReplayRest
  <2> QED BY <2>1 DEF OverlapInv
<1>8. CASE FeedFinalize \/ GenGet \/ GenFails
  <2>1. /\ chunk' = chunk /\ overlap' = overlap /\ fed' = fed
        /\ feed' = feed \/ (feed \notin {"idle", "handing"} /\ feed' # "handing")
    BY <1>8 DEF FeedFinalize, GenGet, GenFails, GenEnds, Awaiting, Released, buffers, history
  <2> QED BY <1>3, <2>1
<1>9. CASE ClientAppend \/ ClientFinal \/ UNCHANGED vars
  BY <1>3, <1>9 DEF ClientAppend, ClientFinal, vars, buffers, history
<1>10. CASE Cancel \/ FeedFinalizeDone
  BY <1>4, <1>10 DEF Cancel, FeedFinalizeDone
<1> QED BY <1>2, <1>5, <1>6, <1>7, <1>8, <1>9, <1>10 DEF Next, Client, Feeder

\* Whatever was dropped from the pending buffer or the queue, and wherever the
\* feeder was when an utterance started, a roll replays exactly the newest audio
\* counted since then, as much as the overlap may hold.
THEOREM OverlapIsNewestAlways == Spec => []OverlapIsNewest
<1>1. Init => OverlapInv
  BY DEF Init, OverlapInv
<1>2. PathInv /\ OverlapInv /\ [Next]_vars => OverlapInv'
  BY OverlapStep
<1>3. PathInv /\ OverlapInv => OverlapIsNewest
  <2> SUFFICES ASSUME PathInv, OverlapInv, feed \notin {"idle", "handing"}
               PROVE  overlap.chunks = NewestWithin(fed, OverlapTarget)
    BY DEF OverlapIsNewest
  <2>1. fed \in Seq(Nat)
    BY ChunksAreNat DEF PathInv, TypeOK
  <2> QED BY <2>1, NewestOfIsNewestWithin DEF OverlapInv
<1> QED BY <1>1, <1>2, <1>3, PathAlways, PTL DEF Spec
-----------------------------------------------------------------------------
(* What the feeder hands over in one segment.                                *)

Filling == Max({SegmentTarget - 1, OverlapTarget})
Filler  == Min({MaxChunk, MaxBacklog})

\* How far a segment may grow: before its last chunk, with it, and with the
\* tail that the final commit no longer lets roll.
Limits ==
  /\ feed \in {"drain", "handing"} /\ ~finalize => segment <= Filling
  /\ feed = "handing" => chunk[1] <= Filler
  /\ feed = "drain" /\ finalize => segment + pending.bytes <= Longest
  /\ feed = "handing" /\ finalize => segment + chunk[1] + pending.bytes <= Longest
  /\ feed = "replay" => segment + Samples(chunk) <= OverlapTarget

\* What was handed over is counted, or in the feeder's hand.
HandedInv ==
  /\ feed = "drain" => handed <= segment
  /\ feed = "handing" => handed <= segment + chunk[1]
  /\ feed = "replay" => handed <= segment + Head(chunk)
  /\ handed <= Longest

SegmentInv == Limits /\ HandedInv

LEMMA LongestFacts ==
  /\ Filling \in Nat /\ Filling >= SegmentTarget - 1 /\ Filling >= OverlapTarget
  /\ Filler \in Nat /\ Filler <= MaxBacklog
  /\ \A n \in 1..MaxChunk : n <= MaxBacklog => n <= Filler
  /\ Longest = Filling + Filler + MaxBacklog /\ Longest \in Nat
<1>1. {SegmentTarget - 1, OverlapTarget} \subseteq Nat /\ {MaxChunk, MaxBacklog} \subseteq Nat
  OBVIOUS
<1>2. Filling \in Nat /\ Filling >= SegmentTarget - 1 /\ Filling >= OverlapTarget
  <2>1. \A y \in {SegmentTarget - 1, OverlapTarget} : y <= SegmentTarget + OverlapTarget
    OBVIOUS
  <2>2. SegmentTarget + OverlapTarget \in Nat
    OBVIOUS
  <2>3. /\ Max({SegmentTarget - 1, OverlapTarget}) \in {SegmentTarget - 1, OverlapTarget}
        /\ \A y \in {SegmentTarget - 1, OverlapTarget} : Max({SegmentTarget - 1, OverlapTarget}) >= y
    BY <1>1, <2>1, <2>2, MaxFacts
  <2> QED BY <1>1, <2>3 DEF Filling
<1>3. Filler \in {MaxChunk, MaxBacklog} /\ Filler <= MaxChunk /\ Filler <= MaxBacklog
  BY <1>1, MinFacts DEF Filler
<1>4. Longest = Filling + Filler + MaxBacklog
  BY DEF Longest, Filling, Filler
<1> QED BY <1>2, <1>3, <1>4

LEMMA SegmentStep ==
  ASSUME MaxBacklog > 0
  PROVE  PathInv /\ SegmentInv /\ [Next]_vars => SegmentInv'
<1> SUFFICES ASSUME PathInv, SegmentInv, [Next]_vars PROVE SegmentInv'
  OBVIOUS
<1> USE DEF SegmentInv
<1>1. /\ segment \in Nat /\ pending \in Buffer /\ pending.bytes \in Nat /\ pending.bytes <= MaxBacklog
      /\ pending.bytes = Samples(pending.chunks) /\ handed \in Nat
      /\ overlap.bytes = Samples(overlap.chunks) /\ overlap.bytes <= OverlapTarget /\ overlap.bytes \in Nat
      /\ overlap.chunks \in Seq(1..MaxChunk)
      /\ chunk \in Seq(1..MaxChunk) /\ finalize \in BOOLEAN /\ feed \in FeedStates
      /\ feed = "handing" => chunk[1] \in 1..MaxChunk
      /\ feed = "replay" => chunk # <<>>
      /\ finalize => ~open
  BY DEF PathInv, TypeOK, BuffersCounted, Shape, Buffer
<1>2. Filling \in Nat /\ Filler \in Nat /\ Longest \in Nat /\ Longest = Filling + Filler + MaxBacklog
      /\ OverlapTarget <= Filling /\ SegmentTarget - 1 <= Filling
  BY LongestFacts
<1>3. feed = "replay" => /\ Head(chunk) \in Nat /\ Samples(Tail(chunk)) \in Nat
                         /\ Samples(chunk) = Head(chunk) + Samples(Tail(chunk))
  BY <1>1, HeadTail
<1>4. CASE Start
  <2>1. /\ segment' = 0 /\ finalize' = FALSE /\ handed' = 0 /\ chunk' = chunk
        /\ feed' = IF feed = "idle" THEN "drain" ELSE feed
    BY <1>4 DEF Start, ResetAudioState
  <2>2. Limits'
    <3>1. feed = "replay" => segment' + Samples(chunk) <= OverlapTarget
      BY <1>1, <1>3, <2>1 DEF Limits
    <3> QED BY <1>1, <1>2, <2>1, <3>1 DEF Limits
  <2>3. HandedInv'
    BY <1>1, <1>2, <1>3, <2>1 DEF HandedInv
  <2> QED BY <2>2, <2>3
<1>5. CASE ClientAppend
  <2>1. finalize = FALSE
    BY <1>1, <1>5 DEF ClientAppend
  <2>2. UNCHANGED <<segment, finalize, feed, chunk, handed>>
    BY <1>5 DEF ClientAppend, history
  <2> QED BY <2>1, <2>2 DEF Limits, HandedInv
<1>6. CASE ClientFinal
  <2>1. finalize = FALSE
    BY <1>1, <1>6 DEF ClientFinal
  <2>2. UNCHANGED <<pending, segment, feed, chunk, handed>>
    BY <1>6 DEF ClientFinal, history
  <2> QED BY <1>1, <1>2, <2>1, <2>2 DEF Limits, HandedInv
<1>7. ASSUME feed' \notin {"drain", "handing", "replay"}, handed' = handed \/ handed' = 0 PROVE SegmentInv'
  BY <1>2, <1>7 DEF Limits, HandedInv
<1>8. CASE FeedHand
  <2> DEFINE n == Head(pending.chunks)
  <2>1. /\ feed = "drain" /\ pending.chunks # <<>> /\ pending' = Pop(pending)
        /\ chunk' = <<n>> /\ feed' = "handing" /\ segment' = segment /\ finalize' = finalize
        /\ handed' = handed + n
    BY <1>8 DEF FeedHand, HandOver
  <2>2. n \in 1..MaxChunk /\ pending.bytes = n + pending'.bytes /\ pending'.bytes \in Nat
    BY <1>1, <2>1, PopFacts DEF Buffer
  <2> HIDE DEF n
  <2>3. chunk'[1] = n /\ n <= MaxBacklog
    BY <1>1, <2>1, <2>2
  <2>4. n <= Filler
    BY <2>2, <2>3, LongestFacts
  <2>5. finalize => segment + n + pending'.bytes <= Longest
    BY <1>1, <2>1, <2>2, <2>3 DEF Limits
  <2>6. ~finalize => segment <= Filling
    BY <2>1 DEF Limits
  <2>7. Limits'
    BY <2>1, <2>3, <2>4, <2>5, <2>6 DEF Limits
  <2>8. handed <= segment
    BY <2>1 DEF HandedInv
  <2>9. handed' <= segment + n
    BY <1>1, <2>1, <2>2, <2>8
  <2>10. segment + n <= Longest
    <3>1. CASE finalize
      <4> DEFINE p == pending'.bytes
      <4>1. segment + n + p <= Longest /\ p \in Nat /\ n \in Nat
        BY <2>2, <2>5, <3>1
      <4> HIDE DEF p
      <4> QED BY <1>1, <1>2, <4>1
    <3>2. CASE ~finalize
      BY <1>1, <1>2, <2>2, <2>4, <2>6, <3>2
    <3> QED BY <3>1, <3>2
  <2>11. handed' <= Longest
    BY <1>1, <1>2, <2>1, <2>2, <2>9, <2>10
  <2> QED BY <2>1, <2>3, <2>7, <2>9, <2>11 DEF HandedInv
<1>9. CASE FeedCount
  <2>1. /\ feed = "handing" /\ segment' = segment + chunk[1] /\ finalize' = finalize /\ pending' = pending
        /\ feed' \in {"roll", "rolled", "drain"} /\ handed' = handed
        /\ feed' = "drain" => finalize \/ ~Rolls(segment')
    BY <1>9 DEF FeedCount, Awaiting, Released, history
  <2>2. ~Rolls(segment') => segment' <= Filling
    BY <1>1, <1>2, <2>1 DEF Rolls
  <2>3. Limits'
    BY <1>1, <2>1, <2>2 DEF Limits
  <2>4. HandedInv'
    BY <2>1 DEF HandedInv
  <2> QED BY <2>3, <2>4
<1>10. CASE FeedRollDone
  <2>1. /\ segment' = 0 /\ chunk' = overlap.chunks /\ finalize' = finalize /\ pending' = pending
        /\ feed' = (IF overlap.chunks # <<>> THEN "replay" ELSE "drain")
        /\ handed' = IF overlap.chunks = <<>> THEN 0 ELSE Head(overlap.chunks)
    BY <1>10 DEF FeedRollDone, ReplayRest
  <2>2. overlap.chunks # <<>> => /\ Head(overlap.chunks) \in Nat
                                 /\ Head(overlap.chunks) <= overlap.bytes
    <3> DEFINE h == Head(overlap.chunks)
               r == Samples(Tail(overlap.chunks))
    <3> SUFFICES ASSUME overlap.chunks # <<>> PROVE h \in Nat /\ h <= overlap.bytes
      OBVIOUS
    <3>1. h \in 1..MaxChunk /\ r \in Nat /\ Samples(overlap.chunks) = h + r
      BY <1>1, HeadTail
    <3> HIDE DEF h, r
    <3> QED BY <1>1, <3>1
  <2>3. Limits'
    BY <1>1, <1>2, <2>1 DEF Limits
  <2>4. HandedInv'
    BY <1>1, <1>2, <2>1, <2>2 DEF HandedInv
  <2> QED BY <2>3, <2>4
<1>11. CASE FeedReplay
  <2> DEFINE h == Head(chunk)
             r == Tail(chunk)
             g == Head(r)
             t == Samples(Tail(r))
  <2>1. /\ feed = "replay" /\ segment' = segment + h /\ chunk' = r
        /\ finalize' = finalize /\ pending' = pending
        /\ feed' = (IF r # <<>> THEN "replay" ELSE "drain")
        /\ handed' = IF r = <<>> THEN handed ELSE handed + g
    BY <1>11 DEF FeedReplay, ReplayRest, ReplayedAs
  <2>2. segment + Samples(chunk) <= OverlapTarget /\ handed <= segment + h
    BY <2>1 DEF Limits, HandedInv
  <2>3. /\ h \in Nat /\ r \in Seq(1..MaxChunk) /\ Samples(r) \in Nat
        /\ Samples(chunk) = h + Samples(r)
    <3>1. chunk \in Seq(1..MaxChunk) /\ chunk # <<>>
      BY <1>1, <2>1
    <3>2. h \in 1..MaxChunk /\ r \in Seq(1..MaxChunk) /\ Samples(r) \in Nat
          /\ Samples(chunk) = h + Samples(r)
      BY <3>1, HeadTail
    <3> HIDE DEF h, r
    <3> QED BY <3>2
  <2> HIDE DEF h, r
  <2>4. r # <<>> => g \in Nat /\ t \in Nat /\ Samples(r) = g + t
    <3> SUFFICES ASSUME r # <<>> PROVE g \in Nat /\ t \in Nat /\ Samples(r) = g + t
      OBVIOUS
    <3>1. g \in 1..MaxChunk /\ t \in Nat /\ Samples(r) = g + t
      BY <2>3, HeadTail
    <3> HIDE DEF g, t
    <3> QED BY <3>1
  <2>5. chunk' = r /\ Head(chunk') = g
    BY <2>1
  <2> HIDE DEF g, t
  <2>6. segment' + Samples(r) <= OverlapTarget /\ segment' <= OverlapTarget /\ segment' \in Nat
    <3> DEFINE w == Samples(r)
               c == Samples(chunk)
               u == segment'
    <3>1. segment \in Nat /\ OverlapTarget \in Nat
      BY <1>1
    <3>2. u = segment + h
      BY <2>1
    <3>3. h \in Nat /\ w \in Nat /\ c = h + w /\ segment + c <= OverlapTarget
      BY <2>2, <2>3
    <3> HIDE DEF w, c, u
    <3>4. u + w <= OverlapTarget /\ u <= OverlapTarget /\ u \in Nat
      BY <3>1, <3>2, <3>3
    <3> QED BY <3>4 DEF w, u
  <2>7. Limits'
    <3>1. feed' = "replay" => segment' + Samples(chunk') <= OverlapTarget
      BY <2>1, <2>6
    <3>2. feed' # "handing"
      BY <2>1
    <3>3. segment' <= Filling /\ segment' + pending'.bytes <= Longest
      BY <1>1, <1>2, <2>1, <2>6
    <3> QED BY <3>1, <3>2, <3>3 DEF Limits
  <2>8. CASE r = <<>>
    <3>1. feed' = "drain" /\ handed' <= segment' /\ handed' = handed
      BY <2>1, <2>2, <2>8
    <3> QED BY <2>7, <3>1 DEF HandedInv
  <2>9. CASE r # <<>>
    <3>1. handed' = handed + g /\ feed' = "replay"
      BY <2>1, <2>9
    <3>2. handed' <= segment' + g /\ segment' + g <= OverlapTarget
      <4> DEFINE w == Samples(r)
                 u == segment'
      <4>1. g \in Nat /\ t \in Nat /\ w = g + t /\ u + w <= OverlapTarget /\ u \in Nat
        BY <2>4, <2>6, <2>9
      <4> HIDE DEF w, u
      <4>2. u + g <= OverlapTarget
        BY <4>1
      <4>3. handed' <= segment' + g
        BY <1>1, <2>1, <2>2, <2>3, <2>4, <2>9, <3>1
      <4> QED BY <4>2, <4>3 DEF u
    <3>3. handed' <= Longest
      BY <1>1, <1>2, <2>4, <2>6, <2>9, <3>1, <3>2
    <3> QED BY <2>5, <2>7, <3>1, <3>2, <3>3 DEF HandedInv
  <2> QED BY <2>8, <2>9
<1>12. CASE UNCHANGED <<pending, segment, finalize, feed, chunk, handed>>
  BY <1>12 DEF Limits, HandedInv
<1>13. CASE Cancel \/ FeedFinalize \/ FeedFinalizeDone
  BY <1>7, <1>13 DEF Cancel, FeedFinalize, FeedFinalizeDone, ResetAudioState, Awaiting, Released, history
<1>14. CASE GenGet \/ GenFails
  <2>1. /\ UNCHANGED <<pending, segment, finalize, chunk, handed>>
        /\ feed' = feed \/ feed' \in {"rolled", "finished"}
    BY <1>14 DEF GenGet, GenFails, GenEnds, Released, buffers, history
  <2> QED BY <1>7, <1>12, <2>1
<1>15. CASE UNCHANGED vars
  BY <1>12, <1>15 DEF vars, buffers, history
<1> QED BY <1>4, <1>5, <1>6, <1>8, <1>9, <1>10, <1>11, <1>13, <1>14, <1>15 DEF Next, Client, Feeder

\* The bound on what the feeder hands over in one segment, wherever it was when
\* an utterance started and for any setting: the fullest segment, the chunk that
\* fills it, and the tail that the client's final commit no longer lets roll.
THEOREM SegmentBoundAlways == Spec => []SegmentBound
<1>1. CASE MaxBacklog = 0
  <2>1. SegmentBound
    BY <1>1 DEF SegmentBound
  <2> QED BY <2>1, PTL
<1>2. CASE MaxBacklog # 0
  <2>1. MaxBacklog > 0
    BY <1>2
  <2>2. Init => SegmentInv
    BY LongestFacts DEF Init, QueueInit, SegmentInv, Limits, HandedInv
  <2>3. PathInv /\ SegmentInv /\ [Next]_vars => SegmentInv'
    BY <2>1, SegmentStep
  <2>4. SegmentInv => SegmentBound
    BY DEF SegmentInv, HandedInv, SegmentBound
  <2> QED BY <2>2, <2>3, <2>4, PathAlways, PTL DEF Spec
<1> QED BY <1>1, <1>2
=============================================================================
