-------------------------- MODULE TranscriptProofs --------------------------
(***************************************************************************)
(* Proofs about the text of an utterance, for every alphabet, search       *)
(* window and number of rolls: a delta withholds nothing, the final text   *)
(* is the sum of the tokens, and what deduplication cuts off repeats the   *)
(* end of the text before it.                                              *)
(***************************************************************************)
EXTENDS Transcript, DataLemmas

USE TranscriptAssumption
-----------------------------------------------------------------------------
(* Prefixes and suffixes, by their elements.                                 *)

LEMMA PrefixFacts ==
  ASSUME NEW S, NEW s \in Seq(S), NEW t \in Seq(S)
  PROVE  IsPrefix(s, t) <=> Len(s) <= Len(t) /\ \A m \in 1..Len(s) : s[m] = t[m]
<1>1. Len(s) \in Nat /\ Len(t) \in Nat /\ SubSeq(s, 1, Len(s)) = s
  BY LenProperties, SubSeqFull
<1>2. CASE Len(s) <= Len(t)
  <2> DEFINE u == SubSeq(t, 1, Len(s))
  <2>1. 1 \in 1..Len(t) + 1 /\ Len(s) \in 0..Len(t)
    BY <1>1, <1>2
  <2>2. u \in Seq(S) /\ Len(u) = Len(s) /\ \A m \in 1..Len(s) : u[m] = t[m]
    BY <1>1, <2>1, SubSeqFacts
  <2>3. IsPrefix(s, t) <=> s = u
    BY <1>1, <1>2 DEF IsPrefix
  <2> HIDE DEF u
  <2>4. s = u <=> \A m \in 1..Len(s) : s[m] = t[m]
    BY <2>2, SeqEqual
  <2> QED BY <1>2, <2>3, <2>4
<1>3. CASE ~(Len(s) <= Len(t))
  BY <1>3 DEF IsPrefix
<1> QED BY <1>2, <1>3

LEMMA ReverseFacts ==
  ASSUME NEW S, NEW s \in Seq(S)
  PROVE  /\ Reverse(s) \in Seq(S) /\ Len(Reverse(s)) = Len(s)
         /\ \A m \in 1..Len(s) : Reverse(s)[m] = s[Len(s) - m + 1]
<1>1. Len(s) \in Nat /\ \A m \in 1..Len(s) : s[m] \in S
  BY LenProperties, ElementOfSeq
<1>2. Reverse(s) \in [1..Len(s) -> S]
  <2>1. \A m \in 1..Len(s) : (Len(s) - m) + 1 \in 1..Len(s)
    BY <1>1
  <2> QED BY <1>1, <2>1 DEF Reverse
<1>3. \A m \in 1..Len(s) : Reverse(s)[m] = s[Len(s) - m + 1]
  BY DEF Reverse
<1>4. Reverse(s) \in Seq(S)
  BY <1>1, <1>2, SeqDef
<1>5. DOMAIN Reverse(s) = 1..Len(s) /\ DOMAIN Reverse(s) = 1..Len(Reverse(s)) /\ Len(Reverse(s)) \in Nat
  BY <1>2, <1>4, LenProperties
<1> QED BY <1>1, <1>3, <1>4, <1>5

LEMMA SuffixFacts ==
  ASSUME NEW S, NEW s \in Seq(S), NEW t \in Seq(S)
  PROVE  IsSuffix(s, t)
           <=> Len(s) <= Len(t) /\ \A m \in 1..Len(s) : s[m] = t[Len(t) - Len(s) + m]
<1> DEFINE k == Len(s)
           n == Len(t)
           r == Reverse(s)
           v == Reverse(t)
<1>1. /\ k \in Nat /\ n \in Nat
      /\ r \in Seq(S) /\ Len(r) = k /\ \A m \in 1..k : r[m] = s[k - m + 1]
      /\ v \in Seq(S) /\ Len(v) = n /\ \A m \in 1..n : v[m] = t[n - m + 1]
  BY LenProperties, ReverseFacts
<1>2. IsSuffix(s, t) <=> IsPrefix(r, v)
  BY DEF IsSuffix
<1> HIDE DEF k, n, r, v
<1>3. IsPrefix(r, v) <=> k <= n /\ \A m \in 1..k : r[m] = v[m]
  <2>1. IsPrefix(r, v) <=> Len(r) <= Len(v) /\ \A m \in 1..Len(r) : r[m] = v[m]
    <3>1. r \in Seq(S) /\ v \in Seq(S)
      BY <1>1
    <3> QED BY <3>1, PrefixFacts
  <2> QED BY <1>1, <2>1
<1>4. CASE k <= n
  <2>1. ASSUME \A m \in 1..k : r[m] = v[m], NEW m \in 1..k PROVE s[m] = t[n - k + m]
    <3> DEFINE i == k - m + 1
    <3>1. i \in 1..k /\ i \in 1..n /\ k - i + 1 = m /\ n - i + 1 = n - k + m
      BY <1>1, <1>4
    <3> HIDE DEF i
    <3>2. r[i] = v[i] /\ r[i] = s[k - i + 1] /\ v[i] = t[n - i + 1]
      BY <1>1, <2>1, <3>1
    <3> QED BY <3>1, <3>2
  <2>2. ASSUME \A m \in 1..k : s[m] = t[n - k + m], NEW m \in 1..k PROVE r[m] = v[m]
    <3> DEFINE i == k - m + 1
    <3>1. i \in 1..k /\ m \in 1..n /\ n - k + i = n - m + 1
      BY <1>1, <1>4
    <3>2. r[m] = s[i] /\ v[m] = t[n - m + 1]
      BY <1>1, <3>1
    <3> HIDE DEF i
    <3> QED BY <2>2, <3>1, <3>2
  <2> QED BY <1>3, <1>2, <1>4, <2>1, <2>2 DEF k, n
<1> QED BY <1>2, <1>3, <1>4 DEF k, n

LEMMA SuffixOfSuffix ==
  ASSUME NEW S, NEW s \in Seq(S), NEW t \in Seq(S), NEW u \in Seq(S),
         IsSuffix(s, t), IsSuffix(t, u)
  PROVE  IsSuffix(s, u)
<1> DEFINE a == Len(s)
           b == Len(t)
           c == Len(u)
<1>1. /\ a \in Nat /\ b \in Nat /\ c \in Nat /\ a <= b /\ b <= c
      /\ \A m \in 1..a : s[m] = t[b - a + m]
      /\ \A m \in 1..b : t[m] = u[c - b + m]
  BY LenProperties, SuffixFacts
<1>2. a <= c /\ (\A m \in 1..a : s[m] = u[c - a + m]) => IsSuffix(s, u)
  BY SuffixFacts
<1> HIDE DEF a, b, c
<1>3. ASSUME NEW m \in 1..a PROVE s[m] = u[c - a + m]
  <2> DEFINE i == b - a + m
  <2>1. i \in 1..b /\ c - b + i = c - a + m
    BY <1>1
  <2>2. s[m] = t[i]
    BY <1>1
  <2> HIDE DEF i
  <2> QED BY <1>1, <2>1, <2>2
<1> QED BY <1>1, <1>2, <1>3

LEMMA EmptyIsSuffix ==
  ASSUME NEW S, NEW t \in Seq(S)
  PROVE  IsSuffix(<<>>, t)
<1>1. <<>> \in Seq(S) /\ Len(<<>>) = 0 /\ Len(t) \in Nat
  BY EmptySeq, LenProperties
<1>2. 0 <= Len(t) /\ \A m \in 1..0 : <<>>[m] = t[Len(t) - 0 + m]
  BY <1>1
<1> QED BY <1>1, <1>2, SuffixFacts
-----------------------------------------------------------------------------
(* The parts of a text the transcript is built from.                         *)

LEMMA FromFacts ==
  ASSUME NEW S, NEW s \in Seq(S), NEW n \in Nat
  PROVE  /\ From(s, n) \in Seq(S)
         /\ n <= Len(s) => Len(From(s, n)) = Len(s) - n /\ SubSeq(s, 1, n) \o From(s, n) = s
         /\ \A m \in 1..Len(s) - n : From(s, n)[m] = s[n + m]
<1>1. Len(s) \in Nat /\ \A i \in n + 1..Len(s) : s[i] \in S
  BY LenProperties, ElementOfSeq
<1>2. /\ From(s, n) \in Seq(S)
      /\ Len(From(s, n)) = IF n + 1 <= Len(s) THEN Len(s) - (n + 1) + 1 ELSE 0
      /\ \A m \in 1..Len(s) - (n + 1) + 1 : From(s, n)[m] = s[n + 1 + m - 1]
  BY <1>1, SubSeqProperties DEF From
<1>3. ASSUME NEW m \in 1..Len(s) - n PROVE From(s, n)[m] = s[n + m]
  <2>1. m \in 1..Len(s) - (n + 1) + 1 /\ n + 1 + m - 1 = n + m
    BY <1>1
  <2> QED BY <1>2, <2>1
<1>4. n <= Len(s) => Len(From(s, n)) = Len(s) - n
  BY <1>1, <1>2
<1>5. ASSUME n <= Len(s) PROVE SubSeq(s, 1, n) \o From(s, n) = s
  <2>1. 1 \in 1..Len(s) + 1 /\ n \in 1 - 1..Len(s) /\ Len(s) \in n..Len(s)
    BY <1>1, <1>5
  <2>2. SubSeq(s, 1, n) \o SubSeq(s, n + 1, Len(s)) = SubSeq(s, 1, Len(s))
    BY <2>1, ConcatAdjacentSubSeq
  <2> QED BY <2>2, SubSeqFull DEF From
<1> QED BY <1>2, <1>3, <1>4, <1>5

LEMMA OldestFacts ==
  ASSUME NEW S, NEW s \in Seq(S), NEW n \in Nat
  PROVE  /\ Oldest(s, n) \in Seq(S)
         /\ Len(Oldest(s, n)) = IF Len(s) > n THEN n ELSE Len(s)
         /\ \A m \in 1..Len(Oldest(s, n)) : Oldest(s, n)[m] = s[m]
<1> DEFINE k == IF Len(s) > n THEN n ELSE Len(s)
<1>1. Len(s) \in Nat /\ k \in 0..Len(s) /\ 1 \in 1..Len(s) + 1 /\ k \in Nat
  BY LenProperties
<1>2. Oldest(s, n) = SubSeq(s, 1, k)
  BY DEF Oldest
<1> HIDE DEF k
<1>3. /\ SubSeq(s, 1, k) \in Seq(S) /\ Len(SubSeq(s, 1, k)) = k
      /\ \A m \in 1..k : SubSeq(s, 1, k)[m] = s[m]
  BY <1>1, SubSeqFacts
<1> QED BY <1>2, <1>3 DEF k

LEMMA NewestIsSuffix ==
  ASSUME NEW S, NEW s \in Seq(S), NEW n \in Nat
  PROVE  Newest(s, n) \in Seq(S) /\ IsSuffix(Newest(s, n), s)
<1> DEFINE k == IF Len(s) > n THEN Len(s) - n ELSE 0
           u == From(s, k)
           l == Len(s)
<1>1. l \in Nat /\ k \in Nat /\ k <= l
  BY LenProperties
<1>2. Newest(s, n) = u
  BY DEF Newest
<1> HIDE DEF k
<1>3. u \in Seq(S) /\ Len(u) = l - k /\ \A m \in 1..l - k : u[m] = s[k + m]
  BY <1>1, FromFacts
<1>4. Len(u) <= l /\ (\A m \in 1..Len(u) : u[m] = s[l - Len(u) + m]) => IsSuffix(u, s)
  BY <1>3, SuffixFacts
<1> HIDE DEF u, l
<1>5. Len(u) <= l /\ \A m \in 1..Len(u) : u[m] = s[l - Len(u) + m]
  <2>1. Len(u) <= l /\ l - Len(u) = k
    BY <1>1, <1>3
  <2> QED BY <1>3, <2>1
<1> QED BY <1>2, <1>3, <1>4, <1>5

\* The start of a text does not change when the text grows.
LEMMA OldestGrows ==
  ASSUME NEW S, NEW s \in Seq(S), NEW d \in Seq(S), NEW n \in 0..Len(s)
  PROVE  Oldest(s \o d, n) = Oldest(s, n)
<1>1. Len(s) \in Nat /\ Len(d) \in Nat
  BY LenProperties
<1>2. /\ s \o d \in Seq(S) /\ Len(s \o d) = Len(s) + Len(d)
      /\ \A i \in 1..Len(s) + Len(d) : (s \o d)[i] = IF i <= Len(s) THEN s[i] ELSE d[i - Len(s)]
  BY ConcatProperties
<1> DEFINE a == Oldest(s \o d, n)
           b == Oldest(s, n)
<1>3. /\ a \in Seq(S) /\ Len(a) = n /\ \A m \in 1..n : a[m] = (s \o d)[m]
      /\ b \in Seq(S) /\ Len(b) = n /\ \A m \in 1..n : b[m] = s[m]
  <2>1. /\ a \in Seq(S) /\ Len(a) = (IF Len(s \o d) > n THEN n ELSE Len(s \o d))
        /\ \A m \in 1..Len(a) : a[m] = (s \o d)[m]
    <3>1. s \o d \in Seq(S) /\ n \in Nat
      BY <1>1, <1>2
    <3> HIDE DEF a
    <3>2. \A z \in Seq(S) : /\ Oldest(z, n) \in Seq(S)
                            /\ Len(Oldest(z, n)) = (IF Len(z) > n THEN n ELSE Len(z))
                            /\ \A m \in 1..Len(Oldest(z, n)) : Oldest(z, n)[m] = z[m]
      BY <3>1, OldestFacts
    <3> QED BY <3>1, <3>2 DEF a
  <2>2. /\ b \in Seq(S) /\ Len(b) = (IF Len(s) > n THEN n ELSE Len(s))
        /\ \A m \in 1..Len(b) : b[m] = s[m]
    BY OldestFacts
  <2> HIDE DEF a, b
  <2>3. Len(a) = n /\ Len(b) = n
    BY <1>1, <1>2, <2>1, <2>2
  <2> QED BY <2>1, <2>2, <2>3
<1> HIDE DEF a, b
<1>4. \A m \in 1..n : a[m] = b[m]
  BY <1>1, <1>2, <1>3
<1>5. a = b
  BY <1>3, <1>4, SeqEqual
<1> QED BY <1>5 DEF a, b

LEMMA OldestOfOldest ==
  ASSUME NEW S, NEW s \in Seq(S), NEW n \in Nat, NEW i \in 0..Len(Oldest(s, n))
  PROVE  Oldest(Oldest(s, n), i) = Oldest(s, i) /\ i <= Len(s)
<1> DEFINE o == Oldest(s, n)
           r == From(s, Len(o))
<1>1. o \in Seq(S) /\ Len(o) \in Nat /\ Len(s) \in Nat /\ Len(o) <= Len(s)
  BY OldestFacts, LenProperties
<1>2. r \in Seq(S) /\ SubSeq(s, 1, Len(o)) \o r = s
  BY <1>1, FromFacts
<1>3. SubSeq(s, 1, Len(o)) = o
  BY OldestFacts DEF Oldest
<1> HIDE DEF o, r
<1>4. i \in 0..Len(o)
  BY DEF o
<1>5. Oldest(o \o r, i) = Oldest(o, i)
  BY <1>1, <1>2, <1>4, OldestGrows
<1>6. o \o r = s
  BY <1>2, <1>3
<1>7. i <= Len(s)
  BY <1>1, <1>4
<1> QED BY <1>5, <1>6, <1>7 DEF o

\* A prefix and what comes after it.
LEMMA PrefixAndRest ==
  ASSUME NEW S, NEW s \in Seq(S), NEW t \in Seq(S), IsPrefix(s, t)
  PROVE  s \o From(t, Len(s)) = t
<1>1. Len(s) \in Nat /\ Len(s) <= Len(t) /\ s = SubSeq(t, 1, Len(s))
  BY LenProperties, SubSeqFull DEF IsPrefix
<1>2. SubSeq(t, 1, Len(s)) \o From(t, Len(s)) = t
  BY <1>1, FromFacts
<1> QED BY <1>1, <1>2

LEMMA GrownHasPrefix ==
  ASSUME NEW S, NEW s \in Seq(S), NEW d \in Seq(S)
  PROVE  IsPrefix(s, s \o d)
<1>1. /\ Len(s) \in Nat /\ Len(d) \in Nat
      /\ s \o d \in Seq(S) /\ Len(s \o d) = Len(s) + Len(d)
      /\ \A i \in 1..Len(s) + Len(d) : (s \o d)[i] = IF i <= Len(s) THEN s[i] ELSE d[i - Len(s)]
  BY LenProperties, ConcatProperties
<1>2. Len(s) <= Len(s \o d) /\ \A m \in 1..Len(s) : s[m] = (s \o d)[m]
  BY <1>1
<1> QED BY <1>1, <1>2, PrefixFacts

\* Cutting the same start off a text that grew.
LEMMA FromGrows ==
  ASSUME NEW S, NEW s \in Seq(S), NEW d \in Seq(S), NEW n \in 0..Len(s)
  PROVE  From(s \o d, n) = From(s, n) \o d
<1>1. /\ Len(s) \in Nat /\ Len(d) \in Nat /\ n \in Nat /\ n <= Len(s)
      /\ s \o d \in Seq(S) /\ Len(s \o d) = Len(s) + Len(d)
  BY LenProperties, ConcatProperties
<1>2. n <= Len(s \o d)
  BY <1>1
<1>3. SubSeq(s, 1, n) \o From(s, n) = s /\ From(s, n) \in Seq(S)
  BY <1>1, FromFacts
<1>4. SubSeq(s \o d, 1, n) \o From(s \o d, n) = s \o d /\ From(s \o d, n) \in Seq(S)
  BY <1>1, <1>2, FromFacts
<1>5. SubSeq(s \o d, 1, n) = SubSeq(s, 1, n) /\ SubSeq(s, 1, n) \in Seq(S)
  <2>1. Oldest(s, n) = SubSeq(s, 1, n) /\ Oldest(s \o d, n) = SubSeq(s \o d, 1, n)
    BY <1>1, <1>2 DEF Oldest
  <2> QED BY <1>1, <2>1, OldestGrows, OldestFacts
<1> DEFINE o == SubSeq(s, 1, n)
           f == From(s, n)
           g == From(s \o d, n)
<1>6. o \in Seq(S) /\ f \in Seq(S) /\ g \in Seq(S) /\ f \o d \in Seq(S)
  BY <1>3, <1>4, <1>5, ConcatProperties
<1>7. o \o g = (o \o f) \o d
  BY <1>3, <1>4, <1>5
<1> HIDE DEF o, f, g
<1>8. (o \o f) \o d = o \o (f \o d)
  BY <1>6, ConcatAssociative
<1>9. g = f \o d
  BY <1>6, <1>7, <1>8, ConcatSimplifications
<1> QED BY <1>9 DEF f, g
-----------------------------------------------------------------------------
(* The transcript of one utterance.                                          *)

Transcripts == [rid : 0..MaxRequests, committed : Text, visible : Text, segment : Text, cut : Nat]
CutRepeats(t) == t.cut <= Len(t.segment) /\ IsSuffix(Oldest(t.segment, t.cut), t.committed)

\* The overlap found is within the new text and ends the old one.
LEMMA OverlapFacts ==
  ASSUME NEW S, NEW a \in Seq(S), NEW b \in Seq(S)
  PROVE  FindOverlap(a, b) \in 0..Len(b) /\ IsSuffix(Oldest(b, FindOverlap(a, b)), a)
<1> DEFINE T == {i \in 0..Len(b) : IsSuffix(Oldest(b, i), a)}
<1>1. Len(b) \in Nat
  BY LenProperties
<1>2. 0 \in T
  <2>1. Oldest(b, 0) = <<>>
    <3>1. Oldest(b, 0) \in Seq(S) /\ Len(Oldest(b, 0)) = 0
      BY <1>1, OldestFacts
    <3> QED BY <3>1, EmptySeq
  <2> QED BY <1>1, <2>1, EmptyIsSuffix
<1>3. T \subseteq Nat /\ T # {} /\ \A y \in T : y <= Len(b)
  BY <1>1, <1>2
<1>4. FindOverlap(a, b) = Max(T)
  BY DEF FindOverlap
<1> HIDE DEF T
<1>5. Max(T) \in T
  BY <1>1, <1>3, MaxFacts
<1> QED BY <1>4, <1>5 DEF T

LEMMA MergedIsText ==
  ASSUME NEW t \in Transcripts
  PROVE  Merged(t) \in Text
<1>1. t.committed \in Seq(Letters) /\ t.segment \in Seq(Letters) /\ t.cut \in Nat
  BY DEF Transcripts, Text
<1>2. From(t.segment, t.cut) \in Seq(Letters)
  BY <1>1, FromFacts
<1> QED BY <1>1, <1>2, ConcatProperties DEF Merged, Text

\* Deduplication changes the cut alone, to another that repeats the text before
\* the segment, and the client's text stays a prefix of the merged text.
LEMMA DedupFacts ==
  ASSUME NEW t \in Transcripts
  PROVE  LET u == MaybeDedup(t) IN
         /\ u \in Transcripts
         /\ u.rid = t.rid /\ u.committed = t.committed /\ u.visible = t.visible /\ u.segment = t.segment
         /\ CutRepeats(t) => CutRepeats(u)
         /\ IsPrefix(t.visible, Merged(t)) => IsPrefix(u.visible, Merged(u))
<1> DEFINE a == Newest(t.committed, Window)
           b == Oldest(t.segment, Window)
           cut == FindOverlap(a, b)
           new == [t EXCEPT !.cut = cut]
<1>1. /\ t.committed \in Seq(Letters) /\ t.segment \in Seq(Letters) /\ t.cut \in Nat
      /\ t.visible \in Seq(Letters) /\ Window \in Nat
  BY DEF Transcripts, Text
<1>2. a \in Seq(Letters) /\ b \in Seq(Letters) /\ IsSuffix(a, t.committed)
  BY <1>1, NewestIsSuffix, OldestFacts
<1>3. cut \in 0..Len(b) /\ IsSuffix(Oldest(b, cut), a)
  <2> HIDE DEF a, b
  <2> QED BY <1>2, OverlapFacts
<1>4. MaybeDedup(t) = IF cut > t.cut /\ IsPrefix(t.visible, Merged(new)) THEN new ELSE t
  BY DEF MaybeDedup
<1>5. Len(b) \in Nat /\ cut \in Nat
  <2> HIDE DEF a, b
  <2>1. Len(b) \in Nat
    BY <1>2, LenProperties
  <2> QED BY <1>3, <2>1
<1>6. Oldest(b, cut) = Oldest(t.segment, cut) /\ cut <= Len(t.segment) /\ Oldest(b, cut) \in Seq(Letters)
  <2> HIDE DEF cut, a
  <2>1. cut \in 0..Len(Oldest(t.segment, Window))
    BY <1>3
  <2>2. Oldest(Oldest(t.segment, Window), cut) = Oldest(t.segment, cut) /\ cut <= Len(t.segment)
    BY <1>1, <2>1, OldestOfOldest
  <2>3. Oldest(t.segment, cut) \in Seq(Letters)
    BY <1>1, <1>5, OldestFacts
  <2> QED BY <2>2, <2>3
<1> HIDE DEF a, b, cut
<1>7. /\ new \in Transcripts /\ new.cut = cut /\ new.rid = t.rid
      /\ new.committed = t.committed /\ new.visible = t.visible /\ new.segment = t.segment
  BY <1>5 DEF Transcripts
<1>8. CutRepeats(new)
  <2>1. IsSuffix(Oldest(t.segment, cut), t.committed)
    BY <1>1, <1>2, <1>3, <1>6, SuffixOfSuffix
  <2> QED BY <1>6, <1>7, <2>1 DEF CutRepeats
<1> HIDE DEF new
<1>9. CASE cut > t.cut /\ IsPrefix(t.visible, Merged(new))
  <2>1. MaybeDedup(t) = new
    BY <1>4, <1>9
  <2> QED BY <1>7, <1>8, <1>9, <2>1
<1>10. CASE ~(cut > t.cut /\ IsPrefix(t.visible, Merged(new)))
  <2>1. MaybeDedup(t) = t
    BY <1>4, <1>10
  <2> QED BY <2>1
<1> QED BY <1>9, <1>10

\* Showing what is new leaves nothing of the merged text unseen.
LEMMA SeenFacts ==
  ASSUME NEW u \in Transcripts, IsPrefix(u.visible, Merged(u))
  PROVE  /\ u.visible \o Unseen(u) = Merged(u)
         /\ Seen(u) \in Transcripts
         /\ Seen(u).rid = u.rid /\ Seen(u).committed = u.committed
         /\ Seen(u).segment = u.segment /\ Seen(u).cut = u.cut
         /\ Seen(u).visible = Merged(u) /\ Merged(Seen(u)) = Merged(u)
<1>1. Merged(u) \in Seq(Letters) /\ u.visible \in Seq(Letters)
  BY MergedIsText DEF Transcripts, Text
<1>2. Unseen(u) = From(Merged(u), Len(u.visible))
  BY DEF Unseen
<1>3. u.visible \o Unseen(u) = Merged(u)
  BY <1>1, <1>2, PrefixAndRest
<1>4. Seen(u).visible = Merged(u)
  <2>1. CASE Unseen(u) # <<>>
    BY <2>1 DEF Seen, Transcripts
  <2>2. CASE Unseen(u) = <<>>
    <3>1. u.visible = Merged(u)
      BY <1>1, <1>3, <2>2, ConcatEmptySeq
    <3> QED BY <2>2, <3>1 DEF Seen
  <2> QED BY <2>1, <2>2
<1>5. /\ Seen(u) \in Transcripts
      /\ Seen(u).rid = u.rid /\ Seen(u).committed = u.committed
      /\ Seen(u).segment = u.segment /\ Seen(u).cut = u.cut
  BY <1>1 DEF Seen, Transcripts, Text
<1> QED BY <1>3, <1>4, <1>5 DEF Merged

\* A delta adds itself to the merged text.
LEMMA DeltaMerges ==
  ASSUME NEW t \in Transcripts, CutRepeats(t), NEW d \in Text
  PROVE  LET v == [t EXCEPT !.segment = @ \o d] IN
         /\ v \in Transcripts /\ CutRepeats(v) /\ v.rid = t.rid /\ v.visible = t.visible
         /\ v.segment = t.segment \o d
         /\ Merged(v) = Merged(t) \o d
<1> DEFINE v == [t EXCEPT !.segment = @ \o d]
<1>1. /\ t.committed \in Seq(Letters) /\ t.segment \in Seq(Letters) /\ d \in Seq(Letters)
      /\ t.cut \in 0..Len(t.segment)
  BY LenProperties DEF Transcripts, Text, CutRepeats
<1>2. t.segment \o d \in Seq(Letters) /\ Len(t.segment \o d) = Len(t.segment) + Len(d)
      /\ Len(t.segment) \in Nat /\ Len(d) \in Nat
  BY <1>1, ConcatProperties, LenProperties
<1>3. /\ v \in Transcripts /\ v.rid = t.rid /\ v.visible = t.visible /\ v.cut = t.cut
      /\ v.committed = t.committed /\ v.segment = t.segment \o d
  BY <1>2 DEF Transcripts, Text
<1> HIDE DEF v
<1>4. CutRepeats(v)
  <2>1. Oldest(t.segment \o d, t.cut) = Oldest(t.segment, t.cut)
    BY <1>1, OldestGrows
  <2>2. t.cut <= Len(t.segment \o d)
    BY <1>1, <1>2
  <2> QED BY <1>3, <2>1, <2>2 DEF CutRepeats
<1>5. Merged(v) = Merged(t) \o d
  <2>1. From(t.segment \o d, t.cut) = From(t.segment, t.cut) \o d
    BY <1>1, FromGrows
  <2>2. From(t.segment, t.cut) \in Seq(Letters)
    BY <1>1, FromFacts
  <2>3. t.committed \o (From(t.segment, t.cut) \o d) = (t.committed \o From(t.segment, t.cut)) \o d
    <3> DEFINE c == t.committed
               f == From(t.segment, t.cut)
    <3>1. c \in Seq(Letters) /\ f \in Seq(Letters) /\ d \in Seq(Letters)
      BY <1>1, <2>2
    <3> HIDE DEF c, f
    <3>2. (c \o f) \o d = c \o (f \o d)
      BY <3>1, ConcatAssociative
    <3> QED BY <3>2 DEF c, f
  <2> QED BY <1>3, <2>1, <2>3 DEF Merged
<1> QED BY <1>3, <1>4, <1>5 DEF v

\* A transcript that starts over is empty and sound.
LEMMA FreshFacts ==
  ASSUME NEW r \in 0..MaxRequests
  PROVE  /\ Fresh(r) \in Transcripts /\ CutRepeats(Fresh(r)) /\ Fresh(r).rid = r
         /\ Fresh(r).visible = Merged(Fresh(r)) /\ Fresh(r).visible = <<>> /\ Fresh(r).segment = <<>>
<1>1. <<>> \in Seq(Letters) /\ Len(<<>>) = 0
  BY EmptySeq
<1>2. Fresh(r) \in Transcripts /\ Fresh(r).rid = r /\ Fresh(r).visible = <<>> /\ Fresh(r).segment = <<>>
      /\ Fresh(r).committed = <<>> /\ Fresh(r).cut = 0
  BY <1>1 DEF Fresh, Transcripts, Text
<1>3. From(<<>>, 0) = <<>> /\ Oldest(<<>>, 0) = <<>>
  BY <1>1, SubSeqEmpty DEF From, Oldest
<1>4. Merged(Fresh(r)) = <<>>
  BY <1>1, <1>2, <1>3, ConcatEmptySeq DEF Merged
<1>5. CutRepeats(Fresh(r))
  <2>1. IsSuffix(<<>>, <<>>)
    BY <1>1, EmptyIsSuffix
  <2> QED BY <1>1, <1>2, <1>3, <2>1 DEF CutRepeats
<1> QED BY <1>2, <1>4, <1>5

\* Committing a segment loses no text.
LEMMA CommitFacts ==
  ASSUME NEW u \in Transcripts
  PROVE  /\ Commit(u) \in Transcripts /\ CutRepeats(Commit(u)) /\ Commit(u).rid = u.rid
         /\ Commit(u).visible = Merged(u) /\ Merged(Commit(u)) = Merged(u) /\ Commit(u).segment = <<>>
<1>1. Merged(u) \in Seq(Letters) /\ <<>> \in Seq(Letters) /\ Len(<<>>) = 0
  BY MergedIsText, EmptySeq DEF Text
<1>2. /\ Commit(u) \in Transcripts /\ Commit(u).rid = u.rid /\ Commit(u).segment = <<>>
      /\ Commit(u).visible = Merged(u) /\ Commit(u).committed = Merged(u) /\ Commit(u).cut = 0
  BY <1>1 DEF Commit, Transcripts, Text
<1>3. From(<<>>, 0) = <<>> /\ Oldest(<<>>, 0) = <<>>
  BY <1>1, SubSeqEmpty DEF From, Oldest
<1>4. Merged(Commit(u)) = Merged(u)
  <2>1. Merged(Commit(u)) = Merged(u) \o <<>>
    BY <1>2, <1>3 DEF Merged
  <2> QED BY <1>1, <2>1, ConcatEmptySeq
<1>5. CutRepeats(Commit(u))
  <2>1. IsSuffix(<<>>, Merged(u))
    BY <1>1, EmptyIsSuffix
  <2> QED BY <1>1, <1>2, <1>3, <2>1 DEF CutRepeats
<1> QED BY <1>2, <1>4, <1>5
-----------------------------------------------------------------------------
(* The invariant. While the utterance's generation runs and no error frame   *)
(* came between, the transcript is that generation's text, and the request's *)
(* tokens are the transcript.                                                *)

Bounded == suppress <= (rid - 1) * MaxRolls + rolls

InStep ==
  /\ tx.rid <= rid /\ tx.visible = Merged(tx)
  /\ on /\ rid \notin erred =>
       IF tx.rid = rid THEN tx.segment = heard /\ shown[rid] = tx.visible ELSE heard = <<>>

Untold ==
  /\ \A r \in Requests : r > tx.rid => shown[r] = <<>>
  /\ \A r \in Requests : r > rid => final[r] = NoFinal
  /\ on => final[rid] = NoFinal

IInv == TypeOK /\ Bounded /\ InStep /\ OnlyRepeatsCut /\ Untold /\ FinalIsTokens

\* What TypeOK says of every variable but suppress, whose bound is Bounded.
Typed ==
  /\ rid \in Requests /\ on \in BOOLEAN /\ heard \in Text /\ suppress \in Nat
  /\ rolling \in BOOLEAN /\ rolls \in 0..MaxRolls
  /\ tx \in Transcripts /\ tx.cut <= Len(tx.segment)
  /\ erred \subseteq Requests
  /\ shown \in [Requests -> Text] /\ final \in [Requests -> Text \cup {NoFinal}]

LEMMA ProductGrows ==
  ASSUME NEW m \in Nat, NEW k \in Nat, NEW n \in Nat, k <= n
  PROVE  k * m <= n * m /\ k * m \in Nat /\ n * m \in Nat
<1>1. \E j \in Nat : n = k + j
  <2>1. n - k \in Nat /\ n = k + (n - k)
    OBVIOUS
  <2> QED BY <2>1
<1>2. PICK j \in Nat : n = k + j
  BY <1>1
<1>3. (k + j) * m = k * m + j * m
  OBVIOUS
<1>4. k * m \in Nat /\ j * m \in Nat
  OBVIOUS
<1> QED BY <1>2, <1>3, <1>4

LEMMA SuppressWithin ==
  ASSUME NEW q \in Requests, NEW m \in 0..MaxRolls, NEW s \in Nat, s <= (q - 1) * MaxRolls + m
  PROVE  s \in 0..(MaxRequests * MaxRolls)
<1> DEFINE k == q - 1
           z == MaxRequests * MaxRolls
           p == k * MaxRolls
<1>1. k \in Nat /\ k + 1 <= MaxRequests /\ k + 1 \in Nat /\ MaxRolls \in Nat /\ MaxRequests \in Nat
      /\ m \in Nat /\ m <= MaxRolls
  BY DEF Requests
<1>2. s <= p + m
  OBVIOUS
<1> HIDE DEF k
<1>3. (k + 1) * MaxRolls = p + MaxRolls /\ p \in Nat
  BY <1>1
<1>4. (k + 1) * MaxRolls <= z /\ z \in Nat
  BY <1>1, ProductGrows
<1> HIDE DEF p
<1>5. p + MaxRolls <= z
  BY <1>3, <1>4
<1> HIDE DEF z
<1>6. s \in 0..z
  BY <1>1, <1>2, <1>3, <1>4, <1>5
<1> QED BY <1>6 DEF z

LEMMA TypeGivesTyped ==
  ASSUME TypeOK
  PROVE  Typed
BY DEF TypeOK, Typed, Transcripts

LEMMA InitInv == Init => IInv
<1> SUFFICES ASSUME Init PROVE IInv
  OBVIOUS
<1>1. 0 \in 0..MaxRequests /\ 1 \in Requests /\ <<>> \in Text
  BY EmptySeq DEF Requests, Text
<1>2. tx = Fresh(0)
  BY DEF Init
<1>3. /\ tx \in Transcripts /\ CutRepeats(tx) /\ tx.rid = 0
      /\ tx.visible = Merged(tx) /\ tx.visible = <<>> /\ tx.segment = <<>>
  BY <1>1, <1>2, FreshFacts
<1>4. Typed
  <2>1. shown \in [Requests -> Text] /\ final \in [Requests -> Text \cup {NoFinal}]
    BY <1>1 DEF Init
  <2>2. /\ rid \in Requests /\ on \in BOOLEAN /\ heard \in Text /\ suppress \in Nat
        /\ rolling \in BOOLEAN /\ rolls \in 0..MaxRolls /\ erred \subseteq Requests
    <3>1. 0 \in 0..MaxRolls /\ 0 \in Nat
      OBVIOUS
    <3> QED BY <1>1, <3>1 DEF Init
  <2>3. tx.cut <= Len(tx.segment)
    BY <1>3 DEF CutRepeats
  <2> QED BY <1>3, <2>1, <2>2, <2>3 DEF Typed
<1>5. Bounded
  <2>1. (1 - 1) * MaxRolls + 0 = 0
    OBVIOUS
  <2> QED BY <2>1 DEF Init, Bounded
<1>6. InStep /\ OnlyRepeatsCut /\ Untold
  BY <1>1, <1>3 DEF Init, InStep, OnlyRepeatsCut, CutRepeats, Untold, Requests
<1>7. FinalIsTokens
  BY DEF Init, FinalIsTokens
<1>8. TypeOK
  BY <1>4, <1>5, SuppressWithin DEF Typed, Bounded, TypeOK, Transcripts
<1> QED BY <1>5, <1>6, <1>7, <1>8 DEF IInv

\* The transcript a handler works on: the utterance's own, and as far as the
\* utterance is.
LEMMA CurrentFacts ==
  ASSUME IInv
  PROVE  LET t == ResetIfNeeded(tx) IN
         /\ t \in Transcripts /\ CutRepeats(t) /\ t.rid = rid /\ t.visible = Merged(t)
         /\ on /\ rid \notin erred => t.segment = heard /\ shown[rid] = t.visible
<1> DEFINE t == ResetIfNeeded(tx)
<1>1. Typed /\ rid \in 0..MaxRequests /\ rid \in Requests
  BY TypeGivesTyped DEF IInv, TypeOK, Requests
<1>2. CASE tx.rid = rid
  <2>1. t = tx
    BY <1>2 DEF ResetIfNeeded
  <2>2. CutRepeats(tx) /\ tx \in Transcripts
    BY <1>1 DEF IInv, Typed, OnlyRepeatsCut, CutRepeats
  <2> QED BY <1>2, <2>1, <2>2 DEF IInv, InStep
<1>3. CASE tx.rid # rid
  <2>1. t = Fresh(rid)
    BY <1>3 DEF ResetIfNeeded
  <2>2. /\ t \in Transcripts /\ CutRepeats(t) /\ t.rid = rid
        /\ t.visible = Merged(t) /\ t.visible = <<>> /\ t.segment = <<>>
    BY <1>1, <2>1, FreshFacts
  <2>3. rid > tx.rid
    BY <1>1, <1>3 DEF IInv, InStep, Typed, Transcripts, Requests
  <2>4. shown[rid] = <<>>
    BY <1>1, <2>3 DEF IInv, Untold
  <2> QED BY <1>3, <2>2, <2>4 DEF IInv, InStep
<1> QED BY <1>2, <1>3

LEMMA DeltaIsText == \A d \in Deltas : d \in Text
<1> SUFFICES ASSUME NEW d \in Deltas PROVE d \in Text
  OBVIOUS
<1>1. PICK n \in 1..MaxDelta : d \in [1..n -> Letters]
  BY DEF Deltas
<1>2. n \in Nat
  BY <1>1
<1> QED BY <1>1, <1>2, SeqDef DEF Text

\* The tokens of the utterance grow by what was unseen.
LEMMA ShowFacts ==
  ASSUME Typed, NEW u \in Transcripts, u.rid = rid, Show(u)
  PROVE  /\ shown' \in [Requests -> Text]
         /\ shown'[rid] = shown[rid] \o Unseen(u)
         /\ \A r \in Requests : r # rid => shown'[r] = shown[r]
<1>1. rid \in Requests /\ shown \in [Requests -> Text] /\ shown[rid] \in Seq(Letters)
  BY DEF Typed, Text
<1>2. Unseen(u) \in Seq(Letters)
  <2>1. Merged(u) \in Seq(Letters) /\ Len(u.visible) \in Nat
    BY MergedIsText, LenProperties DEF Transcripts, Text
  <2>2. From(Merged(u), Len(u.visible)) \in Seq(Letters)
    BY <2>1, FromFacts
  <2> QED BY <2>2, EmptySeq DEF Unseen
<1>3. shown[rid] \o Unseen(u) \in Text
  BY <1>1, <1>2, ConcatProperties DEF Text
<1> QED BY <1>1, <1>3 DEF Show

\* While the transcript is not past the utterance, only the utterance's tokens
\* and final text may change.
LEMMA UntoldStays ==
  ASSUME IInv, UNCHANGED rid, on, tx'.rid = rid,
         \A r \in Requests : r # rid => shown'[r] = shown[r] /\ final'[r] = final[r],
         on' => final'[rid] = NoFinal
  PROVE  Untold'
<1>1. Typed
  BY TypeGivesTyped DEF IInv
<1>2. rid \in Nat /\ tx.rid \in Nat /\ tx.rid <= rid /\ \A r \in Requests : r \in Nat
  BY <1>1 DEF Typed, Transcripts, Requests, IInv, InStep
<1>3. \A r \in Requests : r > rid => shown'[r] = <<>> /\ final'[r] = NoFinal
  <2> SUFFICES ASSUME NEW r \in Requests, r > rid PROVE shown'[r] = <<>> /\ final'[r] = NoFinal
    OBVIOUS
  <2>1. r # rid /\ r > tx.rid
    BY <1>2
  <2> QED BY <2>1 DEF IInv, Untold
<1> QED BY <1>3 DEF Untold

LEMMA DeltaStep ==
  ASSUME IInv, NEW d \in Deltas, Delta(d)
  PROVE  IInv'
<1> DEFINE t == ResetIfNeeded(tx)
           v == [t EXCEPT !.segment = @ \o d]
           u == MaybeDedup(v)
<1>1. Typed /\ on /\ d \in Text /\ heard \in Text
  BY DeltaIsText, TypeGivesTyped DEF IInv, Typed, Delta
<1>2. /\ heard' = heard \o d /\ tx' = Seen(u) /\ Show(u)
      /\ UNCHANGED <<rid, on, suppress, rolling, rolls, final, erred>>
  BY DEF Delta
<1>3. /\ t \in Transcripts /\ CutRepeats(t) /\ t.rid = rid /\ t.visible = Merged(t)
      /\ rid \notin erred => t.segment = heard /\ shown[rid] = t.visible
  BY <1>1, CurrentFacts
<1> HIDE DEF t
<1>4. /\ v \in Transcripts /\ CutRepeats(v) /\ v.rid = rid /\ v.visible = t.visible
      /\ v.segment = t.segment \o d /\ Merged(v) = Merged(t) \o d
  BY <1>1, <1>3, DeltaMerges
<1>5. IsPrefix(v.visible, Merged(v))
  <2>1. Merged(t) \in Seq(Letters) /\ d \in Seq(Letters)
    BY <1>1, <1>3, MergedIsText DEF Text
  <2>2. IsPrefix(Merged(t), Merged(t) \o d)
    BY <2>1, GrownHasPrefix
  <2> QED BY <1>3, <1>4, <2>2
<1> HIDE DEF v
<1>6. /\ u \in Transcripts /\ CutRepeats(u) /\ u.rid = rid /\ u.visible = t.visible
      /\ u.segment = t.segment \o d /\ IsPrefix(u.visible, Merged(u))
  BY <1>4, <1>5, DedupFacts
<1> HIDE DEF u
<1>7. /\ u.visible \o Unseen(u) = Merged(u)
      /\ tx' \in Transcripts /\ tx'.rid = rid /\ tx'.committed = u.committed
      /\ tx'.segment = u.segment /\ tx'.cut = u.cut
      /\ tx'.visible = Merged(u) /\ Merged(tx') = Merged(u)
  BY <1>2, <1>6, SeenFacts
<1>8. /\ shown' \in [Requests -> Text] /\ shown'[rid] = shown[rid] \o Unseen(u)
      /\ \A r \in Requests : r # rid => shown'[r] = shown[r]
  BY <1>1, <1>2, <1>6, ShowFacts
<1>9. heard' \in Text
  BY <1>1, <1>2, ConcatProperties DEF Text
<1>10. CutRepeats(tx')
  BY <1>6, <1>7 DEF CutRepeats
<1>11. Typed' /\ OnlyRepeatsCut'
  BY <1>1, <1>2, <1>7, <1>8, <1>9, <1>10 DEF Typed, CutRepeats, OnlyRepeatsCut
<1>12. Bounded'
  BY <1>2 DEF IInv, Bounded
<1>13. InStep'
  <2>1. rid \notin erred => tx'.segment = heard' /\ shown'[rid] = tx'.visible
    BY <1>2, <1>3, <1>6, <1>7, <1>8
  <2>2. tx'.rid <= rid' /\ tx'.visible = Merged(tx)'
    <3>1. rid \in Nat /\ rid <= rid
      BY <1>1 DEF Typed, Requests
    <3>2. tx'.rid = rid' /\ Merged(tx)' = Merged(tx')
      BY <1>2, <1>7 DEF Merged, From
    <3> QED BY <1>2, <1>7, <3>1, <3>2
  <2> QED BY <1>2, <1>7, <2>1, <2>2 DEF InStep
<1>14. Untold'
  BY <1>1, <1>2, <1>7, <1>8, UntoldStays DEF IInv, Untold
<1>15. FinalIsTokens'
  <2> SUFFICES ASSUME NEW r \in Requests, r \notin erred, final[r] # NoFinal
               PROVE  final[r] = shown'[r]
    BY <1>2 DEF FinalIsTokens
  <2>1. r # rid
    BY <1>1 DEF IInv, Untold
  <2> QED BY <1>8, <2>1 DEF IInv, FinalIsTokens
<1>16. TypeOK'
  BY <1>11, <1>12, SuppressWithin DEF Typed, Bounded, TypeOK, Transcripts
<1> QED BY <1>11, <1>12, <1>13, <1>14, <1>15, <1>16 DEF IInv

LEMMA DoneStep ==
  ASSUME IInv, Done
  PROVE  IInv'
<1> DEFINE t == ResetIfNeeded(tx)
           w == [t EXCEPT !.segment = heard]
           u == MaybeDedup(w)
<1>1. Typed /\ on /\ heard \in Text /\ rid \in 0..MaxRequests /\ rid \in Requests
  BY TypeGivesTyped DEF IInv, Typed, Done, Requests
<1>2. /\ heard' = <<>> /\ rolling' = FALSE /\ Show(u) /\ UNCHANGED <<rid, rolls, erred>>
      /\ \/ /\ suppress > 0 /\ suppress' = suppress - 1 /\ tx' = Commit(u) /\ on' = rolling
            /\ UNCHANGED final
         \/ /\ final' = [final EXCEPT ![u.rid] = Merged(u)]
            /\ tx' = Fresh(u.rid) /\ on' = FALSE /\ UNCHANGED suppress
  BY DEF Done
<1>3. /\ t \in Transcripts /\ CutRepeats(t) /\ t.rid = rid /\ t.visible = Merged(t)
      /\ rid \notin erred => t.segment = heard /\ shown[rid] = t.visible
  BY <1>1, CurrentFacts
<1> HIDE DEF t
<1>4. w \in Transcripts /\ w.rid = rid /\ w.visible = t.visible /\ (rid \notin erred => w = t)
  BY <1>1, <1>3 DEF Transcripts
<1>5. rid \notin erred => IsPrefix(w.visible, Merged(w))
  <2>1. Merged(t) \in Seq(Letters) /\ <<>> \in Seq(Letters)
    BY <1>3, MergedIsText, EmptySeq DEF Text
  <2>2. IsPrefix(Merged(t), Merged(t) \o <<>>) /\ Merged(t) \o <<>> = Merged(t)
    BY <2>1, GrownHasPrefix, ConcatEmptySeq
  <2>3. IsPrefix(t.visible, Merged(t))
    BY <1>3, <2>2
  <2> QED BY <1>4, <2>3
<1> HIDE DEF w
<1>6. /\ u \in Transcripts /\ u.rid = rid /\ u.visible = t.visible
      /\ rid \notin erred => IsPrefix(u.visible, Merged(u))
  BY <1>4, <1>5, DedupFacts
<1> HIDE DEF u
<1>7. /\ shown' \in [Requests -> Text] /\ shown'[rid] = shown[rid] \o Unseen(u)
      /\ \A r \in Requests : r # rid => shown'[r] = shown[r]
  BY <1>1, <1>2, <1>6, ShowFacts
<1>8. rid \notin erred => shown'[rid] = Merged(u)
  <2> SUFFICES ASSUME rid \notin erred PROVE shown'[rid] = Merged(u)
    OBVIOUS
  <2>1. u.visible \o Unseen(u) = Merged(u)
    BY <1>6, SeenFacts
  <2> QED BY <1>3, <1>6, <1>7, <2>1
<1>9. Merged(u) \in Text /\ <<>> \in Text
  BY <1>6, MergedIsText, EmptySeq DEF Text
<1>10. /\ tx' \in Transcripts /\ CutRepeats(tx') /\ tx'.rid = rid
       /\ tx'.visible = Merged(tx') /\ tx'.segment = <<>>
       /\ suppress' \in Nat /\ suppress' <= suppress /\ on' \in BOOLEAN
       /\ final' \in [Requests -> Text \cup {NoFinal}]
       /\ \A r \in Requests : r # rid => final'[r] = final[r]
       /\ on' => final' = final /\ tx'.visible = Merged(u)
       /\ final' = final \/ final'[rid] = Merged(u)
  <2>1. CASE suppress > 0 /\ suppress' = suppress - 1 /\ tx' = Commit(u) /\ on' = rolling /\ UNCHANGED final
    <3>1. /\ tx' \in Transcripts /\ CutRepeats(tx') /\ tx'.rid = rid
          /\ tx'.visible = Merged(tx') /\ tx'.segment = <<>> /\ tx'.visible = Merged(u)
      BY <1>6, <2>1, CommitFacts
    <3>2. suppress' \in Nat /\ suppress' <= suppress /\ on' \in BOOLEAN
      BY <1>1, <2>1 DEF Typed
    <3>3. final' \in [Requests -> Text \cup {NoFinal}]
      BY <1>1, <2>1 DEF Typed
    <3> QED BY <2>1, <3>1, <3>2, <3>3
  <2>2. CASE /\ final' = [final EXCEPT ![u.rid] = Merged(u)]
             /\ tx' = Fresh(u.rid) /\ on' = FALSE /\ UNCHANGED suppress
    <3>1. /\ tx' \in Transcripts /\ CutRepeats(tx') /\ tx'.rid = rid
          /\ tx'.visible = Merged(tx') /\ tx'.segment = <<>>
      BY <1>1, <1>6, <2>2, FreshFacts
    <3>2. suppress' \in Nat /\ suppress' <= suppress
      BY <1>1, <2>2 DEF Typed
    <3>3. /\ final' \in [Requests -> Text \cup {NoFinal}] /\ final'[rid] = Merged(u)
          /\ \A r \in Requests : r # rid => final'[r] = final[r]
      BY <1>1, <1>6, <1>9, <2>2 DEF Typed
    <3> QED BY <2>2, <3>1, <3>2, <3>3
  <2> QED BY <1>2, <2>1, <2>2
<1>11. Typed' /\ OnlyRepeatsCut'
  BY <1>1, <1>2, <1>7, <1>9, <1>10 DEF Typed, CutRepeats, OnlyRepeatsCut
<1>12. Bounded'
  <2> DEFINE p == (rid - 1) * MaxRolls
  <2>1. p \in Nat
    <3> DEFINE k == rid - 1
    <3>1. k \in Nat /\ MaxRolls \in Nat
      BY <1>1 DEF Requests
    <3> HIDE DEF k
    <3>2. k * MaxRolls \in Nat
      BY <3>1
    <3> QED BY <3>2 DEF k
  <2>2. suppress <= p + rolls
    BY DEF IInv, Bounded
  <2> HIDE DEF p
  <2>3. suppress' <= p + rolls
    BY <1>1, <1>10, <2>1, <2>2 DEF Typed
  <2> QED BY <1>2, <2>3 DEF Bounded, p
<1>13. InStep'
  <2>1. rid \in Nat /\ rid <= rid
    BY <1>1 DEF Requests
  <2>2. Merged(tx)' = Merged(tx')
    BY DEF Merged, From
  <2> QED BY <1>2, <1>8, <1>10, <2>1, <2>2 DEF InStep
<1>14. Untold'
  BY <1>1, <1>2, <1>7, <1>10, UntoldStays DEF IInv, Untold
<1>15. FinalIsTokens'
  <2> SUFFICES ASSUME NEW r \in Requests, r \notin erred, final'[r] # NoFinal
               PROVE  final'[r] = shown'[r]
    BY <1>2 DEF FinalIsTokens
  <2>1. CASE r = rid
    <3>1. final[rid] = NoFinal
      BY <1>1 DEF IInv, Untold
    <3> QED BY <1>8, <1>10, <2>1, <3>1
  <2>2. CASE r # rid
    BY <1>7, <1>10, <2>2 DEF IInv, FinalIsTokens
  <2> QED BY <2>1, <2>2
<1>16. TypeOK'
  BY <1>11, <1>12, SuppressWithin DEF Typed, Bounded, TypeOK, Transcripts
<1> QED BY <1>11, <1>12, <1>13, <1>14, <1>15, <1>16 DEF IInv

\* The number of rolls before the utterance, and with its own.
LEMMA RollsBefore ==
  ASSUME NEW q \in Requests
  PROVE  /\ (q - 1) * MaxRolls \in Nat
         /\ (q + 1 - 1) * MaxRolls = (q - 1) * MaxRolls + MaxRolls
<1> DEFINE k == q - 1
<1>1. k \in Nat /\ MaxRolls \in Nat /\ q + 1 - 1 = k + 1
  BY DEF Requests
<1> HIDE DEF k
<1>2. k * MaxRolls \in Nat /\ (k + 1) * MaxRolls = k * MaxRolls + MaxRolls
  BY <1>1
<1> QED BY <1>1, <1>2 DEF k

LEMMA RollStep ==
  ASSUME IInv, Roll
  PROVE  IInv'
<1>1. Typed /\ Typed'
  <2>1. Typed
    BY TypeGivesTyped DEF IInv
  <2>2. suppress' \in Nat /\ rolls' \in 0..MaxRolls /\ rolling' \in BOOLEAN
    BY <2>1 DEF Typed, Roll
  <2> QED BY <2>1, <2>2 DEF Typed, Roll
<1>2. Bounded'
  <2> DEFINE p == (rid - 1) * MaxRolls
  <2>1. p \in Nat /\ suppress <= p + rolls
    BY <1>1, RollsBefore DEF IInv, Bounded, Typed
  <2> HIDE DEF p
  <2>2. suppress' <= p + rolls'
    BY <1>1, <2>1 DEF Typed, Roll
  <2> QED BY <2>2 DEF Bounded, Roll, p
<1>3. InStep' /\ OnlyRepeatsCut' /\ Untold' /\ FinalIsTokens'
  BY DEF IInv, Roll, InStep, OnlyRepeatsCut, Untold, FinalIsTokens, Merged, From, Oldest
<1>4. TypeOK'
  BY <1>1, <1>2, SuppressWithin DEF Typed, Bounded, TypeOK, Transcripts
<1> QED BY <1>2, <1>3, <1>4 DEF IInv

LEMMA ErrorStep ==
  ASSUME IInv, Error
  PROVE  IInv'
<1> DEFINE t == ResetIfNeeded(tx)
<1>1. Typed /\ rid \in 0..MaxRequests /\ rid \in Requests /\ on
  BY TypeGivesTyped DEF IInv, Typed, Requests, Error
<1>2. t.rid = rid
  BY CurrentFacts
<1>3. /\ tx' = Fresh(rid) /\ erred' = erred \cup {rid} /\ suppress' = 0
      /\ UNCHANGED <<rid, rolls, shown, final>>
      /\ \/ on' = FALSE /\ rolling' = FALSE /\ heard' = <<>>
         \/ UNCHANGED <<on, rolling, heard>>
  BY <1>2 DEF Error
<1>4. /\ tx' \in Transcripts /\ CutRepeats(tx') /\ tx'.rid = rid /\ tx'.visible = Merged(tx')
  BY <1>1, <1>3, FreshFacts
<1>5. Typed' /\ OnlyRepeatsCut'
  <2>1. on' \in BOOLEAN /\ rolling' \in BOOLEAN /\ heard' \in Text /\ suppress' \in Nat
    BY <1>1, <1>3, EmptySeq DEF Typed, Text
  <2> QED BY <1>1, <1>3, <1>4, <2>1 DEF Typed, CutRepeats, OnlyRepeatsCut
<1>6. Bounded'
  <2> DEFINE p == (rid - 1) * MaxRolls
  <2>1. p \in Nat
    BY <1>1, RollsBefore
  <2> HIDE DEF p
  <2>2. 0 <= p + rolls
    BY <1>1, <2>1 DEF Typed
  <2> QED BY <1>3, <2>2 DEF Bounded, p
<1>7. InStep'
  <2>1. rid \in Nat /\ rid <= rid /\ rid \in erred'
    BY <1>1, <1>3 DEF Requests
  <2>2. Merged(tx)' = Merged(tx')
    BY DEF Merged, From
  <2> QED BY <1>3, <1>4, <2>1, <2>2 DEF InStep
<1>8. Untold'
  BY <1>1, <1>3, <1>4, UntoldStays DEF IInv, Untold
<1>9. FinalIsTokens'
  BY <1>3 DEF IInv, FinalIsTokens
<1>10. TypeOK'
  BY <1>5, <1>6, SuppressWithin DEF Typed, Bounded, TypeOK, Transcripts
<1> QED BY <1>5, <1>6, <1>7, <1>8, <1>9, <1>10 DEF IInv

LEMMA NextRequestStep ==
  ASSUME IInv, NextRequest
  PROVE  IInv'
<1>1. Typed /\ rid \in Nat /\ tx.rid \in Nat /\ tx.rid <= rid /\ \A r \in Requests : r \in Nat
  BY TypeGivesTyped DEF IInv, Typed, Requests, Transcripts, InStep
<1>2. /\ rid' = rid + 1 /\ rid' \in Requests /\ on' = TRUE /\ heard' = <<>> /\ rolling' = FALSE /\ rolls' = 0
      /\ UNCHANGED <<tx, suppress, shown, final, erred>>
  BY <1>1 DEF NextRequest, Requests
<1>3. Typed'
  <2>1. 0 \in 0..MaxRolls /\ <<>> \in Text
    BY EmptySeq DEF Text
  <2> QED BY <1>1, <1>2, <2>1 DEF Typed
<1>4. Bounded'
  <2> DEFINE p == (rid - 1) * MaxRolls
             n == (rid + 1 - 1) * MaxRolls
  <2>1. p \in Nat /\ n = p + MaxRolls /\ suppress <= p + rolls
    BY <1>1, RollsBefore DEF IInv, Bounded, Typed
  <2> HIDE DEF p, n
  <2>2. suppress <= n + 0
    BY <1>1, <2>1 DEF Typed
  <2>3. (rid' - 1) * MaxRolls + rolls' = n + 0
    <3>1. rid' - 1 = rid + 1 - 1
      <4>1. rid' = rid + 1
        BY <1>2
      <4> QED BY <1>1, <4>1
    <3>2. (rid' - 1) * MaxRolls = n
      BY <3>1 DEF n
    <3> HIDE DEF n
    <3> QED BY <1>2, <3>2
  <2> QED BY <1>2, <2>2, <2>3 DEF Bounded
<1>5. InStep'
  <2>1. tx.rid <= rid + 1 /\ tx.rid # rid + 1
    BY <1>1
  <2>2. Merged(tx)' = Merged(tx)
    BY <1>2 DEF Merged, From
  <2> QED BY <1>2, <2>1, <2>2 DEF IInv, InStep
<1>6. OnlyRepeatsCut'
  BY <1>2 DEF IInv, OnlyRepeatsCut, Oldest
<1>7. Untold'
  <2>1. \A r \in Requests : r > rid + 1 => r > rid
    BY <1>1
  <2>2. rid + 1 > rid
    BY <1>1
  <2> QED BY <1>2, <2>1, <2>2 DEF IInv, Untold
<1>8. FinalIsTokens'
  BY <1>2 DEF IInv, FinalIsTokens
<1>9. TypeOK'
  BY <1>3, <1>4, SuppressWithin DEF Typed, Bounded, TypeOK, Transcripts
<1> QED BY <1>4, <1>5, <1>6, <1>7, <1>8, <1>9 DEF IInv

LEMMA StutterStep ==
  ASSUME IInv, UNCHANGED vars
  PROVE  IInv'
BY DEF IInv, vars, TypeOK, Bounded, InStep, OnlyRepeatsCut, Untold, FinalIsTokens, Merged, From, Oldest

LEMMA InvariantHolds == Spec => []IInv
<1>1. IInv /\ [Next]_vars => IInv'
  BY DeltaStep, DoneStep, RollStep, ErrorStep, NextRequestStep, StutterStep DEF Next
<1> QED BY InitInv, <1>1, PTL DEF Spec
-----------------------------------------------------------------------------
\* Every variable keeps its type, suppress is within the rolls there can be,
\* and no more of a segment is cut off than it has.
THEOREM TranscriptTypeCorrect == Spec => []TypeOK
<1>1. IInv => TypeOK
  BY DEF IInv
<1> QED BY InvariantHolds, <1>1, PTL

\* Between events the client has all the text there is (envelope.py's merge
\* and its prefix check withhold no delta).
THEOREM NothingWithheldAlways == Spec => []NothingWithheld
<1>1. IInv => NothingWithheld
  BY DEF IInv, InStep, NothingWithheld
<1> QED BY InvariantHolds, <1>1, PTL

\* What is cut off a segment repeats the end of the text before it.
THEOREM OnlyRepeatsCutAlways == Spec => []OnlyRepeatsCut
<1>1. IInv => OnlyRepeatsCut
  BY DEF IInv
<1> QED BY InvariantHolds, <1>1, PTL

\* The final text is what the tokens add up to, for every request without an
\* error frame.
THEOREM FinalIsTokensAlways == Spec => []FinalIsTokens
<1>1. IInv => FinalIsTokens
  BY DEF IInv
<1> QED BY InvariantHolds, <1>1, PTL
=============================================================================
