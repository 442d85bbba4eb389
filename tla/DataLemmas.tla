----------------------------- MODULE DataLemmas -----------------------------
(***************************************************************************)
(* Facts about natural numbers, sums, sequences that the proofs of several *)
(* components cite. Induction is over sets: a set of naturals that holds 0 *)
(* and the successor of each element holds them all, because the order on  *)
(* Nat is well-founded.                                                    *)
(***************************************************************************)
EXTENDS Integers, Sequences, FiniteSets, FiniteSetsExt, Functions,
        FiniteSetTheorems, SequenceTheorems, WellFoundedInduction, TLAPS

LEMMA LeastNat ==
  ASSUME NEW T, T \subseteq Nat, T # {}
  PROVE  \E x \in T : \A y \in T : x <= y
<1> DEFINE R == OpToRel(<, Nat)
<1>1. IsWellFoundedOn(R, Nat)
  BY NatLessThanWellFounded
<1>2. \A x, y \in Nat : y < x => <<y, x>> \in R
  BY DEF OpToRel
<1> HIDE DEF R
<1>3. PICK x \in T : \A y \in T : ~ (<<y, x>> \in R)
  BY <1>1, WFMin
<1>4. ASSUME NEW y \in T PROVE x <= y
  <2>1. x \in Nat /\ y \in Nat
    OBVIOUS
  <2>2. ~(y < x)
    BY <1>2, <1>3, <2>1
  <2> QED BY <2>1, <2>2
<1> QED BY <1>4

LEMMA NatInd ==
  ASSUME NEW G, 0 \in G, \A n \in Nat : n \in G => n + 1 \in G
  PROVE  Nat \subseteq G
<1> SUFFICES ASSUME Nat \ G # {} PROVE FALSE
  OBVIOUS
<1>1. PICK x \in Nat \ G : \A y \in Nat \ G : x <= y
  <2>1. Nat \ G \subseteq Nat
    OBVIOUS
  <2> QED BY <2>1, LeastNat
<1>2. x - 1 \in Nat
  BY <1>1
<1>3. x - 1 \in G
  BY <1>1, <1>2
<1> QED BY <1>2, <1>3

\* The smallest element of a set of naturals.
LEMMA MinFacts ==
  ASSUME NEW T, T \subseteq Nat, T # {}
  PROVE  Min(T) \in T /\ \A y \in T : Min(T) <= y
BY LeastNat DEF Min

\* The greatest element of a bounded set of naturals.
LEMMA MaxFacts ==
  ASSUME NEW T, T \subseteq Nat, T # {}, NEW b \in Nat, \A y \in T : y <= b
  PROVE  Max(T) \in T /\ \A y \in T : Max(T) >= y
<1> DEFINE C == {n \in Nat : \A y \in T : y <= n}
<1>1. PICK n \in C : \A m \in C : n <= m
  <2>1. b \in C /\ C \subseteq Nat
    OBVIOUS
  <2> QED BY <2>1, LeastNat
<1>2. n \in T
  <2> SUFFICES ASSUME n \notin T PROVE FALSE
    OBVIOUS
  <2>1. PICK t \in T : TRUE
    OBVIOUS
  <2>2. n \in Nat /\ t <= n /\ t # n /\ t \in Nat
    BY <1>1, <2>1
  <2>3. n - 1 \in C
    <3>1. \A y \in T : y \in Nat /\ y <= n /\ y # n
      BY <1>1
    <3> QED BY <2>2, <3>1
  <2> QED BY <1>1, <2>2, <2>3
<1> QED BY <1>1, <1>2 DEF Max
-----------------------------------------------------------------------------
(* Sums over finite sets.                                                    *)

Choice(s) == CHOOSE x \in s : TRUE
SumsOver(f, U, g) ==
  g = [s \in SUBSET U |-> IF s = {} THEN 0 ELSE f[Choice(s)] + g[s \ {Choice(s)}]]

LEMMA SumIsChosen ==
  ASSUME NEW f, NEW U
  PROVE  SumFunctionOnSet(f, U) = (CHOOSE g : SumsOver(f, U, g))[U]
BY DEF SumFunctionOnSet, FoldFunctionOnSet, MapThenFoldSet, SumsOver, Choice

LEMMA ChoiceIn ==
  ASSUME NEW s, s # {}
  PROVE  Choice(s) \in s
BY DEF Choice

\* The function the sum is defined by exists.
LEMMA SumsExist ==
  ASSUME NEW f, NEW U, IsFiniteSet(U), \A x \in U : f[x] \in Int
  PROVE  \E g \in [SUBSET U -> Int] : SumsOver(f, U, g)
<1> DEFINE Small(n) == {s \in SUBSET U : Cardinality(s) <= n}
           Sum(g, s) == IF s = {} THEN 0 ELSE f[Choice(s)] + g[s \ {Choice(s)}]
           Partial(n, g) == g \in [Small(n) -> Int] /\ \A s \in Small(n) : g[s] = Sum(g, s)
           G == {n \in Nat : \E g : Partial(n, g)}
<1>1. \A s \in SUBSET U : IsFiniteSet(s) /\ Cardinality(s) \in Nat /\ Cardinality(s) <= Cardinality(U)
  BY FS_Subset, FS_CardinalityType
<1>2. ASSUME NEW n \in Nat, NEW s \in Small(n + 1), s # {}
      PROVE  s \ {Choice(s)} \in Small(n) /\ Choice(s) \in U
  <2>1. Choice(s) \in s
    BY <1>2, ChoiceIn
  <2>2. IsFiniteSet(s) /\ Cardinality(s) \in Nat /\ Cardinality(s) <= n + 1
    BY <1>1
  <2>3. Cardinality(s \ {Choice(s)}) = Cardinality(s) - 1
    BY <2>1, <2>2, FS_RemoveElement
  <2> QED BY <2>1, <2>2, <2>3
<1>3. 0 \in G
  <2>1. \A s \in Small(0) : s = {}
    BY <1>1, FS_EmptySet
  <2>2. Partial(0, [s \in Small(0) |-> 0])
    BY <2>1
  <2> QED BY <2>2
<1>4. ASSUME NEW n \in Nat, n \in G PROVE n + 1 \in G
  <2>1. PICK g : Partial(n, g)
    BY <1>4
  <2> DEFINE h == [s \in Small(n + 1) |-> Sum(g, s)]
  <2>2. \A s \in Small(n) : s \in Small(n + 1) /\ h[s] = g[s]
    BY <2>1, <1>1
  <2>3. \A s \in Small(n + 1) : h[s] = Sum(h, s) /\ h[s] \in Int
    <3> SUFFICES ASSUME NEW s \in Small(n + 1) PROVE h[s] = Sum(h, s) /\ h[s] \in Int
      OBVIOUS
    <3>1. CASE s = {}
      BY <3>1
    <3>2. CASE s # {}
      <4>1. s \ {Choice(s)} \in Small(n) /\ Choice(s) \in U
        BY <1>2, <3>2
      <4>2. h[s] = f[Choice(s)] + g[s \ {Choice(s)}]
        BY <3>2
      <4>3. g[s \ {Choice(s)}] \in Int /\ f[Choice(s)] \in Int
        BY <2>1, <4>1
      <4>4. h[s \ {Choice(s)}] = g[s \ {Choice(s)}]
        BY <2>2, <4>1
      <4> HIDE DEF h
      <4> QED BY <3>2, <4>2, <4>3, <4>4
    <3> QED BY <3>1, <3>2
  <2>4. Partial(n + 1, h)
    BY <2>3
  <2> HIDE DEF h, Partial
  <2>5. \E g1 : Partial(n + 1, g1)
    BY <2>4
  <2> QED BY <2>5
<1>5. Cardinality(U) \in G
  <2>1. Nat \subseteq G
    <3> HIDE DEF G
    <3> QED BY <1>3, <1>4, NatInd
  <2> QED BY <2>1, <1>1
<1>6. PICK g : Partial(Cardinality(U), g)
  BY <1>5
<1>7. Small(Cardinality(U)) = SUBSET U
  BY <1>1
<1>8. g \in [SUBSET U -> Int] /\ \A s \in SUBSET U : g[s] = Sum(g, s)
  BY <1>6, <1>7
<1>9. g = [s \in SUBSET U |-> Sum(g, s)]
  BY <1>8
<1> QED BY <1>8, <1>9 DEF SumsOver

\* Sums over parts of two functions that agree there are the same.
LEMMA SumsAgree ==
  ASSUME NEW f, NEW U, NEW g1, SumsOver(f, U, g1),
         NEW h, NEW V, NEW g2, SumsOver(h, V, g2),
         IsFiniteSet(U), U \subseteq V, \A x \in U : f[x] = h[x]
  PROVE  \A s \in SUBSET U : g1[s] = g2[s]
<1> DEFINE G == {n \in Nat : \A s \in SUBSET U : Cardinality(s) = n => g1[s] = g2[s]}
<1>1. \A s \in SUBSET U : IsFiniteSet(s) /\ Cardinality(s) \in Nat
  BY FS_Subset, FS_CardinalityType
<1>2. \A s \in SUBSET U :
        /\ g1[s] = IF s = {} THEN 0 ELSE f[Choice(s)] + g1[s \ {Choice(s)}]
        /\ g2[s] = IF s = {} THEN 0 ELSE h[Choice(s)] + g2[s \ {Choice(s)}]
  BY DEF SumsOver
<1>3. 0 \in G
  BY <1>1, <1>2, FS_EmptySet
<1>4. ASSUME NEW n \in Nat, n \in G PROVE n + 1 \in G
  <2> SUFFICES ASSUME NEW s \in SUBSET U, Cardinality(s) = n + 1 PROVE g1[s] = g2[s]
    OBVIOUS
  <2>1. s # {}
    BY FS_EmptySet
  <2>2. Choice(s) \in s
    BY <2>1, ChoiceIn
  <2>3. Cardinality(s \ {Choice(s)}) = n
    <3>1. IsFiniteSet(s) /\ Cardinality(s) = n + 1
      BY <1>1
    <3>2. Cardinality(s \ {Choice(s)}) = Cardinality(s) - 1
      BY <2>2, <3>1, FS_RemoveElement
    <3> QED BY <3>1, <3>2
  <2>4. g1[s \ {Choice(s)}] = g2[s \ {Choice(s)}]
    BY <1>4, <2>3
  <2>5. f[Choice(s)] = h[Choice(s)]
    BY <2>2
  <2> QED BY <1>2, <2>1, <2>4, <2>5
<1> HIDE DEF G
<1>5. Nat \subseteq G
  BY <1>3, <1>4, NatInd
<1> QED BY <1>1, <1>5 DEF G

LEMMA SumOver ==
  ASSUME NEW f, NEW U, IsFiniteSet(U), \A x \in U : f[x] \in Int
  PROVE  \E g \in [SUBSET U -> Int] :
           SumsOver(f, U, g) /\ \A s \in SUBSET U : g[s] = SumFunctionOnSet(f, s)
<1> DEFINE The(V) == CHOOSE g : SumsOver(f, V, g)
<1>1. ASSUME NEW s \in SUBSET U
      PROVE  SumsOver(f, s, The(s)) /\ SumFunctionOnSet(f, s) = The(s)[s] /\ IsFiniteSet(s)
  <2>1. IsFiniteSet(s)
    BY FS_Subset
  <2>2. \E g : SumsOver(f, s, g)
    BY <2>1, SumsExist
  <2> QED BY <2>1, <2>2, SumIsChosen
<1> HIDE DEF The
<1>2. PICK g \in [SUBSET U -> Int] : SumsOver(f, U, g)
  BY SumsExist
<1>3. ASSUME NEW s \in SUBSET U PROVE g[s] = SumFunctionOnSet(f, s)
  <2>1. SumsOver(f, s, The(s)) /\ SumFunctionOnSet(f, s) = The(s)[s] /\ IsFiniteSet(s)
    BY <1>1
  <2>2. PICK g1 : g1 = The(s)
    OBVIOUS
  <2> HIDE DEF SumsOver
  <2>3. s \subseteq U /\ IsFiniteSet(s)
    BY <2>1
  <2>4. SumsOver(f, U, g) /\ SumsOver(f, s, g1)
    BY <1>2, <2>1, <2>2
  <2>5. \A r \in SUBSET s : g1[r] = g[r]
    BY <2>3, <2>4, SumsAgree
  <2> QED BY <2>1, <2>2, <2>5
<1> QED BY <1>2, <1>3

LEMMA SumType ==
  ASSUME NEW f, NEW U, IsFiniteSet(U), \A x \in U : f[x] \in Int
  PROVE  SumFunctionOnSet(f, U) \in Int
<1>1. PICK g \in [SUBSET U -> Int] : \A s \in SUBSET U : g[s] = SumFunctionOnSet(f, s)
  BY SumOver
<1>2. g[U] \in Int
  BY <1>1
<1> QED BY <1>1, <1>2

LEMMA SumEmpty ==
  ASSUME NEW f
  PROVE  SumFunctionOnSet(f, {}) = 0
<1>1. PICK g \in [SUBSET {} -> Int] :
        SumsOver(f, {}, g) /\ \A s \in SUBSET {} : g[s] = SumFunctionOnSet(f, s)
  BY SumOver, FS_EmptySet
<1> QED BY <1>1 DEF SumsOver

LEMMA SumSame ==
  ASSUME NEW f, NEW h, NEW U, IsFiniteSet(U), \A x \in U : f[x] \in Int /\ h[x] = f[x]
  PROVE  SumFunctionOnSet(f, U) = SumFunctionOnSet(h, U)
<1>1. PICK g1 \in [SUBSET U -> Int] :
        SumsOver(f, U, g1) /\ \A s \in SUBSET U : g1[s] = SumFunctionOnSet(f, s)
  BY SumOver
<1>2. PICK g2 \in [SUBSET U -> Int] :
        SumsOver(h, U, g2) /\ \A s \in SUBSET U : g2[s] = SumFunctionOnSet(h, s)
  BY SumOver
<1>3. \A s \in SUBSET U : g1[s] = g2[s]
  BY <1>1, <1>2, SumsAgree
<1> QED BY <1>1, <1>2, <1>3

\* The order of summing does not matter: any element may be the last.
LEMMA SumAnyElement ==
  ASSUME NEW f, NEW U, IsFiniteSet(U), \A x \in U : f[x] \in Int, NEW x \in U
  PROVE  SumFunctionOnSet(f, U) = f[x] + SumFunctionOnSet(f, U \ {x})
<1>1. PICK g \in [SUBSET U -> Int] :
        SumsOver(f, U, g) /\ \A s \in SUBSET U : g[s] = SumFunctionOnSet(f, s)
  BY SumOver
<1>2. \A s \in SUBSET U : IsFiniteSet(s) /\ Cardinality(s) \in Nat
  BY FS_Subset, FS_CardinalityType
<1>3. \A s \in SUBSET U : s # {} => g[s] = f[Choice(s)] + g[s \ {Choice(s)}]
  BY <1>1 DEF SumsOver
<1> DEFINE G == {n \in Nat : \A s \in SUBSET U : Cardinality(s) = n
                               => \A y \in s : g[s] = f[y] + g[s \ {y}]}
<1>4. 0 \in G
  BY <1>2, FS_EmptySet
<1>5. ASSUME NEW n \in Nat, n \in G PROVE n + 1 \in G
  <2> SUFFICES ASSUME NEW s \in SUBSET U, Cardinality(s) = n + 1, NEW y \in s
               PROVE  g[s] = f[y] + g[s \ {y}]
    OBVIOUS
  <2> DEFINE c == Choice(s)
  <2>1. c \in s
    BY ChoiceIn
  <2> HIDE DEF c
  <2>2. g[s] = f[c] + g[s \ {c}]
    BY <1>3 DEF c
  <2>3. CASE y = c
    BY <2>2, <2>3
  <2>4. CASE y # c
    <3>1. Cardinality(s \ {c}) = n /\ Cardinality(s \ {y}) = n
      <4>1. IsFiniteSet(s) /\ Cardinality(s) = n + 1
        BY <1>2
      <4>2. \A z \in s : Cardinality(s \ {z}) = Cardinality(s) - 1
        BY <4>1, FS_RemoveElement
      <4> QED BY <2>1, <4>1, <4>2
    <3>2. g[s \ {c}] = f[y] + g[(s \ {c}) \ {y}]
      BY <1>5, <2>4, <3>1
    <3>3. g[s \ {y}] = f[c] + g[(s \ {y}) \ {c}]
      BY <1>5, <2>1, <2>4, <3>1
    <3>4. (s \ {c}) \ {y} = (s \ {y}) \ {c}
      OBVIOUS
    <3>5. /\ f[c] \in Int /\ f[y] \in Int /\ g[(s \ {y}) \ {c}] \in Int
      BY <1>1, <2>1
    <3>6. g[s] = f[c] + (f[y] + g[(s \ {y}) \ {c}])
      BY <2>2, <3>2, <3>4
    <3> QED BY <3>3, <3>5, <3>6
  <2> QED BY <2>3, <2>4
<1> HIDE DEF G
<1>6. Nat \subseteq G
  BY <1>4, <1>5, NatInd
<1>7. g[U] = f[x] + g[U \ {x}]
  BY <1>2, <1>6 DEF G
<1> QED BY <1>1, <1>7

LEMMA SumIsNat ==
  ASSUME NEW f, NEW U, IsFiniteSet(U), \A x \in U : f[x] \in Nat
  PROVE  SumFunctionOnSet(f, U) \in Nat
<1>1. PICK g \in [SUBSET U -> Int] :
        SumsOver(f, U, g) /\ \A s \in SUBSET U : g[s] = SumFunctionOnSet(f, s)
  <2>1. \A x \in U : f[x] \in Int
    OBVIOUS
  <2> QED BY <2>1, SumOver
<1>2. \A s \in SUBSET U : IsFiniteSet(s) /\ Cardinality(s) \in Nat
  BY FS_Subset, FS_CardinalityType
<1> DEFINE G == {n \in Nat : \A s \in SUBSET U : Cardinality(s) = n => g[s] \in Nat}
<1>3. 0 \in G
  BY <1>1, <1>2, FS_EmptySet DEF SumsOver
<1>4. ASSUME NEW n \in Nat, n \in G PROVE n + 1 \in G
  <2> SUFFICES ASSUME NEW s \in SUBSET U, Cardinality(s) = n + 1 PROVE g[s] \in Nat
    OBVIOUS
  <2>1. s # {}
    BY <1>2, FS_EmptySet
  <2> DEFINE c == Choice(s)
  <2>2. c \in s
    BY <2>1, ChoiceIn
  <2>3. g[s] = f[c] + g[s \ {c}]
    BY <1>1, <2>1 DEF SumsOver
  <2> HIDE DEF c
  <2>4. Cardinality(s \ {c}) = n
    <3>1. IsFiniteSet(s) /\ Cardinality(s) = n + 1
      BY <1>2
    <3>2. Cardinality(s \ {c}) = Cardinality(s) - 1
      BY <2>2, <3>1, FS_RemoveElement
    <3> QED BY <3>1, <3>2
  <2>5. g[s \ {c}] \in Nat /\ f[c] \in Nat
    BY <1>4, <2>2, <2>4
  <2> QED BY <2>3, <2>5
<1> HIDE DEF G
<1>5. Nat \subseteq G
  BY <1>3, <1>4, NatInd
<1>6. g[U] \in Nat
  BY <1>2, <1>5 DEF G
<1> QED BY <1>1, <1>6
-----------------------------------------------------------------------------
(* Sums of sequences.                                                        *)

LEMMA SeqSum ==
  ASSUME NEW s \in Seq(Int)
  PROVE  /\ SumFunction(s) = SumFunctionOnSet(s, 1..Len(s)) /\ SumFunction(s) \in Int
         /\ IsFiniteSet(1..Len(s)) /\ \A i \in 1..Len(s) : s[i] \in Int
<1>1. DOMAIN s = 1..Len(s) /\ Len(s) \in Nat /\ \A i \in 1..Len(s) : s[i] \in Int
  BY LenProperties, ElementOfSeq
<1>2. IsFiniteSet(1..Len(s))
  BY <1>1, FS_Interval
<1>3. SumFunctionOnSet(s, 1..Len(s)) \in Int
  BY <1>1, <1>2, SumType
<1> QED BY <1>1, <1>2, <1>3 DEF SumFunction

LEMMA SeqSumNat ==
  ASSUME NEW s \in Seq(Nat)
  PROVE  SumFunction(s) \in Nat
<1>1. s \in Seq(Int)
  BY SeqMonotonic
<1>2. \A i \in 1..Len(s) : s[i] \in Nat
  BY ElementOfSeq
<1> QED BY <1>1, <1>2, SeqSum, SumIsNat

LEMMA SeqSumEmpty ==
  SumFunction(<<>>) = 0
<1>1. DOMAIN << >> = {}
  OBVIOUS
<1> QED BY <1>1, SumEmpty DEF SumFunction

LEMMA SeqSumAppend ==
  ASSUME NEW s \in Seq(Int), NEW x \in Int
  PROVE  SumFunction(Append(s, x)) = SumFunction(s) + x
<1> DEFINE t == Append(s, x)
           n == Len(s) + 1
<1>1. t \in Seq(Int) /\ Len(t) = n /\ t[n] = x /\ \A i \in 1..Len(s) : t[i] = s[i]
  BY AppendProperties
<1>2. Len(s) \in Nat
  BY LenProperties
<1> HIDE DEF t
<1>3. (1..n) \ {n} = 1..Len(s) /\ n \in 1..n
  BY <1>2
<1>4. SumFunction(t) = SumFunctionOnSet(t, 1..n) /\ IsFiniteSet(1..n) /\ \A i \in 1..n : t[i] \in Int
  BY <1>1, SeqSum
<1>5. SumFunctionOnSet(t, 1..n) = t[n] + SumFunctionOnSet(t, (1..n) \ {n})
  BY <1>3, <1>4, SumAnyElement
<1>6. SumFunctionOnSet(s, 1..Len(s)) = SumFunctionOnSet(t, 1..Len(s))
  <2>1. IsFiniteSet(1..Len(s)) /\ \A i \in 1..Len(s) : s[i] \in Int /\ t[i] = s[i]
    BY <1>1, SeqSum
  <2> QED BY <2>1, SumSame
<1>7. SumFunction(t) = x + SumFunction(s)
  BY <1>1, <1>3, <1>4, <1>5, <1>6, SeqSum
<1> QED BY <1>7, SeqSum DEF t

LEMMA SeqSumConcat ==
  ASSUME NEW s \in Seq(Int), NEW t \in Seq(Int)
  PROVE  SumFunction(s \o t) = SumFunction(s) + SumFunction(t)
<1> DEFINE G == {n \in Nat : \A u \in Seq(Int) : Len(u) = n
                               => SumFunction(s \o u) = SumFunction(s) + SumFunction(u)}
<1>1. 0 \in G
  <2> SUFFICES ASSUME NEW u \in Seq(Int), Len(u) = 0
               PROVE  SumFunction(s \o u) = SumFunction(s) + SumFunction(u)
    OBVIOUS
  <2>1. u = <<>>
    BY EmptySeq
  <2>2. s \o u = s
    BY <2>1, ConcatEmptySeq
  <2>3. SumFunction(s) \in Int /\ SumFunction(u) = 0
    BY <2>1, SeqSum, SeqSumEmpty
  <2> QED BY <2>2, <2>3
<1>2. ASSUME NEW n \in Nat, n \in G PROVE n + 1 \in G
  <2> SUFFICES ASSUME NEW u \in Seq(Int), Len(u) = n + 1
               PROVE  SumFunction(s \o u) = SumFunction(s) + SumFunction(u)
    OBVIOUS
  <2>1. u # <<>>
    BY EmptySeq
  <2>2. PICK v \in Seq(Int), x \in Int : u = Append(v, x)
    BY <2>1, SequenceEmptyOrAppend
  <2>3. Len(v) = n
    BY <2>2, AppendProperties, LenProperties
  <2>4. SumFunction(s \o v) = SumFunction(s) + SumFunction(v)
    BY <1>2, <2>3
  <2>5. s \o v \in Seq(Int) /\ s \o u = Append(s \o v, x)
    BY <2>2
  <2>6. SumFunction(s \o u) = SumFunction(s \o v) + x /\ SumFunction(u) = SumFunction(v) + x
    BY <2>2, <2>5, SeqSumAppend
  <2>7. SumFunction(s) \in Int /\ SumFunction(v) \in Int
    BY SeqSum
  <2> QED BY <2>4, <2>6, <2>7
<1> HIDE DEF G
<1>3. Nat \subseteq G
  BY <1>1, <1>2, NatInd
<1>4. Len(t) \in Nat
  BY LenProperties
<1> QED BY <1>3, <1>4 DEF G

LEMMA SeqSumTail ==
  ASSUME NEW s \in Seq(Int), s # <<>>
  PROVE  /\ Tail(s) \in Seq(Int) /\ Head(s) \in Int
         /\ SumFunction(s) = Head(s) + SumFunction(Tail(s))
<1>1. Tail(s) \in Seq(Int) /\ Head(s) \in Int /\ <<Head(s)>> \in Seq(Int)
  BY HeadTailProperties
<1>2. s = <<Head(s)>> \o Tail(s)
  OBVIOUS
<1>3. <<Head(s)>> = Append(<<>>, Head(s)) /\ <<>> \in Seq(Int)
  OBVIOUS
<1>4. SumFunction(<<Head(s)>>) = Head(s)
  <2>1. SumFunction(Append(<<>>, Head(s))) = SumFunction(<<>>) + Head(s)
    BY <1>1, <1>3, SeqSumAppend
  <2> QED BY <1>1, <1>3, <2>1, SeqSumEmpty
<1> QED BY <1>1, <1>2, <1>4, SeqSumConcat
-----------------------------------------------------------------------------
(* Parts of sequences, and their sums.                                       *)

LEMMA SubSeqFacts ==
  ASSUME NEW S, NEW s \in Seq(S), NEW i \in 1..Len(s) + 1, NEW j \in 0..Len(s)
  PROVE  /\ SubSeq(s, i, j) \in Seq(S)
         /\ Len(SubSeq(s, i, j)) = IF i <= j THEN j - i + 1 ELSE 0
         /\ \A m \in 1..j - i + 1 : SubSeq(s, i, j)[m] = s[i + m - 1]
<1>1. Len(s) \in Nat /\ \A m \in i..j : s[m] \in S
  BY LenProperties, ElementOfSeq
<1> QED BY <1>1, SubSeqProperties

LEMMA SubSeqAppend ==
  ASSUME NEW S, NEW s \in Seq(S), NEW x \in S, NEW i \in 1..Len(s) + 1
  PROVE  /\ \A j \in 0..Len(s) : SubSeq(Append(s, x), i, j) = SubSeq(s, i, j)
         /\ SubSeq(Append(s, x), i, Len(s) + 1) = Append(SubSeq(s, i, Len(s)), x)
<1> DEFINE t == Append(s, x)
<1>1. /\ Len(s) \in Nat /\ t \in Seq(S) /\ Len(t) = Len(s) + 1
      /\ \A m \in 1..Len(s) : t[m] = s[m]
      /\ t[Len(s) + 1] = x
  BY LenProperties, AppendProperties
<1> HIDE DEF t
<1>2. ASSUME NEW j \in 0..Len(s) PROVE SubSeq(t, i, j) = SubSeq(s, i, j)
  <2>1. /\ SubSeq(s, i, j) \in Seq(S) /\ SubSeq(t, i, j) \in Seq(S)
        /\ Len(SubSeq(s, i, j)) = Len(SubSeq(t, i, j))
    BY <1>1, SubSeqFacts
  <2>2. /\ Len(SubSeq(s, i, j)) = IF i <= j THEN j - i + 1 ELSE 0
        /\ \A m \in 1..j - i + 1 : SubSeq(s, i, j)[m] = s[i + m - 1] /\ SubSeq(t, i, j)[m] = t[i + m - 1]
    BY <1>1, SubSeqFacts
  <2>3. \A m \in 1..Len(SubSeq(s, i, j)) : SubSeq(s, i, j)[m] = SubSeq(t, i, j)[m]
    BY <1>1, <2>2
  <2> QED BY <2>1, <2>3, SeqEqual
<1>3. SubSeq(t, i, Len(s) + 1) = Append(SubSeq(s, i, Len(s)), x)
  <2> DEFINE u == SubSeq(s, i, Len(s))
             v == SubSeq(t, i, Len(s) + 1)
  <2>1. /\ u \in Seq(S) /\ Len(u) = Len(s) - i + 1
        /\ \A m \in 1..Len(u) : u[m] = s[i + m - 1]
    BY <1>1, SubSeqFacts
  <2>2. /\ v \in Seq(S) /\ Len(v) = Len(s) - i + 2
        /\ \A m \in 1..Len(v) : v[m] = t[i + m - 1]
    BY <1>1, SubSeqFacts
  <2> HIDE DEF u, v
  <2>3. /\ Append(u, x) \in Seq(S) /\ Len(Append(u, x)) = Len(v)
        /\ \A m \in 1..Len(u) : Append(u, x)[m] = u[m]
        /\ Append(u, x)[Len(u) + 1] = x
    <3>1. Len(v) = Len(u) + 1
      BY <1>1, <2>1, <2>2
    <3> QED BY <2>1, <3>1, AppendProperties
  <2>4. \A m \in 1..Len(v) : Append(u, x)[m] = v[m]
    <3> SUFFICES ASSUME NEW m \in 1..Len(v) PROVE Append(u, x)[m] = v[m]
      OBVIOUS
    <3>1. v[m] = t[i + m - 1] /\ Len(v) = Len(u) + 1 /\ Len(u) = Len(s) - i + 1
      BY <1>1, <2>1, <2>2
    <3>2. CASE m \in 1..Len(u)
      <4>1. i + m - 1 \in 1..Len(s)
        BY <1>1, <3>1, <3>2
      <4> QED BY <1>1, <2>1, <2>3, <3>1, <3>2, <4>1
    <3>3. CASE m \notin 1..Len(u)
      <4>1. m = Len(u) + 1 /\ i + m - 1 = Len(s) + 1
        BY <1>1, <3>1, <3>3
      <4> QED BY <1>1, <2>3, <3>1, <4>1
    <3> QED BY <3>2, <3>3
  <2>5. Append(u, x) = v
    BY <2>2, <2>3, <2>4, SeqEqual
  <2> QED BY <2>5 DEF u, v
<1> QED BY <1>2, <1>3 DEF t

LEMMA SubSeqShift ==
  ASSUME NEW S, NEW s \in Seq(S), NEW k \in 0..Len(s),
         NEW i \in 1..Len(s) - k + 1, NEW j \in 0..Len(s) - k
  PROVE  SubSeq(SubSeq(s, k + 1, Len(s)), i, j) = SubSeq(s, k + i, k + j)
<1> DEFINE t == SubSeq(s, k + 1, Len(s))
<1>1. /\ Len(s) \in Nat /\ t \in Seq(S) /\ Len(t) = Len(s) - k
      /\ \A m \in 1..Len(s) - k : t[m] = s[k + m]
  BY LenProperties, SubSeqFacts
<1> HIDE DEF t
<1>2. /\ SubSeq(t, i, j) \in Seq(S) /\ Len(SubSeq(t, i, j)) = IF i <= j THEN j - i + 1 ELSE 0
      /\ \A m \in 1..j - i + 1 : SubSeq(t, i, j)[m] = t[i + m - 1]
  BY <1>1, SubSeqFacts
<1>3. /\ SubSeq(s, k + i, k + j) \in Seq(S)
      /\ Len(SubSeq(s, k + i, k + j)) = IF i <= j THEN j - i + 1 ELSE 0
      /\ \A m \in 1..j - i + 1 : SubSeq(s, k + i, k + j)[m] = s[k + i + m - 1]
  BY <1>1, SubSeqFacts
<1>4. \A m \in 1..Len(SubSeq(t, i, j)) : SubSeq(t, i, j)[m] = SubSeq(s, k + i, k + j)[m]
  <2> SUFFICES ASSUME NEW m \in 1..Len(SubSeq(t, i, j))
               PROVE  SubSeq(t, i, j)[m] = SubSeq(s, k + i, k + j)[m]
    OBVIOUS
  <2>1. m \in 1..j - i + 1 /\ i + m - 1 \in 1..Len(s) - k
    BY <1>1, <1>2
  <2>2. SubSeq(t, i, j)[m] = t[i + m - 1] /\ t[i + m - 1] = s[k + (i + m - 1)]
    BY <1>1, <1>2, <2>1
  <2>3. k + (i + m - 1) = k + i + m - 1
    BY <1>1, <2>1
  <2>4. SubSeq(s, k + i, k + j)[m] = s[k + i + m - 1]
    BY <1>3, <2>1
  <2> QED BY <2>2, <2>3, <2>4
<1>5. SubSeq(t, i, j) = SubSeq(s, k + i, k + j)
  BY <1>2, <1>3, <1>4, SeqEqual
<1> QED BY <1>5 DEF t

LEMMA SumWindow ==
  ASSUME NEW s \in Seq(Nat), NEW i \in 1..Len(s) + 1, NEW j \in i - 1..Len(s), NEW k \in i - 1..j
  PROVE  /\ SumFunction(SubSeq(s, i, j)) = SumFunction(SubSeq(s, i, k)) + SumFunction(SubSeq(s, k + 1, j))
         /\ SumFunction(SubSeq(s, i, j)) \in Nat
         /\ SumFunction(SubSeq(s, i, k)) \in Nat /\ SumFunction(SubSeq(s, k + 1, j)) \in Nat
<1>1. Len(s) \in Nat
  BY LenProperties
<1>2. SubSeq(s, i, k) \in Seq(Nat) /\ SubSeq(s, k + 1, j) \in Seq(Nat) /\ SubSeq(s, i, j) \in Seq(Nat)
  BY <1>1, SubSeqFacts
<1>3. SubSeq(s, i, k) \in Seq(Int) /\ SubSeq(s, k + 1, j) \in Seq(Int)
  BY <1>2, SeqMonotonic
<1>4. SubSeq(s, i, k) \o SubSeq(s, k + 1, j) = SubSeq(s, i, j)
  <2>1. k \in i - 1..Len(s) /\ j \in k..Len(s)
    BY <1>1
  <2> QED BY <2>1, ConcatAdjacentSubSeq
<1> QED BY <1>2, <1>3, <1>4, SeqSumConcat, SeqSumNat

\* Each item is at least 1, so there are no more items than samples.
LEMMA LenWithinSum ==
  ASSUME NEW s \in Seq(Nat \ {0})
  PROVE  Len(s) <= SumFunction(s)
<1> DEFINE P == Nat \ {0}
           G == {n \in Nat : \A u \in Seq(P) : Len(u) = n => Len(u) <= SumFunction(u)}
<1>1. 0 \in G
  <2> SUFFICES ASSUME NEW u \in Seq(P), Len(u) = 0 PROVE Len(u) <= SumFunction(u)
    OBVIOUS
  <2>1. u = <<>>
    BY EmptySeq
  <2> QED BY <2>1, SeqSumEmpty
<1>2. ASSUME NEW n \in Nat, n \in G PROVE n + 1 \in G
  <2> SUFFICES ASSUME NEW u \in Seq(P), Len(u) = n + 1 PROVE Len(u) <= SumFunction(u)
    OBVIOUS
  <2>1. u # <<>>
    BY EmptySeq
  <2>2. PICK v \in Seq(P), x \in P : u = Append(v, x)
    BY <2>1, SequenceEmptyOrAppend
  <2>3. Len(v) = n
    BY <2>2, AppendProperties, LenProperties
  <2>4. v \in Seq(Int) /\ x \in Int
    BY SeqMonotonic
  <2>5. SumFunction(u) = SumFunction(v) + x /\ SumFunction(v) \in Int
    BY <2>2, <2>4, SeqSumAppend, SeqSum
  <2>6. Len(v) <= SumFunction(v)
    BY <1>2, <2>3
  <2> QED BY <2>3, <2>5, <2>6
<1> HIDE DEF G
<1>3. Nat \subseteq G
  BY <1>1, <1>2, NatInd
<1> QED BY <1>3, LenProperties DEF G
=============================================================================
