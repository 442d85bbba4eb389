-------------------------- MODULE ImportCyclesProofs --------------------------
(***************************************************************************)
(* Tarjan's algorithm is right on every finite graph and for every order   *)
(* of visits: what the linting reports as a component is one, whole, and   *)
(* it fails exactly when there is a cycle. The argument is about sets:     *)
(* the nodes that are open (on the stack), those whose visit is under way, *)
(* those that are done, and the imports a visit has still to look at.      *)
(***************************************************************************)
EXTENDS ImportCycles, DataLemmas

\* The nodes whose visit() is under way, and the imports it has not looked at.
NodesOf(f)   == {f[i].node : i \in DOMAIN f}
LeftOf(f, y) == UNION {f[i].left : i \in {j \in DOMAIN f : f[j].node = y}}
Grey       == NodesOf(frames)
Pending(y) == LeftOf(frames, y)
Seen(y)    == edges[y] \ Pending(y)
Open       == ToSet(stack)
Done       == UNION components

Below(n, m) == indexOf[n] <= indexOf[m]

FrameType == [node : Modules, left : SUBSET Modules]
Shapes ==
  TypeOK /\ stack \in Seq(Modules) /\ frames \in Seq(FrameType)

\* Indices are given once, in order.
Numbered ==
  /\ \A n \in Modules : Indexed(n) => indexOf[n] < NextIndex
  /\ \A n, m \in Modules : Indexed(n) /\ indexOf[n] = indexOf[m] => n = m

Sorted(s, index) == \A i, j \in DOMAIN s : i < j => index[s[i]] < index[s[j]]
Nested(f, index) == \A i, j \in DOMAIN f : i < j => index[f[i].node] < index[f[j].node]

\* A visited node is open or done; the stack is in order of index.
Placed ==
  /\ \A n \in Modules : Indexed(n) <=> n \in Open \cup Done
  /\ Open \cap Done = {}
  /\ Sorted(stack, indexOf)

\* So are the visits under way, each called by the one before it.
Calls ==
  /\ Grey \subseteq Open
  /\ \A y \in Modules : Pending(y) \subseteq edges[y]
  /\ Nested(frames, indexOf)

\* No import that was looked at leads to a node that was not visited, and none
\* leads from a node that is done to one that is not.
NoneMissed == \A y \in Modules : Indexed(y) => \A z \in Seen(y) : Indexed(z)

\* A visit under way reaches all that was opened after it, and every open node
\* reaches a visit that was under way when it was opened.
Forward  == \A g \in Grey, y \in Open : Below(g, y) => Reaches(g, y)
Backward == \A y \in Open : \E g \in Grey : Below(g, y) /\ Reaches(y, g)

\* A low link is never too low: it is the index of an open node that is
\* reached. It is never too high: it counts every import that was seen to lead
\* below a visit from a node opened by it and by no visit it called.
LowSound == \A y \in Open : \E m \in Open : indexOf[m] = lowlink[y] /\ Below(m, y) /\ Reaches(y, m)

CalledBy(g, y) == Below(g, y) /\ \A h \in Grey : Below(h, y) => Below(h, g)
LowCounts ==
  \A g \in Grey, y, z \in Open :
    CalledBy(g, y) /\ z \in Seen(y) /\ ~Below(g, z) => lowlink[g] <= indexOf[z]

Reporting ==
  status # Running => frames = <<>> /\ (\A m \in Modules : Indexed(m)) /\ (status = 1 <=> HasCycle)

IInv ==
  /\ Shapes /\ Numbered /\ Placed /\ Calls /\ NoneMissed /\ Complete(Done)
  /\ Forward /\ Backward /\ LowSound /\ LowCounts /\ ComponentsAreMaximal /\ Reporting
-----------------------------------------------------------------------------
(* Reachability.                                                             *)

LEMMA ReachSelf ==
  ASSUME NEW n \in Modules
  PROVE  Reaches(n, n)
BY DEF Reaches

LEMMA ReachImport ==
  ASSUME NEW n \in Modules, NEW m \in edges[n]
  PROVE  Reaches(n, m)
BY DEF Reaches, Complete

LEMMA ReachTrans ==
  ASSUME NEW n \in Modules, NEW m \in Modules, NEW k \in Modules, Reaches(n, m), Reaches(m, k)
  PROVE  Reaches(n, k)
<1> SUFFICES ASSUME NEW t \in SUBSET (Modules \ {k}), n \in t, Complete(t) PROVE FALSE
  BY DEF Reaches
<1>1. CASE m \in t
  BY <1>1 DEF Reaches
<1>2. CASE m \notin t
  BY <1>2 DEF Reaches
<1> QED BY <1>1, <1>2

\* What is reached from a complete set is in it.
LEMMA ReachWithin ==
  ASSUME NEW t \in SUBSET Modules, Complete(t), NEW n \in t, NEW m \in Modules, Reaches(n, m)
  PROVE  m \in t
BY DEF Reaches

\* What is reached from a node, itself apart, is reached from one it imports.
LEMMA ReachFirst ==
  ASSUME edges \in [Modules -> SUBSET Modules],
         NEW n \in Modules, NEW m \in Modules, Reaches(n, m), n # m
  PROVE  \E k \in edges[n] : Reaches(k, m)
<1> DEFINE t == {n} \cup {k \in Modules : \E i \in edges[n] : Reaches(i, k)}
<1>1. ASSUME NEW y \in t, NEW z \in edges[y] PROVE z \in t
  <2>1. y \in Modules /\ z \in Modules
    OBVIOUS
  <2>2. CASE y = n
    BY <2>1, <2>2, ReachSelf
  <2>3. CASE y # n
    <3>1. PICK i \in edges[n] : Reaches(i, y)
      BY <2>3
    <3>2. Reaches(y, z) /\ i \in Modules
      BY <2>1, ReachImport
    <3>3. Reaches(i, z)
      BY <2>1, <3>1, <3>2, ReachTrans
    <3> QED BY <2>1, <3>3
  <2> QED BY <2>2, <2>3
<1>2. Complete(t) /\ t \in SUBSET Modules /\ n \in t
  BY <1>1 DEF Complete
<1>3. m \in t
  <2> HIDE DEF t
  <2> QED BY <1>2, ReachWithin
<1> QED BY <1>3

LEMMA ReachSame ==
  ASSUME UNCHANGED edges
  PROVE  /\ \A n, m : Reaches(n, m)' <=> Reaches(n, m)
         /\ \A t : Complete(t)' <=> Complete(t)
BY DEF Reaches, Complete

LEMMA LeastOfTwo ==
  ASSUME NEW a \in Int, NEW b \in Int
  PROVE  Min({a, b}) = IF a <= b THEN a ELSE b
<1>1. \E x \in {a, b} : \A y \in {a, b} : x <= y
  OBVIOUS
<1> QED BY <1>1 DEF Min

\* Who counts two different elements counts more than one.
LEMMA MoreThanOne ==
  ASSUME NEW c \in SUBSET Modules
  PROVE  Cardinality(c) > 1 <=> \E a, b \in c : a # b
<1>1. IsFiniteSet(c) /\ Cardinality(c) \in Nat
  BY CyclesAssumption, FS_Subset, FS_CardinalityType DEF CyclesAssumption
<1>2. ASSUME NEW a \in c, NEW b \in c, a # b PROVE Cardinality(c) > 1
  <2>1. IsFiniteSet(c \ {a}) /\ Cardinality(c \ {a}) = Cardinality(c) - 1
    BY <1>1, FS_RemoveElement
  <2>2. Cardinality(c \ {a}) # 0
    BY <1>2, <2>1, FS_EmptySet
  <2> QED BY <1>1, <2>1, <2>2, FS_CardinalityType
<1>3. ASSUME Cardinality(c) > 1 PROVE \E a, b \in c : a # b
  <2>1. PICK a \in c : TRUE
    BY <1>1, <1>3, FS_EmptySet
  <2>2. IsFiniteSet(c \ {a}) /\ Cardinality(c \ {a}) = Cardinality(c) - 1
    BY <1>1, FS_RemoveElement
  <2>3. c \ {a} # {}
    BY <1>1, <1>3, <2>2, FS_EmptySet
  <2> QED BY <2>1, <2>3
<1> QED BY <1>2, <1>3
-----------------------------------------------------------------------------
(* Sequences of nodes and of frames, as sets.                                *)

LEMMA FrontLast ==
  ASSUME NEW S, NEW s \in Seq(S), s # <<>>
  PROVE  /\ Front(s) \in Seq(S) /\ Last(s) \in S /\ s = Append(Front(s), Last(s))
         /\ Len(Front(s)) = Len(s) - 1 /\ Len(s) \in Nat \ {0}
         /\ \A i \in 1..Len(s) - 1 : Front(s)[i] = s[i]
<1>1. Len(s) \in Nat \ {0}
  BY EmptySeq, LenProperties
<1>2. /\ Front(s) \in Seq(S) /\ Len(Front(s)) = Len(s) - 1
      /\ \A i \in 1..Len(s) - 1 : Front(s)[i] = s[i]
  <2>1. /\ SubSeq(s, 1, Len(s) - 1) \in Seq(S)
        /\ Len(SubSeq(s, 1, Len(s) - 1)) = IF 1 <= Len(s) - 1 THEN Len(s) - 1 - 1 + 1 ELSE 0
        /\ \A m \in 1..Len(s) - 1 - 1 + 1 : SubSeq(s, 1, Len(s) - 1)[m] = s[1 + m - 1]
    <3>1. 1 \in 1..Len(s) + 1 /\ Len(s) - 1 \in 0..Len(s)
      BY <1>1
    <3> QED BY <3>1, SubSeqFacts
  <2>2. Len(s) - 1 - 1 + 1 = Len(s) - 1 /\ \A m \in 1..Len(s) - 1 : 1 + m - 1 = m
    BY <1>1
  <2>3. 1 <= Len(s) - 1 \/ Len(s) - 1 = 0
    <3>1. \A n \in Nat \ {0} : 1 <= n - 1 \/ n - 1 = 0
      OBVIOUS
    <3> QED BY <1>1, <3>1
  <2> QED BY <2>1, <2>2, <2>3 DEF Front
<1>3. Last(s) \in S
  BY <1>1, ElementOfSeq DEF Last
<1>4. /\ Append(Front(s), Last(s)) \in Seq(S) /\ Len(Append(Front(s), Last(s))) = Len(s)
      /\ \A i \in 1..Len(s) : Append(Front(s), Last(s))[i] = s[i]
  BY <1>1, <1>2, <1>3, AppendProperties DEF Last
<1>5. s = Append(Front(s), Last(s))
  BY <1>4, SeqEqual
<1> QED BY <1>1, <1>2, <1>3, <1>5

LEMMA AppendSets ==
  ASSUME NEW s \in Seq(Modules), NEW n \in Modules
  PROVE  ToSet(Append(s, n)) = ToSet(s) \cup {n} /\ ToSet(<<>>) = {} /\ ToSet(s) \subseteq Modules
<1>1. /\ DOMAIN Append(s, n) = 1..Len(s) + 1 /\ DOMAIN s = 1..Len(s) /\ Len(s) \in Nat
      /\ \A i \in 1..Len(s) : Append(s, n)[i] = s[i] /\ s[i] \in Modules
      /\ Append(s, n)[Len(s) + 1] = n
  BY AppendProperties, LenProperties, ElementOfSeq
<1>2. 1..Len(s) + 1 = 1..Len(s) \cup {Len(s) + 1}
  BY <1>1
<1> QED BY <1>1, <1>2 DEF ToSet

LEMMA AppendSorted ==
  ASSUME NEW s \in Seq(Modules), NEW n \in Modules, NEW index \in [Modules -> Int],
         Sorted(s, index), \A y \in ToSet(s) : index[y] < index[n]
  PROVE  Sorted(Append(s, n), index)
<1>1. /\ DOMAIN Append(s, n) = 1..Len(s) + 1 /\ DOMAIN s = 1..Len(s) /\ Len(s) \in Nat
      /\ \A i \in 1..Len(s) : Append(s, n)[i] = s[i] /\ s[i] \in Modules
      /\ Append(s, n)[Len(s) + 1] = n
  BY AppendProperties, LenProperties, ElementOfSeq
<1> SUFFICES ASSUME NEW i \in 1..Len(s) + 1, NEW j \in 1..Len(s) + 1, i < j
             PROVE  index[Append(s, n)[i]] < index[Append(s, n)[j]]
  BY <1>1 DEF Sorted
<1>2. i \in 1..Len(s) /\ (j \in 1..Len(s) \/ j = Len(s) + 1)
  BY <1>1
<1>3. s[i] \in ToSet(s)
  BY <1>1, <1>2 DEF ToSet
<1> QED BY <1>1, <1>2, <1>3 DEF Sorted

LEMMA AppendFrame ==
  ASSUME NEW f \in Seq(FrameType), NEW x \in FrameType
  PROVE  /\ Append(f, x) \in Seq(FrameType)
         /\ NodesOf(Append(f, x)) = NodesOf(f) \cup {x.node}
         /\ \A y : LeftOf(Append(f, x), y) = LeftOf(f, y) \cup IF y = x.node THEN x.left ELSE {}
         /\ NodesOf(f) \subseteq Modules /\ \A y : LeftOf(f, y) \subseteq Modules
         /\ \A y : y \notin NodesOf(f) => LeftOf(f, y) = {}
         /\ NodesOf(f) = {} => f = <<>>
         /\ NodesOf(<<>>) = {}
<1>1. /\ DOMAIN Append(f, x) = 1..Len(f) + 1 /\ DOMAIN f = 1..Len(f) /\ Len(f) \in Nat
      /\ \A i \in 1..Len(f) : Append(f, x)[i] = f[i] /\ f[i] \in FrameType
      /\ Append(f, x)[Len(f) + 1] = x
      /\ Append(f, x) \in Seq(FrameType)
  BY AppendProperties, LenProperties, ElementOfSeq
<1>2. 1..Len(f) + 1 = 1..Len(f) \cup {Len(f) + 1}
  BY <1>1
<1>3. NodesOf(Append(f, x)) = NodesOf(f) \cup {x.node}
  BY <1>1, <1>2 DEF NodesOf
<1>4. ASSUME NEW y PROVE LeftOf(Append(f, x), y) = LeftOf(f, y) \cup IF y = x.node THEN x.left ELSE {}
  BY <1>1, <1>2 DEF LeftOf
<1>5. NodesOf(f) \subseteq Modules /\ \A y : LeftOf(f, y) \subseteq Modules
  BY <1>1 DEF NodesOf, LeftOf, FrameType
<1>6. ASSUME NEW y, y \notin NodesOf(f) PROVE LeftOf(f, y) = {}
  BY <1>6 DEF NodesOf, LeftOf
<1>7. ASSUME NodesOf(f) = {} PROVE f = <<>>
  <2>1. f # <<>> => 1 \in DOMAIN f
    BY <1>1, EmptySeq
  <2> QED BY <1>7, <2>1 DEF NodesOf
<1>8. NodesOf(<<>>) = {}
  BY DEF NodesOf
<1> QED BY <1>1, <1>3, <1>4, <1>5, <1>6, <1>7, <1>8

LEMMA NestedAppend ==
  ASSUME NEW f \in Seq(FrameType), NEW x \in FrameType, NEW index \in [Modules -> Int]
  PROVE  Nested(Append(f, x), index)
           <=> Nested(f, index) /\ \A g \in NodesOf(f) : index[g] < index[x.node]
<1>1. /\ DOMAIN Append(f, x) = 1..Len(f) + 1 /\ DOMAIN f = 1..Len(f) /\ Len(f) \in Nat
      /\ \A i \in 1..Len(f) : Append(f, x)[i] = f[i] /\ f[i] \in FrameType
      /\ Append(f, x)[Len(f) + 1] = x
  BY AppendProperties, LenProperties, ElementOfSeq
<1>2. ASSUME Nested(Append(f, x), index)
      PROVE  Nested(f, index) /\ \A g \in NodesOf(f) : index[g] < index[x.node]
  <2>1. \A i \in 1..Len(f) : i \in 1..Len(f) + 1 /\ i < Len(f) + 1
    BY <1>1
  <2>2. Len(f) + 1 \in 1..Len(f) + 1
    BY <1>1
  <2> QED BY <1>1, <1>2, <2>1, <2>2 DEF Nested, NodesOf
<1>3. ASSUME Nested(f, index), \A g \in NodesOf(f) : index[g] < index[x.node]
      PROVE  Nested(Append(f, x), index)
  <2> SUFFICES ASSUME NEW i \in 1..Len(f) + 1, NEW j \in 1..Len(f) + 1, i < j
               PROVE  index[Append(f, x)[i].node] < index[Append(f, x)[j].node]
    BY <1>1 DEF Nested
  <2>1. i \in 1..Len(f) /\ (j \in 1..Len(f) \/ j = Len(f) + 1)
    BY <1>1
  <2>2. f[i].node \in NodesOf(f)
    BY <1>1, <2>1 DEF NodesOf
  <2> QED BY <1>1, <1>3, <2>1, <2>2 DEF Nested
<1> QED BY <1>2, <1>3

\* The stack cut at a node: what is below it, and the rest.
LEMMA CutSets ==
  ASSUME NEW s \in Seq(Modules), NEW index \in [Modules -> Int], Sorted(s, index), NEW p \in DOMAIN s
  PROVE  /\ SubSeq(s, 1, p - 1) \in Seq(Modules)
         /\ Sorted(SubSeq(s, 1, p - 1), index)
         /\ ToSet(SubSeq(s, 1, p - 1)) = {y \in ToSet(s) : index[y] < index[s[p]]}
         /\ ToSet(SubSeq(s, p, Len(s))) = {y \in ToSet(s) : index[s[p]] <= index[y]}
<1> DEFINE a == SubSeq(s, 1, p - 1)
           b == SubSeq(s, p, Len(s))
<1>1. /\ Len(s) \in Nat /\ DOMAIN s = 1..Len(s) /\ p \in 1..Len(s)
      /\ \A i \in 1..Len(s) : s[i] \in Modules
  BY LenProperties, ElementOfSeq
<1>2. a \in Seq(Modules) /\ DOMAIN a = 1..p - 1 /\ \A i \in 1..p - 1 : a[i] = s[i]
  <2>1. \A i \in 1..p - 1 : s[i] \in Modules
    BY <1>1
  <2>2. a \in Seq(Modules) /\ Len(a) = IF 1 <= p - 1 THEN p - 1 ELSE 0
    BY <1>1, <2>1, SubSeqProperties
  <2>3. \A i \in 1..p - 1 : a[i] = s[i]
    BY <1>1
  <2> QED BY <1>1, <2>2, <2>3, LenProperties
<1>3. DOMAIN b = 1..Len(s) - p + 1 /\ \A i \in 1..Len(s) - p + 1 : b[i] = s[p + i - 1]
  <2>1. b = [i \in 1..Len(s) - p + 1 |-> s[i + p - 1]]
    BY <1>1
  <2> HIDE DEF b
  <2>2. \A i \in 1..Len(s) - p + 1 : i + p - 1 = p + i - 1
    BY <1>1
  <2> QED BY <2>1, <2>2
<1> HIDE DEF a, b
<1>4. Sorted(a, index)
  BY <1>1, <1>2 DEF Sorted
<1>5. \A i, j \in 1..Len(s) : i < j => index[s[i]] < index[s[j]]
  BY <1>1 DEF Sorted
<1>6. \A i \in 1..Len(s) : index[s[i]] \in Int
  BY <1>1
<1>7. \A i \in 1..Len(s) : i \in 1..p - 1 <=> index[s[i]] < index[s[p]]
  <2> SUFFICES ASSUME NEW i \in 1..Len(s) PROVE i \in 1..p - 1 <=> index[s[i]] < index[s[p]]
    OBVIOUS
  <2>1. i < p \/ i = p \/ p < i
    BY <1>1
  <2>2. i \in 1..p - 1 <=> i < p
    BY <1>1
  <2> QED BY <1>1, <1>5, <1>6, <2>1, <2>2
<1>8. ToSet(a) = {y \in ToSet(s) : index[y] < index[s[p]]}
  <2>1. 1..p - 1 \subseteq 1..Len(s)
    BY <1>1
  <2> QED BY <1>1, <1>2, <1>7, <2>1 DEF ToSet
<1>9. ToSet(b) = {y \in ToSet(s) : index[s[p]] <= index[y]}
  <2>1. \A i \in 1..Len(s) - p + 1 : p + i - 1 \in 1..Len(s) /\ p + i - 1 \notin 1..p - 1
    BY <1>1
  <2>2. \A j \in 1..Len(s) : j \notin 1..p - 1 => j - p + 1 \in 1..Len(s) - p + 1 /\ p + (j - p + 1) - 1 = j
    BY <1>1
  <2>3. ASSUME NEW y \in ToSet(b) PROVE y \in ToSet(s) /\ index[s[p]] <= index[y]
    <3>1. PICK i \in 1..Len(s) - p + 1 : y = s[p + i - 1]
      BY <1>3 DEF ToSet
    <3>2. p + i - 1 \in 1..Len(s) /\ p + i - 1 \notin 1..p - 1
      BY <2>1
    <3>3. ~(index[y] < index[s[p]]) /\ index[y] \in Int /\ index[s[p]] \in Int
      BY <1>1, <1>6, <1>7, <3>1, <3>2
    <3> QED BY <1>1, <3>1, <3>2, <3>3 DEF ToSet
  <2>4. ASSUME NEW y \in ToSet(s), index[s[p]] <= index[y] PROVE y \in ToSet(b)
    <3>1. PICK j \in 1..Len(s) : y = s[j]
      BY <1>1 DEF ToSet
    <3>2. j \notin 1..p - 1
      BY <1>1, <1>6, <1>7, <2>4, <3>1
    <3>3. b[j - p + 1] = s[j] /\ j - p + 1 \in DOMAIN b
      BY <1>3, <2>2, <3>2
    <3> QED BY <3>1, <3>3 DEF ToSet
  <2> QED BY <2>3, <2>4
<1> QED BY <1>2, <1>4, <1>8, <1>9 DEF a, b

LEMMA SortedInjective ==
  ASSUME NEW s \in Seq(Modules), NEW index \in [Modules -> Int], Sorted(s, index)
  PROVE  IsInjective(s)
<1>1. DOMAIN s = 1..Len(s) /\ Len(s) \in Nat /\ \A i \in 1..Len(s) : index[s[i]] \in Int
  BY LenProperties, ElementOfSeq
<1> SUFFICES ASSUME NEW i \in 1..Len(s), NEW j \in 1..Len(s), s[i] = s[j] PROVE i = j
  BY <1>1 DEF IsInjective
<1>2. i < j \/ i = j \/ j < i
  BY <1>1
<1> QED BY <1>1, <1>2 DEF Sorted

\* The next index is larger than any given, and there is one for every module.
LEMMA NextIndexFacts ==
  ASSUME TypeOK
  PROVE  /\ NextIndex \in Nat /\ Cardinality(Modules) \in Nat
         /\ indexOf \in [Modules -> Int] /\ lowlink \in [Modules -> Int]
         /\ \A n \in Modules : ~Indexed(n) => NextIndex < Cardinality(Modules)
         /\ \A n \in Modules : ~Indexed(n) /\ indexOf' = [indexOf EXCEPT ![n] = NextIndex]
              => NextIndex' = NextIndex + 1
<1> DEFINE I == {m \in Modules : Indexed(m)}
<1>1. IsFiniteSet(Modules) /\ Cardinality(Modules) \in Nat
  BY CyclesAssumption, FS_CardinalityType DEF CyclesAssumption
<1>2. indexOf \in [Modules -> Int] /\ lowlink \in [Modules -> Int]
  BY <1>1 DEF TypeOK, NotIndexed
<1>3. IsFiniteSet(I) /\ Cardinality(I) \in Nat /\ NextIndex = Cardinality(I)
  BY <1>1, FS_Subset, FS_CardinalityType DEF NextIndex
<1>4. ASSUME NEW n \in Modules, ~Indexed(n) PROVE NextIndex < Cardinality(Modules)
  <2>1. I \subseteq Modules \ {n}
    BY <1>4
  <2>2. IsFiniteSet(Modules \ {n}) /\ Cardinality(Modules \ {n}) = Cardinality(Modules) - 1
    BY <1>1, FS_RemoveElement
  <2>3. Cardinality(I) <= Cardinality(Modules \ {n})
    BY <2>1, <2>2, FS_Subset
  <2> QED BY <1>1, <1>3, <2>2, <2>3
<1>5. ASSUME NEW n \in Modules, ~Indexed(n), indexOf' = [indexOf EXCEPT ![n] = NextIndex]
      PROVE  NextIndex' = NextIndex + 1
  <2>1. {m \in Modules : Indexed(m)}' = I \cup {n}
    BY <1>2, <1>3, <1>5 DEF Indexed, NotIndexed
  <2>2. n \notin I
    BY <1>5
  <2>3. Cardinality(I \cup {n}) = Cardinality(I) + 1
    BY <1>3, <2>2, FS_AddElement
  <2> QED BY <1>3, <2>1, <2>3 DEF NextIndex
<1> QED BY <1>1, <1>2, <1>3, <1>4, <1>5

LEMMA SameOrder ==
  ASSUME NEW i1 \in [Modules -> Int], NEW i2 \in [Modules -> Int]
  PROVE  /\ \A s \in Seq(Modules) : Sorted(s, i1) /\ (\A y \in ToSet(s) : i1[y] = i2[y]) => Sorted(s, i2)
         /\ \A f \in Seq(FrameType) : Nested(f, i1) /\ (\A y \in NodesOf(f) : i1[y] = i2[y]) => Nested(f, i2)
BY DEF Sorted, Nested, ToSet, NodesOf
-----------------------------------------------------------------------------
(* The visits under way.                                                     *)

\* The innermost visit is the last that began; its frame has its imports left.
LEMMA TopFacts ==
  ASSUME Shapes, Calls, frames # <<>>
  PROVE  /\ Node \in Grey /\ Node \in Modules
         /\ Front(frames) \in Seq(FrameType) /\ Last(frames) \in FrameType
         /\ NodesOf(Front(frames)) = Grey \ {Node} /\ Nested(Front(frames), indexOf)
         /\ \A h \in Grey \ {Node} : indexOf[h] < indexOf[Node]
         /\ \A y : LeftOf(Front(frames), y) = IF y = Node THEN {} ELSE Pending(y)
         /\ Pending(Node) = Last(frames).left
<1> DEFINE F == Front(frames)
           x == Last(frames)
<1>1. frames \in Seq(FrameType) /\ indexOf \in [Modules -> Int]
  BY NextIndexFacts DEF Shapes
<1>2. F \in Seq(FrameType) /\ x \in FrameType /\ frames = Append(F, x)
  BY <1>1, FrontLast
<1> HIDE DEF F, x
<1>3. Node = x.node /\ x.node \in Modules
  BY <1>2 DEF Node, x, FrameType
<1>4. Nested(F, indexOf) /\ \A g \in NodesOf(F) : indexOf[g] < indexOf[x.node]
  BY <1>1, <1>2, NestedAppend DEF Calls
<1>5. /\ Grey = NodesOf(F) \cup {x.node}
      /\ \A y : Pending(y) = LeftOf(F, y) \cup IF y = x.node THEN x.left ELSE {}
      /\ NodesOf(F) \subseteq Modules
      /\ \A y : y \notin NodesOf(F) => LeftOf(F, y) = {}
  BY <1>1, <1>2, AppendFrame DEF Grey, Pending
<1>6. x.node \notin NodesOf(F)
  BY <1>1, <1>3, <1>4
<1>7. LeftOf(F, x.node) = {}
  BY <1>5, <1>6
<1> QED BY <1>2, <1>3, <1>4, <1>5, <1>6, <1>7 DEF F, x

\* The visits under way when the innermost has looked at an import.
Rest(k) == Append(Front(frames), [Last(frames) EXCEPT !.left = @ \ {k}])

LEMMA RestFacts ==
  ASSUME Shapes, Calls, frames # <<>>, NEW k
  PROVE  /\ Rest(k) \in Seq(FrameType) /\ NodesOf(Rest(k)) = Grey /\ Nested(Rest(k), indexOf)
         /\ \A y : LeftOf(Rest(k), y) = IF y = Node THEN Pending(y) \ {k} ELSE Pending(y)
<1> DEFINE F == Front(frames)
           x == [Last(frames) EXCEPT !.left = @ \ {k}]
<1>1. /\ F \in Seq(FrameType) /\ Last(frames) \in FrameType
      /\ NodesOf(F) = Grey \ {Node} /\ Nested(F, indexOf)
      /\ \A h \in Grey \ {Node} : indexOf[h] < indexOf[Node]
      /\ \A y : LeftOf(F, y) = IF y = Node THEN {} ELSE Pending(y)
      /\ Pending(Node) = Last(frames).left /\ Node \in Grey
  BY TopFacts
<1>2. x \in FrameType /\ x.node = Node /\ x.left = Last(frames).left \ {k}
  BY <1>1 DEF FrameType, Node
<1>3. indexOf \in [Modules -> Int]
  BY NextIndexFacts DEF Shapes
<1>4. Rest(k) = Append(F, x)
  BY DEF Rest
<1> HIDE DEF F, x
<1>5. Nested(Rest(k), indexOf)
  BY <1>1, <1>2, <1>3, <1>4, NestedAppend
<1>6. /\ Rest(k) \in Seq(FrameType) /\ NodesOf(Rest(k)) = NodesOf(F) \cup {x.node}
      /\ \A y : LeftOf(Rest(k), y) = LeftOf(F, y) \cup IF y = x.node THEN x.left ELSE {}
  BY <1>1, <1>2, <1>4, AppendFrame
<1>7. NodesOf(Rest(k)) = Grey
  BY <1>1, <1>2, <1>6
<1>8. ASSUME NEW y PROVE LeftOf(Rest(k), y) = IF y = Node THEN Pending(y) \ {k} ELSE Pending(y)
  <2>1. CASE y = Node
    <3>1. LeftOf(F, y) = {}
      BY <1>1, <2>1
    <3> QED BY <1>1, <1>2, <1>6, <2>1, <3>1
  <2>2. CASE y # Node
    <3>1. LeftOf(F, y) = Pending(y)
      BY <1>1, <2>2
    <3>2. LeftOf(Rest(k), y) = LeftOf(F, y) \cup {}
      BY <1>2, <1>6, <2>2
    <3> QED BY <2>2, <3>1, <3>2
  <2> QED BY <2>1, <2>2
<1> QED BY <1>5, <1>6, <1>7, <1>8

\* What the parts of the invariant say of types.
LEMMA SetFacts ==
  ASSUME Shapes, Placed, Calls
  PROVE  /\ Open \subseteq Modules /\ Grey \subseteq Open /\ Done \subseteq Modules
         /\ indexOf \in [Modules -> Int] /\ lowlink \in [Modules -> Int]
         /\ \A y \in Open : Indexed(y)
         /\ (Grey = {} <=> frames = <<>>)
         /\ edges \in [Modules -> SUBSET Modules]
<1>1. Open \subseteq Modules
  BY AppendSets DEF Shapes, Open, ToSet
<1>2. indexOf \in [Modules -> Int] /\ lowlink \in [Modules -> Int]
  BY NextIndexFacts DEF Shapes
<1>3. Done \subseteq Modules /\ edges \in [Modules -> SUBSET Modules]
  BY DEF Shapes, TypeOK, Done
<1>4. Grey = {} <=> frames = <<>>
  <2>1. frames = <<>> => Grey = {}
    BY DEF Grey, NodesOf
  <2>2. frames # <<>> => Grey # {}
    BY TopFacts
  <2> QED BY <2>1, <2>2
<1> QED BY <1>1, <1>2, <1>3, <1>4 DEF Placed, Calls
-----------------------------------------------------------------------------
(* What the actions do to the open nodes, the visits and their imports.      *)

\* The visit of n begins: it is the first of all, or the innermost visit, which
\* imports n, has called it.
Opens(n) ==
  /\ n \in Modules /\ ~Indexed(n)
  /\ UNCHANGED <<edges, components, status>>
  /\ indexOf' = [indexOf EXCEPT ![n] = NextIndex] /\ lowlink' = [lowlink EXCEPT ![n] = NextIndex]
  /\ stack' = Append(stack, n) /\ Open' = Open \cup {n}
  /\ frames' \in Seq(FrameType) /\ Nested(frames', indexOf') /\ Grey' = Grey \cup {n}
  /\ \A y \in Modules : Pending(y)' \subseteq edges[y]
  /\ Seen(n)' = {} /\ \A y \in Modules \ {n} : Seen(y)' \subseteq Seen(y) \cup {n}
  /\ \A g \in Grey : \E h \in Grey : Below(g, h) /\ n \in edges[h]

LEMMA VisitOpens ==
  ASSUME Shapes, Placed, Calls, Numbered,
         NEW n \in Modules, ~Indexed(n), NEW callers \in Seq(FrameType), Visit(n, callers),
         NodesOf(callers) = Grey, Nested(callers, indexOf),
         \A y \in Modules : Pending(y) \ {n} \subseteq LeftOf(callers, y) /\ LeftOf(callers, y) \subseteq Pending(y),
         \A g \in Grey : \E h \in Grey : Below(g, h) /\ n \in edges[h]
  PROVE  Opens(n)
<1>0. /\ Open \subseteq Modules /\ Grey \subseteq Open
      /\ indexOf \in [Modules -> Int] /\ \A y \in Open : Indexed(y)
      /\ edges \in [Modules -> SUBSET Modules] /\ NextIndex \in Nat
      /\ stack \in Seq(Modules) /\ \A y \in Modules : Pending(y) \subseteq edges[y]
  BY SetFacts, NextIndexFacts DEF Shapes, Calls
<1> DEFINE x == [node |-> n, left |-> edges[n]]
<1>1. /\ UNCHANGED <<edges, components, status>>
      /\ indexOf' = [indexOf EXCEPT ![n] = NextIndex] /\ lowlink' = [lowlink EXCEPT ![n] = NextIndex]
      /\ stack' = Append(stack, n) /\ frames' = Append(callers, x)
  BY DEF Visit
<1>2. x \in FrameType /\ x.node = n /\ x.left = edges[n]
  BY <1>0 DEF FrameType
<1> HIDE DEF x
<1>3. Open' = Open \cup {n}
  BY <1>0, <1>1, AppendSets DEF Open
<1>4. /\ frames' \in Seq(FrameType) /\ NodesOf(frames') = Grey \cup {n}
      /\ \A y : LeftOf(frames', y) = LeftOf(callers, y) \cup IF y = n THEN edges[n] ELSE {}
  BY <1>1, <1>2, AppendFrame
<1>5. Nested(frames', indexOf')
  <2>1. indexOf' \in [Modules -> Int] /\ \A y \in Grey : indexOf'[y] = indexOf[y] /\ indexOf'[y] < indexOf'[n]
    BY <1>0, <1>1 DEF Numbered
  <2>2. Nested(callers, indexOf')
    BY <1>0, <2>1, SameOrder
  <2> QED BY <1>1, <1>2, <2>1, <2>2, NestedAppend
<1>6. n \notin Grey
  BY <1>0
<1>7. ASSUME NEW y \in Modules PROVE Pending(y)' \subseteq edges[y]
  BY <1>0, <1>4, <1>7 DEF Pending
<1>8. Seen(n)' = {}
  BY <1>1, <1>4 DEF Seen, Pending
<1>9. ASSUME NEW y \in Modules \ {n} PROVE Seen(y)' \subseteq Seen(y) \cup {n}
  BY <1>1, <1>4, <1>9 DEF Seen, Pending
<1> QED BY <1>1, <1>3, <1>4, <1>5, <1>7, <1>8, <1>9 DEF Opens, Grey

LEMMA RootOpens ==
  ASSUME Shapes, Placed, Calls, Numbered, VisitRoot
  PROVE  \E n \in Modules : Opens(n)
<1>1. PICK n \in Modules : ~Indexed(n) /\ Visit(n, <<>>) /\ frames = <<>>
  BY DEF VisitRoot
<1>2. /\ <<>> \in Seq(FrameType) /\ NodesOf(<<>>) = Grey /\ Nested(<<>>, indexOf) /\ Grey = {}
      /\ \A y \in Modules : LeftOf(<<>>, y) = Pending(y)
  BY <1>1, SetFacts DEF Grey, Pending, Nested
<1>3. /\ \A y \in Modules : Pending(y) \ {n} \subseteq LeftOf(<<>>, y) /\ LeftOf(<<>>, y) \subseteq Pending(y)
      /\ \A g \in Grey : \E h \in Grey : Below(g, h) /\ n \in edges[h]
  BY <1>2
<1>4. Opens(n)
  BY <1>1, <1>2, <1>3, VisitOpens
<1> QED BY <1>4

\* The innermost visit looks at an import of a node that was visited.
Looks(k) ==
  /\ k \in edges[Node] /\ Node \in Grey /\ Indexed(k)
  /\ UNCHANGED <<edges, indexOf, stack, components, status>>
  /\ Open' = Open /\ Grey' = Grey
  /\ frames' \in Seq(FrameType) /\ Nested(frames', indexOf')
  /\ IF k \in Open THEN Lower(Node, indexOf[k]) ELSE UNCHANGED lowlink
  /\ \A y \in Modules : Pending(y)' \subseteq edges[y] /\ Seen(y)' \subseteq Seen(y) \cup IF y = Node THEN {k} ELSE {}
  /\ \A h \in Grey : Below(h, Node)

LEMMA NeighborLooks ==
  ASSUME Shapes, Placed, Calls, Numbered, Neighbor
  PROVE  \E k \in Modules : Opens(k) \/ Looks(k)
<1>0. /\ edges \in [Modules -> SUBSET Modules] /\ indexOf \in [Modules -> Int]
      /\ \A y \in Modules : Pending(y) \subseteq edges[y]
      /\ Grey \subseteq Modules
  BY SetFacts DEF Calls
<1>1. frames # <<>>
  BY DEF Neighbor
<1>2. /\ Node \in Grey /\ \A h \in Grey : Below(h, Node)
      /\ Last(frames).left = Pending(Node)
  BY <1>0, <1>1, TopFacts DEF Below
<1>3. PICK k \in Last(frames).left :
        IF ~Indexed(k) THEN Visit(k, Rest(k))
        ELSE /\ frames' = Rest(k)
             /\ IF Counts(k) THEN Lower(Node, indexOf[k]) ELSE UNCHANGED lowlink
             /\ UNCHANGED <<edges, indexOf, stack, components, status>>
  BY DEF Neighbor, Rest
<1>4. k \in edges[Node] /\ k \in Modules
  BY <1>0, <1>2
<1>5. /\ Rest(k) \in Seq(FrameType) /\ NodesOf(Rest(k)) = Grey /\ Nested(Rest(k), indexOf)
      /\ \A y : LeftOf(Rest(k), y) = IF y = Node THEN Pending(y) \ {k} ELSE Pending(y)
  BY <1>1, RestFacts
<1>6. CASE ~Indexed(k)
  <2>1. \A y \in Modules : Pending(y) \ {k} \subseteq LeftOf(Rest(k), y) /\ LeftOf(Rest(k), y) \subseteq Pending(y)
    BY <1>5
  <2>2. Opens(k)
    BY <1>2, <1>3, <1>4, <1>5, <1>6, <2>1, VisitOpens
  <2> QED BY <1>4, <2>2
<1>7. CASE Indexed(k)
  <2>1. /\ frames' = Rest(k)
        /\ IF k \in Open THEN Lower(Node, indexOf[k]) ELSE UNCHANGED lowlink
        /\ UNCHANGED <<edges, indexOf, stack, components, status>>
    BY <1>3, <1>7 DEF Counts, Open
  <2>2. ASSUME NEW y \in Modules
        PROVE  Pending(y)' \subseteq edges[y] /\ Seen(y)' \subseteq Seen(y) \cup IF y = Node THEN {k} ELSE {}
    <3>1. Pending(y)' = IF y = Node THEN Pending(y) \ {k} ELSE Pending(y)
      BY <1>5, <2>1 DEF Pending
    <3> QED BY <1>0, <2>1, <3>1 DEF Seen
  <2>3. Open' = Open /\ Grey' = Grey
    BY <1>5, <2>1 DEF Open, Grey
  <2>4. Looks(k)
    BY <1>2, <1>4, <1>5, <1>7, <2>1, <2>2, <2>3 DEF Looks
  <2> QED BY <1>4, <2>4
<1> QED BY <1>6, <1>7

\* The innermost visit ends, with nothing left to look at: at a root what is
\* open from it on is a component; the caller's low link follows.
Component == {y \in Open : Below(Node, y)}
Returns ==
  /\ Node \in Grey /\ Seen(Node) = edges[Node]
  /\ UNCHANGED <<edges, indexOf, status>>
  /\ frames' \in Seq(FrameType) /\ Nested(frames', indexOf') /\ Grey' = Grey \ {Node}
  /\ \A y \in Modules : Pending(y)' = Pending(y)
  /\ \A h \in Grey' : indexOf[h] < indexOf[Node]
  /\ stack' \in Seq(Modules) /\ Sorted(stack', indexOf')
  /\ IF IsRoot(Node)
     THEN Open' = Open \ Component /\ components' = components \cup {Component}
     ELSE Open' = Open /\ UNCHANGED components
  /\ \/ Grey' = {} /\ UNCHANGED lowlink
     \/ \E c \in Grey' : (\A h \in Grey' : Below(h, c)) /\ Lower(c, lowlink[Node])

LEMMA ReturnReturns ==
  ASSUME Shapes, Placed, Calls, Return
  PROVE  Returns
<1>0. /\ indexOf \in [Modules -> Int] /\ stack \in Seq(Modules) /\ Grey \subseteq Open /\ Open \subseteq Modules
      /\ Sorted(stack, indexOf)
  BY SetFacts DEF Shapes, Placed
<1> DEFINE F == Front(frames)
<1>1. /\ frames # <<>> /\ frames \in Seq(FrameType) /\ Last(frames).left = {} /\ frames' = F
      /\ IF IsRoot(Node)
         THEN /\ components' = components \cup {ToSet(SubSeq(stack, PopsFrom(Node), Len(stack)))}
              /\ stack' = SubSeq(stack, 1, PopsFrom(Node) - 1)
         ELSE UNCHANGED <<components, stack>>
      /\ IF Len(frames) > 1 THEN Lower(Last(F).node, lowlink[Node]) ELSE UNCHANGED lowlink
      /\ UNCHANGED <<edges, indexOf, status>>
  BY DEF Return, Shapes
<1>2. /\ Node \in Grey
      /\ F \in Seq(FrameType) /\ NodesOf(F) = Grey \ {Node} /\ Nested(F, indexOf)
      /\ \A h \in Grey \ {Node} : indexOf[h] < indexOf[Node]
      /\ \A y : LeftOf(F, y) = IF y = Node THEN {} ELSE Pending(y)
      /\ Pending(Node) = {}
  BY <1>1, TopFacts
<1>3. Len(frames) \in Nat \ {0} /\ Len(F) = Len(frames) - 1
  BY <1>1, FrontLast
<1> HIDE DEF F
<1>4. Grey' = Grey \ {Node}
  BY <1>1, <1>2 DEF Grey
<1>5. \A y \in Modules : Pending(y)' = Pending(y)
  <2> SUFFICES ASSUME NEW y \in Modules PROVE LeftOf(F, y) = Pending(y)
    BY <1>1 DEF Pending
  <2> QED BY <1>2
<1>6. Seen(Node) = edges[Node]
  BY <1>2 DEF Seen
<1>7. /\ stack' \in Seq(Modules) /\ Sorted(stack', indexOf')
      /\ IF IsRoot(Node)
         THEN Open' = Open \ Component /\ components' = components \cup {Component}
         ELSE Open' = Open /\ UNCHANGED components
  <2> DEFINE p == PopsFrom(Node)
  <2>1. p \in DOMAIN stack /\ stack[p] = Node
    <3>1. \E i \in DOMAIN stack : stack[i] = Node
      BY <1>0, <1>2 DEF Open, ToSet
    <3> QED BY <3>1 DEF PopsFrom
  <2> HIDE DEF p
  <2>2. /\ SubSeq(stack, 1, p - 1) \in Seq(Modules)
        /\ Sorted(SubSeq(stack, 1, p - 1), indexOf)
        /\ ToSet(SubSeq(stack, 1, p - 1)) = {y \in Open : indexOf[y] < indexOf[Node]}
        /\ ToSet(SubSeq(stack, p, Len(stack))) = {y \in Open : indexOf[Node] <= indexOf[y]}
    BY <1>0, <2>1, CutSets DEF Open
  <2>3. {y \in Open : indexOf[Node] <= indexOf[y]} = Component
    BY DEF Component, Below
  <2>4. {y \in Open : indexOf[y] < indexOf[Node]} = Open \ Component
    <3>1. \A y \in Open : indexOf[y] < indexOf[Node] <=> ~(indexOf[Node] <= indexOf[y])
      BY <1>0, <1>2
    <3> QED BY <2>3, <3>1
  <2>5. CASE IsRoot(Node)
    <3>1. /\ components' = components \cup {ToSet(SubSeq(stack, p, Len(stack)))}
          /\ stack' = SubSeq(stack, 1, p - 1) /\ indexOf' = indexOf
      BY <1>1, <2>5 DEF p
    <3> QED BY <2>2, <2>3, <2>4, <2>5, <3>1 DEF Open
  <2>6. CASE ~IsRoot(Node)
    BY <1>0, <1>1, <2>6 DEF Open
  <2> QED BY <2>5, <2>6
<1>8. \/ Grey' = {} /\ UNCHANGED lowlink
      \/ \E c \in Grey' : (\A h \in Grey' : Below(h, c)) /\ Lower(c, lowlink[Node])
  <2>1. CASE Len(frames) = 1
    <3>1. F = <<>>
      BY <1>2, <1>3, <2>1, EmptySeq
    <3> QED BY <1>1, <1>2, <1>4, <2>1, <3>1, AppendFrame DEF NodesOf
  <2>2. CASE Len(frames) > 1
    <3> DEFINE G == Front(F)
               x == Last(F)
    <3>1. F # <<>>
      BY <1>3, <2>2
    <3>2. G \in Seq(FrameType) /\ x \in FrameType /\ F = Append(G, x)
      BY <1>2, <3>1, FrontLast
    <3> HIDE DEF G, x
    <3>3. NodesOf(F) = NodesOf(G) \cup {x.node} /\ x.node \in Modules
      BY <3>2, AppendFrame DEF FrameType
    <3>4. \A g \in NodesOf(G) : indexOf[g] < indexOf[x.node]
      BY <1>0, <1>2, <3>2, NestedAppend
    <3>5. \A h \in Grey' : Below(h, x.node)
      BY <1>0, <1>2, <1>4, <3>3, <3>4 DEF Below
    <3>6. Lower(x.node, lowlink[Node])
      BY <1>1, <2>2 DEF x
    <3> QED BY <1>2, <1>4, <3>3, <3>5, <3>6
  <2> QED BY <1>3, <2>1, <2>2
<1> QED BY <1>1, <1>2, <1>4, <1>5, <1>6, <1>7, <1>8 DEF Returns
-----------------------------------------------------------------------------
(* The invariant.                                                            *)

LEMMA InvInit == Init => IInv
<1> SUFFICES ASSUME Init PROVE IInv
  OBVIOUS
<1>1. /\ stack = <<>> /\ frames = <<>> /\ components = {} /\ status = Running
      /\ edges \in [Modules -> SUBSET Modules]
      /\ \A n \in Modules : indexOf[n] = NotIndexed /\ ~Indexed(n)
  BY DEF Init, Indexed
<1>2. Open = {} /\ Grey = {} /\ Done = {} /\ \A y : Pending(y) = {}
  BY <1>1 DEF Open, ToSet, Grey, NodesOf, Done, Pending, LeftOf
<1>3. Shapes
  <2>1. Cardinality(Modules) \in Nat
    BY CyclesAssumption, FS_CardinalityType DEF CyclesAssumption
  <2>2. NotIndexed \in NotIndexed..Cardinality(Modules) - 1
    BY <2>1 DEF NotIndexed
  <2>3. indexOf = [n \in Modules |-> NotIndexed] /\ lowlink = [n \in Modules |-> NotIndexed]
    BY DEF Init
  <2>4. /\ indexOf \in [Modules -> NotIndexed..Cardinality(Modules) - 1]
        /\ lowlink \in [Modules -> NotIndexed..Cardinality(Modules) - 1]
    BY <2>2, <2>3
  <2> QED BY <1>1, <1>2, <2>4 DEF Shapes, TypeOK, IsInjective, Open
<1>4. Numbered /\ Placed /\ Calls /\ NoneMissed
  BY <1>1, <1>2 DEF Numbered, Placed, Calls, NoneMissed, Sorted, Nested, Indexed
<1>5. Complete(Done) /\ Forward /\ Backward /\ LowSound /\ LowCounts /\ ComponentsAreMaximal /\ Reporting
  BY <1>1, <1>2 DEF Complete, Forward, Backward, LowSound, LowCounts, ComponentsAreMaximal, Reporting
<1> QED BY <1>3, <1>4, <1>5 DEF IInv

LEMMA OpensKeeps ==
  ASSUME IInv, NEW n, Opens(n)
  PROVE  IInv'
<1>0. /\ Open \subseteq Modules /\ Grey \subseteq Open /\ Done \subseteq Modules
      /\ indexOf \in [Modules -> Int] /\ lowlink \in [Modules -> Int]
      /\ edges \in [Modules -> SUBSET Modules]
      /\ NextIndex \in Nat /\ NextIndex < Cardinality(Modules) /\ NextIndex' = NextIndex + 1
      /\ Cardinality(Modules) \in Nat
  BY SetFacts, NextIndexFacts DEF IInv, Shapes, Opens
<1>1. /\ n \in Modules /\ ~Indexed(n) /\ n \notin Open /\ n \notin Done
      /\ Open' = Open \cup {n} /\ Grey' = Grey \cup {n} /\ Done' = Done
      /\ UNCHANGED <<edges, components, status>>
      /\ Seen(n)' = {} /\ \A y \in Modules \ {n} : Seen(y)' \subseteq Seen(y) \cup {n}
  BY DEF IInv, Placed, Opens, Done
<1>2. /\ indexOf' \in [Modules -> Int] /\ lowlink' \in [Modules -> Int]
      /\ indexOf'[n] = NextIndex /\ lowlink'[n] = NextIndex
      /\ \A y \in Modules \ {n} : indexOf'[y] = indexOf[y] /\ lowlink'[y] = lowlink[y]
      /\ \A y \in Modules : Indexed(y)' <=> y = n \/ Indexed(y)
      /\ \A y \in Modules : Indexed(y) => indexOf[y] < NextIndex /\ y # n
  BY <1>0, <1>1 DEF Opens, IInv, Numbered, Indexed, NotIndexed
<1>3. \A y \in Open : Indexed(y) /\ y # n /\ indexOf'[y] = indexOf[y] /\ indexOf[y] < NextIndex
  BY <1>0, <1>1, <1>2 DEF IInv, Placed
<1>4. /\ \A a, b \in Open : Below(a, b)' <=> Below(a, b)
      /\ \A a \in Open : Below(a, n)' /\ ~Below(n, a)'
      /\ Below(n, n)'
  BY <1>0, <1>2, <1>3 DEF Below
<1>5. \A a, b : Reaches(a, b)' <=> Reaches(a, b)
  BY <1>1, ReachSame
<1>18. Sorted(stack', indexOf')
  <2>1. Sorted(stack, indexOf')
    BY <1>0, <1>2, <1>3, SameOrder DEF IInv, Shapes, Placed, Open
  <2>2. \A y \in ToSet(stack) : indexOf'[y] < indexOf'[n]
    BY <1>2, <1>3 DEF Open
  <2>3. stack \in Seq(Modules) /\ stack' = Append(stack, n)
    BY DEF IInv, Shapes, Opens
  <2> HIDE DEF Sorted
  <2> QED BY <1>1, <1>2, <2>1, <2>2, <2>3, AppendSorted
<1>6. Shapes'
  <2>1. \A i \in NotIndexed..Cardinality(Modules) - 1 : i \in Int
    OBVIOUS
  <2>2. NextIndex \in NotIndexed..Cardinality(Modules) - 1
    BY <1>0 DEF NotIndexed
  <2>3. /\ indexOf' \in [Modules -> NotIndexed..Cardinality(Modules) - 1]
        /\ lowlink' \in [Modules -> NotIndexed..Cardinality(Modules) - 1]
    BY <1>1, <2>2 DEF Opens, IInv, Shapes, TypeOK
  <2>4. stack' \in Seq(Modules) /\ frames' \in Seq(FrameType)
    BY <1>1 DEF Opens, IInv, Shapes
  <2>6. IsInjective(stack')
    BY <1>2, <1>18, <2>4, SortedInjective
  <2>7. \A i \in DOMAIN frames' : frames'[i].node \in Modules /\ frames'[i].left \subseteq Modules
    <3>1. \A i \in DOMAIN frames' : frames'[i] \in FrameType
      BY <2>4
    <3> QED BY <3>1 DEF FrameType
  <2>8. ToSet(stack') \subseteq Modules
    BY <1>0, <1>1 DEF Open
  <2> QED BY <1>1, <2>3, <2>4, <2>6, <2>7, <2>8 DEF IInv, Shapes, TypeOK
<1>7. Numbered'
  <2>1. \A y \in Modules : Indexed(y)' => indexOf'[y] < NextIndex + 1
    BY <1>0, <1>2
  <2>2. \A y, z \in Modules : Indexed(y)' /\ indexOf'[y] = indexOf'[z] => y = z
    BY <1>0, <1>1, <1>2 DEF IInv, Numbered, Indexed
  <2> QED BY <1>0, <2>1, <2>2 DEF Numbered
<1>8. Placed'
  <2>2. \A y \in Modules : Indexed(y)' <=> y \in Open' \cup Done'
    BY <1>1, <1>2 DEF IInv, Placed
  <2>3. Open' \cap Done' = {}
    BY <1>1 DEF IInv, Placed
  <2> QED BY <1>18, <2>2, <2>3 DEF Placed
<1>9. Calls'
  BY <1>0, <1>1 DEF Opens, Calls
<1>10. NoneMissed'
  <2> SUFFICES ASSUME NEW y \in Modules, Indexed(y)', NEW z \in Seen(y)' PROVE Indexed(z)'
    BY DEF NoneMissed
  <2>1. y # n
    BY <1>1
  <2>2. Indexed(y) /\ (z \in Seen(y) \/ z = n)
    BY <1>1, <1>2, <2>1
  <2>3. z \in Modules
    BY <1>0, <1>1, <2>2 DEF Seen
  <2> QED BY <1>2, <2>2, <2>3 DEF IInv, NoneMissed
<1>11. Complete(Done)'
  BY <1>1 DEF IInv, Complete
<1>12. Forward'
  <2> SUFFICES ASSUME NEW g \in Grey', NEW y \in Open', Below(g, y)' PROVE Reaches(g, y)
    BY <1>5 DEF Forward
  <2>1. CASE y \in Open
    <3>1. g \in Grey
      BY <1>1, <1>4, <2>1
    <3> QED BY <1>0, <1>4, <2>1, <3>1 DEF IInv, Forward
  <2>2. CASE y = n /\ g = n
    BY <1>1, <2>2, ReachSelf
  <2>3. CASE y = n /\ g \in Grey
    <3>1. PICK h \in Grey : Below(g, h) /\ n \in edges[h]
      BY <2>3 DEF Opens
    <3>2. Reaches(g, h)
      BY <1>0, <2>3, <3>1 DEF IInv, Forward
    <3>3. Reaches(h, n) /\ g \in Modules /\ h \in Modules
      BY <1>0, <2>3, <3>1, ReachImport
    <3> QED BY <1>1, <2>3, <3>2, <3>3, ReachTrans
  <2> QED BY <1>1, <2>1, <2>2, <2>3
<1>13. Backward'
  <2> SUFFICES ASSUME NEW y \in Open' PROVE \E g \in Grey' : Below(g, y)' /\ Reaches(y, g)
    BY <1>5 DEF Backward
  <2>1. CASE y \in Open
    <3>1. PICK g \in Grey : Below(g, y) /\ Reaches(y, g)
      BY <2>1 DEF IInv, Backward
    <3> QED BY <1>0, <1>1, <1>4, <2>1, <3>1
  <2>2. CASE y = n
    BY <1>1, <1>4, <2>2, ReachSelf
  <2> QED BY <1>1, <2>1, <2>2
<1>14. LowSound'
  <2> SUFFICES ASSUME NEW y \in Open'
               PROVE \E m \in Open' : indexOf'[m] = lowlink'[y] /\ Below(m, y)' /\ Reaches(y, m)
    BY <1>5 DEF LowSound
  <2>1. CASE y \in Open
    <3>1. PICK m \in Open : indexOf[m] = lowlink[y] /\ Below(m, y) /\ Reaches(y, m)
      BY <2>1 DEF IInv, LowSound
    <3>2. lowlink'[y] = lowlink[y] /\ indexOf'[m] = indexOf[m]
      BY <1>0, <1>2, <1>3, <2>1
    <3> QED BY <1>1, <1>4, <2>1, <3>1, <3>2
  <2>2. CASE y = n
    BY <1>1, <1>2, <1>4, <2>2, ReachSelf
  <2> QED BY <1>1, <2>1, <2>2
<1>15. LowCounts'
  <2> SUFFICES ASSUME NEW g \in Grey', NEW y \in Open', NEW z \in Open',
                      CalledBy(g, y)', z \in Seen(y)', ~Below(g, z)'
               PROVE  lowlink'[g] <= indexOf'[z]
    BY DEF LowCounts
  <2>1. Below(g, y)' /\ \A h \in Grey' : Below(h, y)' => Below(h, g)'
    BY DEF CalledBy
  <2>2. y # n
    BY <1>1
  <2>3. y \in Open
    BY <1>1, <2>2
  <2>4. g \in Grey /\ g \in Open
    BY <1>0, <1>1, <1>4, <2>1, <2>3
  <2>5. z \in Open
    BY <1>1, <1>4, <2>4
  <2>6. CalledBy(g, y)
    BY <1>0, <1>1, <1>4, <2>1, <2>3, <2>4 DEF CalledBy
  <2>7. z \in Seen(y) /\ ~Below(g, z)
    BY <1>0, <1>1, <1>4, <2>2, <2>3, <2>4, <2>5
  <2>8. lowlink[g] <= indexOf[z]
    BY <2>3, <2>4, <2>5, <2>6, <2>7 DEF IInv, LowCounts
  <2> QED BY <1>0, <1>2, <1>3, <2>4, <2>5, <2>8
<1>16. ComponentsAreMaximal'
  BY <1>1, <1>5 DEF IInv, ComponentsAreMaximal, ComponentOf
<1>17. Reporting'
  BY <1>1 DEF IInv, Reporting
<1> QED BY <1>6, <1>7, <1>8, <1>9, <1>10, <1>11, <1>12, <1>13, <1>14, <1>15, <1>16, <1>17 DEF IInv

\* The types of what a step leaves, from its stack and its frames.
LEMMA ShapesOf ==
  ASSUME Shapes, UNCHANGED <<edges, indexOf, status>>,
         stack' \in Seq(Modules), Sorted(stack', indexOf'), frames' \in Seq(FrameType),
         components' \subseteq SUBSET Modules,
         \/ UNCHANGED lowlink
         \/ \E n, m \in Modules : Lower(n, indexOf[m]) \/ Lower(n, lowlink[m])
  PROVE  Shapes'
<1>1. indexOf \in [Modules -> Int] /\ lowlink \in [Modules -> Int]
  BY NextIndexFacts DEF Shapes
<1>2. lowlink' \in [Modules -> NotIndexed..Cardinality(Modules) - 1]
  <2> DEFINE R == NotIndexed..Cardinality(Modules) - 1
  <2>1. indexOf \in [Modules -> R] /\ lowlink \in [Modules -> R]
    BY DEF Shapes, TypeOK
  <2>2. ASSUME NEW n \in Modules, NEW a, a \in R, Lower(n, a) PROVE lowlink' \in [Modules -> R]
    <3>1. lowlink[n] \in R /\ lowlink[n] \in Int /\ a \in Int
      BY <2>1, <2>2 DEF NotIndexed
    <3>2. Min({lowlink[n], a}) \in R
      <4>1. Min({lowlink[n], a}) \in {lowlink[n], a}
        BY <3>1, LeastOfTwo
      <4> QED BY <2>2, <3>1, <4>1
    <3> HIDE DEF R
    <3> QED BY <2>1, <2>2, <3>2 DEF Lower
  <2> HIDE DEF R
  <2> QED BY <2>1, <2>2 DEF R
<1>3. IsInjective(stack')
  BY <1>1, SortedInjective
<1>4. ToSet(stack') \subseteq Modules
  BY AppendSets DEF ToSet
<1>5. \A i \in DOMAIN frames' : frames'[i].node \in Modules /\ frames'[i].left \subseteq Modules
  <2>1. \A i \in DOMAIN frames' : frames'[i] \in FrameType
    OBVIOUS
  <2> QED BY <2>1 DEF FrameType
<1> QED BY <1>2, <1>3, <1>4, <1>5 DEF Shapes, TypeOK

\* What is left to be shown of a step that visits nothing new.
LEMMA VisitedSame ==
  ASSUME IInv, UNCHANGED <<edges, indexOf, status>>, frames # <<>>
  PROVE  /\ NextIndex' = NextIndex /\ Numbered' /\ Reporting'
         /\ \A n, m : Below(n, m)' <=> Below(n, m)
         /\ \A n, m : Reaches(n, m)' <=> Reaches(n, m)
         /\ \A n : Indexed(n)' <=> Indexed(n)
         /\ \A t : Complete(t)' <=> Complete(t)
<1>1. status = Running
  BY DEF IInv, Reporting
<1> QED BY <1>1, ReachSame DEF IInv, Numbered, Indexed, NextIndex, Reporting, Below

LEMMA LooksKeeps ==
  ASSUME IInv, NEW k, Looks(k)
  PROVE  IInv'
<1>0. /\ Open \subseteq Modules /\ Grey \subseteq Open /\ Done \subseteq Modules
      /\ indexOf \in [Modules -> Int] /\ lowlink \in [Modules -> Int]
      /\ edges \in [Modules -> SUBSET Modules]
      /\ frames # <<>>
  BY SetFacts DEF IInv, Looks
<1>1. /\ k \in edges[Node] /\ Node \in Grey /\ Indexed(k)
      /\ UNCHANGED <<edges, indexOf, stack, components, status>>
      /\ Open' = Open /\ Grey' = Grey /\ Done' = Done
      /\ \A y \in Modules : Pending(y)' \subseteq edges[y] /\ Seen(y)' \subseteq Seen(y) \cup IF y = Node THEN {k} ELSE {}
      /\ \A h \in Grey : Below(h, Node)
  BY DEF Looks, Done
<1>2. Node \in Modules /\ Node \in Open /\ k \in Modules
  BY <1>0, <1>1
<1>3. /\ NextIndex' = NextIndex /\ Numbered' /\ Reporting'
      /\ \A n, m : Below(n, m)' <=> Below(n, m)
      /\ \A n, m : Reaches(n, m)' <=> Reaches(n, m)
      /\ \A n : Indexed(n)' <=> Indexed(n)
      /\ \A t : Complete(t)' <=> Complete(t)
  BY <1>0, <1>1, VisitedSame
<1>4. /\ lowlink' \in [Modules -> Int]
      /\ \A y \in Modules : y # Node => lowlink'[y] = lowlink[y]
      /\ lowlink'[Node] = IF k \in Open /\ indexOf[k] < lowlink[Node] THEN indexOf[k] ELSE lowlink[Node]
  <2>1. CASE k \in Open
    <3>1. lowlink' = [lowlink EXCEPT ![Node] = Min({lowlink[Node], indexOf[k]})]
      BY <2>1 DEF Looks, Lower
    <3>2. Min({lowlink[Node], indexOf[k]}) = IF indexOf[k] < lowlink[Node] THEN indexOf[k] ELSE lowlink[Node]
      BY <1>0, <1>2, LeastOfTwo
    <3>3. indexOf[k] \in Int /\ lowlink[Node] \in Int
      BY <1>0, <1>2
    <3> QED BY <1>0, <1>2, <2>1, <3>1, <3>2, <3>3
  <2>2. CASE k \notin Open
    <3>1. lowlink' = lowlink
      BY <2>2 DEF Looks
    <3> QED BY <1>0, <2>2, <3>1
  <2> QED BY <2>1, <2>2
<1>5. Shapes'
  <2>1. UNCHANGED lowlink \/ Lower(Node, indexOf[k])
    BY DEF Looks
  <2>2. stack' \in Seq(Modules) /\ Sorted(stack', indexOf') /\ components' \subseteq SUBSET Modules
    BY <1>1 DEF IInv, Shapes, TypeOK, Placed
  <2> QED BY <1>1, <1>2, <2>1, <2>2, ShapesOf DEF IInv, Looks
<1>6. Placed'
  BY <1>1, <1>3 DEF IInv, Placed
<1>7. Calls'
  BY <1>0, <1>1 DEF Looks, Calls
<1>8. NoneMissed'
  BY <1>1, <1>3 DEF IInv, NoneMissed
<1>9. Complete(Done)' /\ Forward' /\ Backward'
  BY <1>1, <1>3 DEF IInv, Forward, Backward
<1>10. LowSound'
  <2> SUFFICES ASSUME NEW y \in Open
               PROVE \E m \in Open : indexOf[m] = lowlink'[y] /\ Below(m, y) /\ Reaches(y, m)
    BY <1>1, <1>3 DEF LowSound
  <2>1. PICK m \in Open : indexOf[m] = lowlink[y] /\ Below(m, y) /\ Reaches(y, m)
    BY DEF IInv, LowSound
  <2>2. CASE lowlink'[y] = lowlink[y]
    BY <2>1, <2>2
  <2>3. CASE lowlink'[y] # lowlink[y]
    <3>1. y = Node /\ k \in Open /\ lowlink'[y] = indexOf[k] /\ indexOf[k] < lowlink[y]
      BY <1>0, <1>4, <2>3
    <3>2. Below(k, y)
      <4>1. indexOf[k] \in Int /\ indexOf[m] \in Int /\ indexOf[y] \in Int
        BY <1>0, <1>2
      <4> QED BY <2>1, <3>1, <4>1 DEF Below
    <3>3. Reaches(y, k)
      BY <1>1, <1>2, <3>1, ReachImport
    <3> QED BY <3>1, <3>2, <3>3
  <2> QED BY <2>2, <2>3
<1>11. LowCounts'
  <2> SUFFICES ASSUME NEW g \in Grey, NEW y \in Open, NEW z \in Open,
                      CalledBy(g, y), z \in Seen(y)', ~Below(g, z)
               PROVE  lowlink'[g] <= indexOf[z]
    BY <1>1, <1>3 DEF LowCounts, CalledBy
  <2>1. g \in Modules /\ lowlink[g] \in Int /\ lowlink'[g] \in Int /\ indexOf[z] \in Int
    BY <1>0, <1>4
  <2>2. lowlink'[g] <= lowlink[g]
    <3>1. indexOf[k] \in Int
      BY <1>0, <1>2
    <3> QED BY <1>4, <2>1, <3>1
  <2>3. CASE z \in Seen(y)
    <3>1. lowlink[g] <= indexOf[z]
      BY <2>3 DEF IInv, LowCounts
    <3> QED BY <2>1, <2>2, <3>1
  <2>4. CASE y = Node /\ z = k
    <3>1. Below(Node, Node)
      BY <1>0, <1>2 DEF Below
    <3>2. Below(g, Node) /\ Below(Node, g)
      BY <1>1, <2>4, <3>1 DEF CalledBy
    <3>3. indexOf[g] = indexOf[Node]
      BY <1>0, <1>2, <2>1, <3>2 DEF Below
    <3>4. g = Node
      <4>1. Indexed(g)
        BY <1>0, <2>1 DEF IInv, Placed
      <4> QED BY <1>2, <2>1, <3>3, <4>1 DEF IInv, Numbered
    <3> QED BY <1>4, <2>1, <2>4, <3>4
  <2> QED BY <1>0, <1>1, <2>3, <2>4
<1>12. ComponentsAreMaximal'
  BY <1>1, <1>3 DEF IInv, ComponentsAreMaximal, ComponentOf
<1> QED BY <1>3, <1>5, <1>6, <1>7, <1>8, <1>9, <1>10, <1>11, <1>12 DEF IInv

\* When the innermost visit returns with its own number as its low link, what
\* it opened, the nodes from it upwards on the stack, imports nothing that is
\* still open below it: with the done nodes it is closed under imports.
LEMMA RootClosed ==
  ASSUME IInv, Returns, IsRoot(Node)
  PROVE  Complete(Done \cup Component)
<1>0. /\ Open \subseteq Modules /\ Grey \subseteq Open /\ Done \subseteq Modules
      /\ indexOf \in [Modules -> Int] /\ edges \in [Modules -> SUBSET Modules]
      /\ Node \in Open /\ Node \in Grey /\ Seen(Node) = edges[Node]
      /\ \A h \in Grey : h # Node => indexOf[h] < indexOf[Node]
  BY SetFacts DEF IInv, Returns
<1>1. \A y \in Done : edges[y] \subseteq Done
  BY DEF IInv, Complete
<1>2. ASSUME NEW y \in Component, NEW z \in edges[y] PROVE z \in Done \cup Component
  <2>1. y \in Open /\ Below(Node, y) /\ y \in Modules /\ z \in Modules
    BY <1>0 DEF Component
  <2>2. z \in Seen(y)
    <3>1. CASE y = Node
      BY <1>0, <3>1
    <3>2. CASE y # Node
      <4>1. y \notin Grey
        BY <1>0, <2>1, <3>2 DEF Below
      <4>2. Pending(y) = {}
        BY <4>1 DEF Pending, LeftOf, Grey, NodesOf
      <4> QED BY <4>2 DEF Seen
    <3> QED BY <3>1, <3>2
  <2>3. z \in Open \cup Done
    <3>1. Indexed(y)
      BY <2>1 DEF IInv, Placed
    <3>2. Indexed(z)
      BY <2>1, <2>2, <3>1 DEF IInv, NoneMissed
    <3> QED BY <2>1, <3>2 DEF IInv, Placed
  <2>4. CalledBy(Node, y)
    <3>1. \A h \in Grey : Below(h, Node)
      BY <1>0 DEF Below
    <3> QED BY <2>1, <3>1 DEF CalledBy
  <2>5. ASSUME z \in Open, ~Below(Node, z) PROVE FALSE
    <3>1. lowlink[Node] <= indexOf[z]
      BY <1>0, <2>1, <2>2, <2>4, <2>5 DEF IInv, LowCounts
    <3> QED BY <2>5, <3>1 DEF IsRoot, Below
  <2> QED BY <2>3, <2>5 DEF Component
<1> QED BY <1>1, <1>2 DEF Complete

\* What a root closes is the component of each of its nodes.
LEMMA RootComponent ==
  ASSUME IInv, Returns, IsRoot(Node), NEW n \in Component
  PROVE  Component = ComponentOf(n)
<1>0. /\ Open \subseteq Modules /\ Grey \subseteq Open /\ Done \subseteq Modules
      /\ indexOf \in [Modules -> Int]
      /\ Node \in Open /\ Node \in Grey /\ Node \in Modules
      /\ \A h \in Grey : Below(h, Node)
      /\ Component \subseteq Open
  <2>1. \A h \in Grey : h # Node => indexOf[h] < indexOf[Node]
    BY DEF Returns
  <2>2. /\ Open \subseteq Modules /\ Grey \subseteq Open /\ Done \subseteq Modules
        /\ indexOf \in [Modules -> Int] /\ Node \in Grey
    BY SetFacts DEF IInv, Returns
  <2>3. \A h \in Grey : Below(h, Node)
    BY <2>1, <2>2 DEF Below
  <2> QED BY <2>2, <2>3 DEF Component
<1>1. \A y \in Component : Reaches(Node, y) /\ Reaches(y, Node)
  <2> SUFFICES ASSUME NEW y \in Component PROVE Reaches(Node, y) /\ Reaches(y, Node)
    OBVIOUS
  <2>1. y \in Open /\ Below(Node, y)
    BY DEF Component
  <2>2. Reaches(Node, y)
    BY <1>0, <2>1 DEF IInv, Forward
  <2>3. PICK h \in Grey : Below(h, y) /\ Reaches(y, h)
    BY <2>1 DEF IInv, Backward
  <2>4. Reaches(h, Node)
    BY <1>0 DEF IInv, Forward
  <2>5. y \in Modules /\ h \in Modules
    BY <1>0, <2>1
  <2> QED BY <1>0, <2>2, <2>3, <2>4, <2>5, ReachTrans
<1>2. Component \subseteq ComponentOf(n)
  <2> SUFFICES ASSUME NEW y \in Component PROVE y \in ComponentOf(n)
    OBVIOUS
  <2>1. y \in Modules /\ n \in Modules
    BY <1>0
  <2>2. Reaches(n, y) /\ Reaches(y, n)
    BY <1>0, <1>1, <2>1, ReachTrans
  <2> QED BY <2>1, <2>2 DEF ComponentOf
<1>3. ComponentOf(n) \subseteq Component
  <2> SUFFICES ASSUME NEW m \in Modules, Reaches(n, m), Reaches(m, n) PROVE m \in Component
    BY DEF ComponentOf
  <2>1. n \in Modules /\ Done \cup Component \in SUBSET Modules /\ n \notin Done
    BY <1>0 DEF IInv, Placed
  <2>2. m \in Done \cup Component
    BY <2>1, RootClosed, ReachWithin
  <2>3. m \notin Done
    <3> SUFFICES ASSUME m \in Done PROVE FALSE
      OBVIOUS
    <3>1. Complete(Done) /\ Done \in SUBSET Modules
      BY <1>0 DEF IInv
    <3> QED BY <2>1, <3>1, ReachWithin
  <2> QED BY <2>2, <2>3
<1> QED BY <1>2, <1>3

LEMMA ReturnsKeeps ==
  ASSUME IInv, Returns
  PROVE  IInv'
<1>0. /\ Open \subseteq Modules /\ Grey \subseteq Open /\ Done \subseteq Modules
      /\ indexOf \in [Modules -> Int] /\ lowlink \in [Modules -> Int]
      /\ edges \in [Modules -> SUBSET Modules]
      /\ Node \in Grey /\ Node \in Open /\ Node \in Modules
      /\ frames # <<>>
  BY SetFacts DEF IInv, Returns
<1>1. /\ UNCHANGED <<edges, indexOf, status>>
      /\ Grey' = Grey \ {Node}
      /\ \A h \in Grey' : indexOf[h] < indexOf[Node]
      /\ \A y \in Modules : Pending(y)' = Pending(y) /\ Seen(y)' = Seen(y)
      /\ Component \subseteq Open
  BY DEF Returns, Seen, Component
<1>2. /\ NextIndex' = NextIndex /\ Numbered' /\ Reporting'
      /\ \A n, m : Below(n, m)' <=> Below(n, m)
      /\ \A n, m : Reaches(n, m)' <=> Reaches(n, m)
      /\ \A n : Indexed(n)' <=> Indexed(n)
      /\ \A t : Complete(t)' <=> Complete(t)
  BY <1>0, <1>1, VisitedSame
<1>3. \/ /\ IsRoot(Node) /\ Open' = Open \ Component
         /\ components' = components \cup {Component} /\ Done' = Done \cup Component
      \/ ~IsRoot(Node) /\ Open' = Open /\ components' = components /\ Done' = Done
  BY DEF Returns, Done
<1>4. /\ Open' \subseteq Open
      /\ \A y \in Open : y \in Open' \/ Below(Node, y)
      /\ \A y \in Open' : IsRoot(Node) => ~Below(Node, y)
      /\ \A y \in Open : ~Below(Node, y) => y \in Open'
  BY <1>3 DEF Component
<1>5. /\ lowlink' \in [Modules -> Int]
      /\ \/ Grey' = {} /\ lowlink' = lowlink
         \/ \E c \in Grey' :
              /\ \A h \in Grey' : Below(h, c)
              /\ \A y \in Modules : y # c => lowlink'[y] = lowlink[y]
              /\ lowlink'[c] = IF lowlink[Node] < lowlink[c] THEN lowlink[Node] ELSE lowlink[c]
  <2>1. CASE Grey' = {} /\ UNCHANGED lowlink
    BY <1>0, <2>1
  <2>2. ASSUME NEW c \in Grey', \A h \in Grey' : Below(h, c), Lower(c, lowlink[Node])
        PROVE  /\ lowlink' \in [Modules -> Int]
               /\ \A y \in Modules : y # c => lowlink'[y] = lowlink[y]
               /\ lowlink'[c] = IF lowlink[Node] < lowlink[c] THEN lowlink[Node] ELSE lowlink[c]
    <3>1. c \in Modules /\ lowlink[c] \in Int /\ lowlink[Node] \in Int
      BY <1>0, <1>1
    <3>2. lowlink' = [lowlink EXCEPT ![c] = Min({lowlink[c], lowlink[Node]})]
      BY <2>2 DEF Lower
    <3>3. Min({lowlink[c], lowlink[Node]}) = IF lowlink[Node] < lowlink[c] THEN lowlink[Node] ELSE lowlink[c]
      BY <3>1, LeastOfTwo
    <3> QED BY <1>0, <3>1, <3>2, <3>3
  <2> QED BY <2>1, <2>2 DEF Returns
<1>6. Shapes'
  <2>1. stack' \in Seq(Modules) /\ Sorted(stack', indexOf') /\ frames' \in Seq(FrameType)
    BY DEF Returns
  <2>2. components' \subseteq SUBSET Modules
    <3>1. components \subseteq SUBSET Modules
      BY DEF IInv, Shapes, TypeOK
    <3>2. Component \in SUBSET Modules
      BY <1>0, <1>1
    <3> QED BY <1>3, <3>1, <3>2
  <2>3. UNCHANGED lowlink \/ \E n, m \in Modules : Lower(n, lowlink[m])
    BY <1>0, <1>1 DEF Returns
  <2> QED BY <1>1, <2>1, <2>2, <2>3, ShapesOf DEF IInv
<1>7. Placed'
  <2>1. \A n \in Modules : Indexed(n)' <=> n \in Open' \cup Done'
    BY <1>1, <1>2, <1>3 DEF IInv, Placed
  <2>2. Open' \cap Done' = {}
    BY <1>1, <1>3 DEF IInv, Placed
  <2> QED BY <2>1, <2>2 DEF Placed, Returns
<1>8. Calls'
  <2>1. Grey' \subseteq Open'
    BY <1>0, <1>1, <1>4 DEF Below
  <2> QED BY <1>1, <2>1 DEF Returns, IInv, Calls
<1>9. NoneMissed'
  BY <1>1, <1>2 DEF IInv, NoneMissed
<1>10. Complete(Done)'
  BY <1>2, <1>3, RootClosed DEF IInv
<1>11. Forward'
  BY <1>1, <1>2, <1>4 DEF IInv, Forward
\* Above the innermost visit nothing is left at a root; otherwise what reached
\* it reaches, through the node its low link is the index of, one before it.
<1>12. Backward'
  <2> SUFFICES ASSUME NEW y \in Open' PROVE \E g \in Grey' : Below(g, y) /\ Reaches(y, g)
    BY <1>2 DEF Backward
  <2>1. PICK h \in Grey : Below(h, y) /\ Reaches(y, h)
    BY <1>4 DEF IInv, Backward
  <2>2. CASE h # Node
    BY <1>1, <2>1, <2>2
  <2>3. CASE h = Node
    <3>1. ~IsRoot(Node)
      BY <1>4, <2>1, <2>3
    <3>2. PICK m \in Open : indexOf[m] = lowlink[Node] /\ Below(m, Node) /\ Reaches(Node, m)
      BY <1>0 DEF IInv, LowSound
    <3>3. indexOf[m] < indexOf[Node]
      BY <1>0, <3>1, <3>2 DEF IsRoot, Below
    <3>4. PICK g \in Grey : Below(g, m) /\ Reaches(m, g)
      BY DEF IInv, Backward
    <3>5. g \in Modules /\ m \in Modules /\ y \in Modules
      BY <1>0, <1>4
    <3>6. g # Node /\ Below(g, y)
      BY <1>0, <2>1, <2>3, <3>3, <3>4, <3>5 DEF Below
    <3>7. Reaches(y, m)
      BY <1>0, <2>1, <2>3, <3>2, <3>5, ReachTrans
    <3>8. Reaches(y, g)
      BY <3>4, <3>5, <3>7, ReachTrans
    <3> QED BY <1>1, <3>6, <3>8
  <2> QED BY <2>2, <2>3
<1>13. LowSound'
  <2> SUFFICES ASSUME NEW y \in Open'
               PROVE \E m \in Open' : indexOf[m] = lowlink'[y] /\ Below(m, y) /\ Reaches(y, m)
    BY <1>1, <1>2 DEF LowSound
  <2>0. y \in Open /\ y \in Modules
    BY <1>0, <1>4
  <2>1. PICK m \in Open : indexOf[m] = lowlink[y] /\ Below(m, y) /\ Reaches(y, m)
    BY <2>0 DEF IInv, LowSound
  <2>2. \A x \in Open : Below(x, y) => x \in Open'
    <3>1. CASE IsRoot(Node)
      BY <1>0, <1>4, <2>0, <3>1 DEF Below
    <3>2. CASE ~IsRoot(Node)
      BY <1>3, <3>2
    <3> QED BY <3>1, <3>2
  <2>3. CASE lowlink'[y] = lowlink[y]
    BY <2>1, <2>2, <2>3
  <2>4. CASE lowlink'[y] # lowlink[y]
    <3>1. y \in Grey' /\ lowlink'[y] = lowlink[Node] /\ lowlink[Node] < lowlink[y]
      BY <1>5, <2>0, <2>4
    <3>2. PICK x \in Open : indexOf[x] = lowlink[Node] /\ Reaches(Node, x)
      BY <1>0 DEF IInv, LowSound
    <3>3. Reaches(y, Node)
      BY <1>0, <1>1, <3>1 DEF IInv, Forward, Below
    <3>4. x \in Modules
      BY <1>0
    <3>5. Reaches(y, x)
      BY <1>0, <2>0, <3>2, <3>3, <3>4, ReachTrans
    <3>6. Below(x, y)
      BY <1>0, <2>0, <2>1, <3>1, <3>2, <3>4 DEF Below
    <3> QED BY <2>2, <3>1, <3>2, <3>5, <3>6
  <2> QED BY <2>3, <2>4
<1>14. LowCounts'
  <2> SUFFICES ASSUME NEW g \in Grey', NEW y \in Open', NEW z \in Open',
                      CalledBy(g, y)', z \in Seen(y)', ~Below(g, z)
               PROVE  lowlink'[g] <= indexOf[z]
    BY <1>1, <1>2 DEF LowCounts
  <2>0. y \in Modules /\ z \in Modules /\ g \in Modules /\ y \in Open /\ z \in Open /\ g \in Grey /\ z \in Seen(y)
    BY <1>0, <1>1, <1>4
  <2>1. Below(g, y) /\ \A h \in Grey' : Below(h, y) => Below(h, g)
    BY <1>2 DEF CalledBy
  <2>2. lowlink'[g] <= lowlink[g] /\ lowlink[g] \in Int /\ lowlink'[g] \in Int /\ indexOf[z] \in Int
    BY <1>0, <1>5, <2>0
  <2>3. CASE ~Below(Node, y)
    <3>1. CalledBy(g, y)
      BY <1>1, <2>1, <2>3 DEF CalledBy
    <3>2. lowlink[g] <= indexOf[z]
      BY <2>0, <3>1 DEF IInv, LowCounts
    <3> QED BY <2>2, <3>2
  <2>4. CASE Below(Node, y)
    <3>1. PICK c \in Grey' :
            /\ \A h \in Grey' : Below(h, c)
            /\ lowlink'[c] = IF lowlink[Node] < lowlink[c] THEN lowlink[Node] ELSE lowlink[c]
      BY <1>5
    <3>2. c \in Modules /\ c \in Grey /\ indexOf[c] < indexOf[Node]
      BY <1>0, <1>1
    <3>3. g = c
      <4>1. Below(c, y)
        BY <1>0, <2>0, <2>4, <3>2 DEF Below
      <4>2. indexOf[g] = indexOf[c]
        BY <1>0, <2>0, <2>1, <3>1, <3>2, <4>1 DEF Below
      <4>3. Indexed(g)
        BY <1>0, <2>0 DEF IInv, Placed
      <4> QED BY <2>0, <3>2, <4>2, <4>3 DEF IInv, Numbered
    <3>4. CalledBy(Node, y)
      <4>1. \A h \in Grey : Below(h, Node)
        BY <1>0, <1>1 DEF Below
      <4> QED BY <2>4, <4>1 DEF CalledBy
    <3>5. ~Below(Node, z)
      BY <1>0, <2>0, <3>2, <3>3 DEF Below
    <3>6. lowlink[Node] <= indexOf[z]
      BY <1>0, <2>0, <3>4, <3>5 DEF IInv, LowCounts
    <3>7. lowlink[Node] \in Int /\ lowlink[c] \in Int
      BY <1>0, <3>2
    <3> QED BY <2>2, <3>1, <3>3, <3>6, <3>7
  <2> QED BY <2>3, <2>4
<1>15. ComponentsAreMaximal'
  <2> SUFFICES ASSUME NEW c \in components', NEW n \in c PROVE c = ComponentOf(n)
    BY <1>2 DEF ComponentsAreMaximal, ComponentOf
  <2>1. CASE c \in components
    BY <2>1 DEF IInv, ComponentsAreMaximal
  <2>2. CASE c \notin components
    BY <1>3, <2>2, RootComponent
  <2> QED BY <2>1, <2>2
<1> QED BY <1>2, <1>6, <1>7, <1>8, <1>9, <1>10, <1>11, <1>12, <1>13, <1>14, <1>15 DEF IInv

LEMMA InvStep == IInv /\ [Next]_vars => IInv'
<1> SUFFICES ASSUME IInv, [Next]_vars PROVE IInv'
  OBVIOUS
<1>1. Shapes /\ Placed /\ Calls /\ Numbered
  BY DEF IInv
<1>2. CASE VisitRoot
  BY <1>1, <1>2, RootOpens, OpensKeeps
<1>3. CASE Neighbor
  BY <1>1, <1>3, NeighborLooks, OpensKeeps, LooksKeeps
<1>4. CASE Return
  BY <1>1, <1>4, ReturnReturns, ReturnsKeeps
<1>5. CASE Report \/ Reported \/ UNCHANGED vars
  <2>1. UNCHANGED <<edges, indexOf, lowlink, stack, frames, components>>
    BY <1>5 DEF Report, Reported, vars
  <2>2. /\ Open' = Open /\ Grey' = Grey /\ Done' = Done
        /\ \A y : Pending(y)' = Pending(y) /\ Seen(y)' = Seen(y)
        /\ \A n, m : Below(n, m)' <=> Below(n, m)
        /\ \A n, m : Reaches(n, m)' <=> Reaches(n, m)
        /\ \A n : Indexed(n)' <=> Indexed(n)
        /\ \A t : Complete(t)' <=> Complete(t)
        /\ NextIndex' = NextIndex /\ (HasCycle' <=> HasCycle)
    BY <2>1, ReachSame DEF Open, Grey, Done, Pending, Seen, Below, Indexed, NextIndex, HasCycle
  <2>3. Reporting'
    <3>1. CASE Report
      BY <2>1, <2>2, <3>1 DEF Report, Reporting, Running
    <3>2. CASE UNCHANGED status
      BY <2>1, <2>2, <3>2 DEF IInv, Reporting
    <3> QED BY <1>5, <3>1, <3>2 DEF Reported, vars
  <2>4. Shapes'
    <3>1. status' \in {Running, 0, 1}
      BY <1>5 DEF Report, Reported, vars, IInv, Shapes, TypeOK
    <3> QED BY <2>1, <3>1 DEF IInv, Shapes, TypeOK
  <2>5. Numbered' /\ Placed' /\ Calls' /\ NoneMissed'
    BY <2>1, <2>2 DEF IInv, Numbered, Placed, Calls, NoneMissed
  <2>6. Complete(Done)' /\ Forward' /\ Backward' /\ LowSound'
    BY <2>1, <2>2 DEF IInv, Forward, Backward, LowSound
  <2>7. LowCounts'
    BY <2>1, <2>2 DEF IInv, LowCounts, CalledBy
  <2>8. ComponentsAreMaximal'
    BY <2>1, <2>2 DEF IInv, ComponentsAreMaximal, ComponentOf
  <2> QED BY <2>3, <2>4, <2>5, <2>6, <2>7, <2>8 DEF IInv
<1> QED BY <1>2, <1>3, <1>4, <1>5 DEF Next

LEMMA InvAlways == Spec => []IInv
BY InvInit, InvStep, PTL DEF Spec
-----------------------------------------------------------------------------
\* The search keeps its types: indices and low links are below the number of
\* modules, and no module is on the stack twice (import_cycles.py:104-119).
THEOREM ImportCyclesTypeCorrect == Spec => []TypeOK
<1>1. IInv => TypeOK
  BY DEF IInv, Shapes
<1> QED BY <1>1, InvAlways, PTL

\* On every graph and in every order of visits, what is reported as a component
\* is one, and is whole (import_cycles.py:113-136).
THEOREM ComponentsAreMaximalAlways == Spec => []ComponentsAreMaximal
<1>1. IInv => ComponentsAreMaximal
  BY DEF IInv
<1> QED BY <1>1, InvAlways, PTL

\* A module that has an index is on the stack exactly as long as no reported
\* component holds it, and while it is there its low link is the index of a module
\* on the stack in its own strongly connected component (import_cycles.py:121-128).
THEOREM OpenNodesOnStackAlways == Spec => []OpenNodesOnStack
<1>1. IInv => OpenNodesOnStack
  <2> SUFFICES ASSUME IInv, NEW n \in Modules, Indexed(n)
               PROVE  /\ n \in Open <=> n \notin Done
                      /\ n \in Open => \E m \in Open : indexOf[m] = lowlink[n] /\ m \in ComponentOf(n)
    BY DEF OpenNodesOnStack, Open, Done
  <2>1. n \in Open <=> n \notin Done
    BY DEF IInv, Placed
  <2>2. ASSUME n \in Open PROVE \E m \in Open : indexOf[m] = lowlink[n] /\ m \in ComponentOf(n)
    <3>1. PICK m \in Open : indexOf[m] = lowlink[n] /\ Below(m, n) /\ Reaches(n, m)
      BY <2>2 DEF IInv, LowSound
    <3>2. PICK g \in Grey : Below(g, m) /\ Reaches(m, g)
      BY DEF IInv, Backward
    <3>3. m \in Modules /\ g \in Modules /\ indexOf \in [Modules -> Int]
      BY SetFacts DEF IInv
    <3>4. Below(g, n)
      BY <3>1, <3>2, <3>3 DEF Below
    <3>5. Reaches(g, n)
      BY <2>2, <3>4 DEF IInv, Forward
    <3>6. Reaches(m, n)
      BY <3>2, <3>3, <3>5, ReachTrans
    <3> QED BY <3>1, <3>3, <3>6 DEF ComponentOf
  <2> QED BY <2>1, <2>2
<1> QED BY <1>1, InvAlways, PTL

\* The linting fails exactly when some module imports itself, directly or not
\* (import_cycles.py:170-188).
THEOREM VerdictRightAlways == Spec => []VerdictRight
<1>1. IInv => VerdictRight
  <2> SUFFICES ASSUME IInv, status # Running
               PROVE  HasCycle <=> \E m \in Modules : \E n \in edges[m] : Reaches(n, m)
    BY DEF VerdictRight, IInv, Reporting
  <2>1. /\ \A m \in Modules : m \in Done
        /\ Done \subseteq Modules /\ edges \in [Modules -> SUBSET Modules]
        /\ components \subseteq SUBSET Modules
        /\ \A c \in components : \A n \in c : c = ComponentOf(n)
    <3>1. frames = <<>> /\ \A m \in Modules : Indexed(m)
      BY DEF IInv, Reporting
    <3>2. Grey = {}
      BY <3>1, SetFacts DEF IInv
    <3>3. Open = {}
      BY <3>2 DEF IInv, Backward
    <3>4. \A m \in Modules : m \in Done
      BY <3>1, <3>3 DEF IInv, Placed
    <3> QED BY <3>4, SetFacts DEF IInv, ComponentsAreMaximal, Shapes, TypeOK
  <2>2. ASSUME HasCycle PROVE \E m \in Modules : \E n \in edges[m] : Reaches(n, m)
    <3>1. CASE \E m \in Modules : m \in edges[m]
      BY <3>1, ReachSelf
    <3>2. CASE \E c \in components : Cardinality(c) > 1
      <4>0. PICK c \in components : Cardinality(c) > 1
        BY <3>2
      <4>1. PICK a \in c, b \in c : a # b
        <5>1. c \in SUBSET Modules
          BY <2>1
        <5> QED BY <4>0, <5>1, MoreThanOne
      <4>2. a \in Modules /\ b \in Modules /\ Reaches(a, b) /\ Reaches(b, a)
        BY <2>1, <4>1 DEF ComponentOf
      <4>3. PICK n \in edges[a] : Reaches(n, b)
        BY <2>1, <4>1, <4>2, ReachFirst
      <4>4. n \in Modules
        BY <2>1, <4>2
      <4>5. Reaches(n, a)
        BY <4>2, <4>3, <4>4, ReachTrans
      <4> QED BY <4>2, <4>5
    <3> QED BY <2>2, <3>1, <3>2 DEF HasCycle
  <2>3. ASSUME NEW m \in Modules, NEW n \in edges[m], Reaches(n, m) PROVE HasCycle
    <3>1. n \in Modules /\ Reaches(m, n)
      BY <2>1, ReachImport
    <3>2. CASE n = m
      BY <3>2 DEF HasCycle
    <3>3. CASE n # m
      <4>1. PICK c \in components : m \in c
        BY <2>1 DEF Done
      <4>2. c = ComponentOf(m) /\ c \in SUBSET Modules
        BY <2>1, <4>1
      <4>3. n \in c
        BY <2>3, <3>1, <4>2 DEF ComponentOf
      <4>4. Cardinality(c) > 1
        BY <3>3, <4>1, <4>2, <4>3, MoreThanOne
      <4> QED BY <4>4 DEF HasCycle
    <3> QED BY <3>2, <3>3
  <2> QED BY <2>2, <2>3
<1> QED BY <1>1, InvAlways, PTL
=============================================================================
