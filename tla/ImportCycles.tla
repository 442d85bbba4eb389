---------------------------- MODULE ImportCycles ----------------------------
(***************************************************************************)
(* The import-cycle check of the repository's linting: Tarjan's algorithm  *)
(* on the graph of imports between modules, and the exit status main()     *)
(* draws from the components it finds. visit() is recursive in the code;   *)
(* here its activations are a stack of frames. Which module or neighbour   *)
(* comes next is left open. How imports are resolved to modules is not     *)
(* modelled: the graph is any graph.                                       *)
(***************************************************************************)
EXTENDS Integers, SequencesExt

CONSTANT Modules

ASSUME CyclesAssumption == IsFiniteSet(Modules)

VARIABLES
  edges,      \* the modules each module imports
  indexOf,    \* index_by_node, NotIndexed before the visit
  lowlink,    \* lowlink_by_node
  stack,      \* stack, and on_stack as a set
  frames,     \* activations of visit(): the node, the neighbours it has left
  components, \* the components found
  status      \* what main() returns; Running before

vars == <<edges, indexOf, lowlink, stack, frames, components, status>>

NotIndexed == -1
Running    == -1

Init ==
  /\ edges \in [Modules -> SUBSET Modules]
  /\ indexOf = [n \in Modules |-> NotIndexed] /\ lowlink = [n \in Modules |-> NotIndexed]
  /\ stack = <<>> /\ frames = <<>> /\ components = {} /\ status = Running

Indexed(n) == indexOf[n] # NotIndexed
Node    == Last(frames).node
Lower(n, k) == lowlink' = [lowlink EXCEPT ![n] = Min({@, k})]
-----------------------------------------------------------------------------
NextIndexFromOne == 1 + Cardinality({m \in Modules : Indexed(m)})  \* mutant
NextIndex == Cardinality({m \in Modules : Indexed(m)})

\* The first lines of visit(), called with the frames of its callers.
Visit(n, callers) ==
  /\ indexOf' = [indexOf EXCEPT ![n] = NextIndex]
  /\ lowlink' = [lowlink EXCEPT ![n] = NextIndex]
  /\ stack' = Append(stack, n)
  /\ frames' = Append(callers, [node |-> n, left |-> edges[n]])
  /\ UNCHANGED <<edges, components, status>>

VisitRoot ==
  /\ frames = <<>>
  /\ \E m \in Modules : ~Indexed(m) /\ Visit(m, <<>>)

\* A neighbour is only counted while it is on the stack: after that it is in
\* a component of its own.
CountsAlways(n) == Indexed(n)  \* mutant
Counts(n) == n \in ToSet(stack)

Neighbor ==
  /\ frames # <<>> /\ status = Running
  /\ \E n \in Last(frames).left :
       LET rest == Append(Front(frames), [Last(frames) EXCEPT !.left = @ \ {n}])
       IN IF ~Indexed(n) THEN Visit(n, rest)
          ELSE /\ frames' = rest
               /\ IF Counts(n) THEN Lower(Node, indexOf[n]) ELSE UNCHANGED lowlink
               /\ UNCHANGED <<edges, indexOf, stack, components, status>>

\* The end of visit(): a root closes its component; the caller's lowlink
\* follows.
IsRoot(n) == lowlink[n] = indexOf[n]

PopsOne(n) == Len(stack)  \* mutant
PopsFrom(n) == CHOOSE i \in DOMAIN stack : stack[i] = n

Return ==
  /\ frames # <<>> /\ Last(frames).left = {}
  /\ frames' = Front(frames)
  /\ IF IsRoot(Node)
     THEN /\ components' = components \cup {ToSet(SubSeq(stack, PopsFrom(Node), Len(stack)))}
          /\ stack' = SubSeq(stack, 1, PopsFrom(Node) - 1)
     ELSE UNCHANGED <<components, stack>>
  /\ IF Len(frames) > 1
     THEN Lower(Last(Front(frames)).node, lowlink[Node]) ELSE UNCHANGED lowlink
  /\ UNCHANGED <<edges, indexOf, status>>

\* main(): components of more than one module, or a module that imports itself.
HasCycleNoSelf == \E c \in components : Cardinality(c) > 1  \* mutant
HasCycle == (\E c \in components : Cardinality(c) > 1) \/ \E m \in Modules : m \in edges[m]

Report ==
  /\ frames = <<>> /\ status = Running /\ \A m \in Modules : Indexed(m)
  /\ status' = IF HasCycle THEN 1 ELSE 0
  /\ UNCHANGED <<edges, indexOf, lowlink, stack, frames, components>>

Reported == status # Running /\ UNCHANGED vars

Next == VisitRoot \/ Neighbor \/ Return \/ Report \/ Reported

Spec == Init /\ [][Next]_vars
-----------------------------------------------------------------------------
\* Every variable keeps its type.
TypeOK ==
  /\ edges \in [Modules -> SUBSET Modules]
  /\ indexOf \in [Modules -> NotIndexed..Cardinality(Modules) - 1]
  /\ lowlink \in [Modules -> NotIndexed..Cardinality(Modules) - 1]
  /\ IsInjective(stack) /\ ToSet(stack) \subseteq Modules
  /\ \A i \in DOMAIN frames : frames[i].node \in Modules /\ frames[i].left \subseteq Modules
  /\ components \subseteq SUBSET Modules /\ status \in {Running, 0, 1}

\* m is in every set that holds n and all that its members import: m is n, or
\* n imports it, directly or not.
Complete(t) == \A n \in t : edges[n] \subseteq t
Reaches(n, m) == \A t \in SUBSET (Modules \ {m}) : n \in t => ~Complete(t)

\* A component is n and the modules it imports that import it.
ComponentOf(n) == {m \in Modules : Reaches(n, m) /\ Reaches(m, n)}

\* Whatever the order of visits, what is reported as one component is one, and
\* is whole (import_cycles.py:113-136).
ComponentsAreMaximal == \A c \in components : \A n \in c : c = ComponentOf(n)

\* While the search goes on, a node is on the stack as long as its component
\* is open, and its lowlink is the index of a node of that component.
OpenNodesOnStack ==
  \A n \in Modules : Indexed(n) =>
    /\ n \in ToSet(stack) <=> n \notin UNION components
    /\ n \in ToSet(stack) =>
         \E m \in ToSet(stack) : indexOf[m] = lowlink[n] /\ m \in ComponentOf(n)

\* The check fails exactly when some module imports itself, directly or not
\* (import_cycles.py:4-6).
VerdictRight ==
  status # Running => (status = 1 <=> \E m \in Modules : \E n \in edges[m] : Reaches(n, m))
=============================================================================
