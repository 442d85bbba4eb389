------------------------------ MODULE SlotPool ------------------------------
(***************************************************************************)
(* What admission control promises: at most Size holders at a time, each   *)
(* holder once, and every holder that leaves makes room for another.       *)
(***************************************************************************)
EXTENDS Naturals, FiniteSets

CONSTANTS
  Clients, \* finitely many
  Size     \* at least 1

VARIABLE holders

Init == holders = {}

Acquire(c) ==
  /\ c \notin holders /\ Cardinality(holders) < Size
  /\ holders' = holders \cup {c}

Release(c) ==
  /\ c \in holders
  /\ holders' = holders \ {c}

Next == \E c \in Clients : Acquire(c) \/ Release(c)

Spec == Init /\ [][Next]_holders

\* The pool never hands out more than it has (connections.py:18-22).
Capacity == holders \subseteq Clients /\ Cardinality(holders) <= Size
=============================================================================
