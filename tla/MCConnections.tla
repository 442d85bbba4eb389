--------------------------- MODULE MCConnections ----------------------------
EXTENDS Connections, TLC

CONSTANTS w1, w2, w3

Two == {w1, w2}
Three == {w1, w2, w3}
Symmetric == Permutations(Sockets)
=============================================================================
