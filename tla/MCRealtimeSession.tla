------------------------- MODULE MCRealtimeSession -------------------------
(* Small values for RealtimeSession's constants.                            *)
EXTENDS RealtimeSession

CONSTANTS r1, r2

OneRequest  == {r1}
TwoRequests == {r1, r2}
=============================================================================
