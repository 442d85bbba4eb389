----------------------------- MODULE Utterance ------------------------------
(***************************************************************************)
(* What a session promises about its utterances: one is open at a time,    *)
(* one at a time awaits its done, and both are the same request. This is   *)
(* what the watchdog and the stamping of frames with a request_id rely on. *)
(***************************************************************************)
CONSTANTS Requests, NoRequest

VARIABLES
  open, \* the request that accepts audio
  busy  \* the request whose final commit awaits its done

None == NoRequest

Init == open = None /\ busy = None

\* A request begins; an answer still due is given up unless it is its own.
Begin(r) ==
  /\ open' = r
  /\ busy' \in {busy, None} \cap {r, None}

\* The final commit of the open request.
Finalize(r) ==
  /\ open = r
  /\ open' = None /\ busy' = r

\* A cancel: nothing is open and nothing is awaited.
Abandon == open' = None /\ busy' = None

\* A done or an error is the answer, whatever has begun since.
Answer == busy' = None /\ UNCHANGED open

Next == Abandon \/ Answer \/ \E r \in Requests : Begin(r) \/ Finalize(r)

Spec == Init /\ [][Next]_<<open, busy>>
=============================================================================
