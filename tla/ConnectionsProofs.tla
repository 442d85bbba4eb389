-------------------------- MODULE ConnectionsProofs -------------------------
(***************************************************************************)
(* For every number of sockets, limit and timeout: a slot belongs to an    *)
(* admitted handler and no other, the handlers use a pool of Limit slots,  *)
(* and a connection is over when its bounds say so.                        *)
(***************************************************************************)
EXTENDS Connections, FiniteSetTheorems, TLAPS

\* The limit is at least one slot, the receive timeout at least one unit.
LEMMA Limits == Limit \in Nat \ {0} /\ RecvTimeout \in Nat \ {0}
  BY ConnectionsAssumption DEF Limit, RecvTimeout, AtLeast

\* The set of slots is finite, so that its size is a number.
LEMMA SlotsFinite == ASSUME TypeOK PROVE IsFiniteSet(slots) /\ Cardinality(slots) \in Nat
  <1>1. IsFiniteSet(slots)
    BY FS_Subset, ConnectionsAssumption DEF TypeOK
  <1> QED BY <1>1, FS_CardinalityType

\* The invariant the steps preserve.
IInv == TypeOK /\ SlotsOwned /\ ClocksOK

LEMMA InitOK == Init => IInv
  <1> SUFFICES ASSUME Init PROVE IInv OBVIOUS
  <1>3. Cardinality(slots) <= Limit
    BY FS_EmptySet, Limits DEF Init
  <1>1. TypeOK
    BY <1>3, ConnectionsAssumption, Limits DEF Init, TypeOK, Zero, None, Phases
  <1>2. SlotsOwned
    BY DEF Init, SlotsOwned, Admitted
  <1>4. ClocksOK
    BY DEF Init, ClocksOK
  <1> QED BY <1>1, <1>2, <1>4 DEF IInv

\* Only the handler's own steps move it between the phases that hold a slot.
LEMMA AdmissionStep ==
  ASSUME IInv, NEW s \in Sockets, Handler(s)
  PROVE  SlotsOwned' /\ Cardinality(slots') <= Limit
  <1>0. IsFiniteSet(slots) /\ Cardinality(slots) \in Nat /\ Limit \in Nat \ {0}
    BY SlotsFinite, Limits DEF IInv
  <1>5. Cardinality(slots \cup {s}) = IF s \in slots THEN Cardinality(slots) ELSE Cardinality(slots) + 1
    BY <1>0, FS_AddElement
  <1>6. Cardinality(slots \ {s}) = IF s \in slots THEN Cardinality(slots) - 1 ELSE Cardinality(slots)
    BY <1>0, FS_RemoveElement
  <1> USE DEF IInv, TypeOK, SlotsOwned, Admitted, Goto
  <1>1. CASE Unauthorized(s) \/ TurnAway(s) \/ Rejected(s)
    BY <1>0, <1>1 DEF Unauthorized, TurnAway, Rejected
  <1>2. CASE Admit(s)
    <2>1. s \notin slots /\ slots' = slots \cup {s}
      BY <1>2 DEF Admit
    <2>2. Cardinality(slots') <= Limit
      BY <1>0, <1>2, <1>5, <2>1 DEF Admit, Full
    <2> QED BY <1>2, <2>1, <2>2 DEF Admit
  <1>3. CASE AcceptFails(s) \/ Finish(s)
    <2>1. slots' = slots \ {s}
      BY <1>3 DEF AcceptFails, Finish, GiveBack
    <2>2. Cardinality(slots') <= Limit
      BY <1>0, <1>6, <2>1
    <2>3. SlotsOwned'
      BY <1>3, <2>1 DEF AcceptFails, Finish
    <2> QED BY <2>2, <2>3
  <1>4. CASE Accepted(s)
    BY <1>0, <1>4 DEF Accepted
  <1> QED BY <1>1, <1>2, <1>3, <1>4 DEF Handler

LEMMA TypeStep == ASSUME IInv, Next, Cardinality(slots') <= Limit PROVE TypeOK'
  <1> USE ConnectionsAssumption, Limits DEF IInv, TypeOK, Phases, Goto, Reset, Touch
  <1>1. CASE Pass
    <2>1. \A s \in Sockets : phase[s] = "serving" => rt[s] # 0 /\ (~stop[s] => sleep[s] # 0)
      BY <1>1 DEF Pass, Due
    <2>2. age' \in [Sockets -> Nat] /\ idle' \in [Sockets -> Nat] /\ quiet' \in [Sockets -> Nat]
      BY <1>1 DEF Pass, Later
    <2>3. sleep' \in [Sockets -> 0..WatchdogTick]
      <3>1. \A n \in 0..WatchdogTick : n # 0 => n - 1 \in 0..WatchdogTick
        OBVIOUS
      <3>2. sleep' = [s \in Sockets |-> IF phase[s] = "serving" /\ ~stop[s] THEN sleep[s] - 1 ELSE sleep[s]]
        BY <1>1 DEF Pass, Sooner
      <3> QED BY <2>1, <3>1, <3>2
    <2>4. rt' \in [Sockets -> 0..RecvTimeout]
      <3>1. \A n \in 0..RecvTimeout : n # 0 => n - 1 \in 0..RecvTimeout
        BY Limits
      <3>2. rt' = [s \in Sockets |-> IF phase[s] = "serving" THEN rt[s] - 1 ELSE rt[s]]
        BY <1>1 DEF Pass, Sooner
      <3> QED BY <2>1, <3>1, <3>2
    <2> QED BY <1>1, <2>2, <2>3, <2>4 DEF Pass, session
  <1>2. ASSUME NEW s \in Sockets, Handler(s) PROVE TypeOK'
    <2>1. CASE Unauthorized(s) \/ TurnAway(s) \/ Rejected(s) \/ Admit(s) \/ AcceptFails(s)
      BY <2>1 DEF Unauthorized, TurnAway, Rejected, Admit, AcceptFails, GiveBack, timers, session
    <2>2. CASE Accepted(s)
      BY <2>2 DEF Accepted
    <2>3. CASE Finish(s)
      BY <2>3 DEF Finish
    <2> QED BY <1>2, <2>1, <2>2, <2>3 DEF Handler
  <1>3. ASSUME NEW s \in Sockets, Receiver(s) PROVE TypeOK'
    <2>1. CASE Receive(s)
      BY <2>1 DEF Receive, session
    <2>2. CASE ReceiveLast(s)
      BY <2>2 DEF ReceiveLast, session
    <2>3. CASE ReceiveTimesOut(s)
      BY <2>3 DEF ReceiveTimesOut, session
    <2> QED BY <1>3, <2>1, <2>2, <2>3 DEF Receiver
  <1>4. ASSUME NEW s \in Sockets, Session(s) PROVE TypeOK'
    <2>1. busy' \in [Sockets -> BOOLEAN]
      BY <1>4 DEF Session, SessionSends, SessionActs
    <2>2. open' \in [Sockets -> BOOLEAN]
      BY <1>4 DEF Session, SessionSends, SessionActs
    <2>3. idle' \in [Sockets -> Nat] /\ quiet' \in [Sockets -> Nat]
      BY <1>4 DEF Session, SessionSends, SessionActs
    <2> QED BY <1>4, <2>1, <2>2, <2>3 DEF Session, SessionSends, SessionActs
  <1>5. ASSUME NEW s \in Sockets, Watch(s) PROVE TypeOK'
    <2>1. stop' \in [Sockets -> BOOLEAN]
      BY <1>5 DEF Watch
    <2>2. sleep' \in [Sockets -> 0..WatchdogTick]
      BY <1>5 DEF Watch
    <2> QED BY <1>5, <2>1, <2>2 DEF Watch, session
  <1> QED BY <1>1, <1>2, <1>3, <1>4, <1>5 DEF Next

LEMMA ClocksStep == ASSUME IInv, Next PROVE ClocksOK'
  <1> USE ConnectionsAssumption, Limits DEF IInv, TypeOK, Goto, Reset, Touch, ClocksOK, ClockOK
  <1>1. CASE Pass
    <2> SUFFICES ASSUME NEW s \in Sockets, phase[s] = "serving" PROVE ClockOK(s)'
      BY <1>1 DEF Pass
    <2>1. ClockOK(s) /\ rt[s] > 0 /\ (~stop[s] => sleep[s] > 0)
      BY <1>1 DEF Pass, Due
    <2>2. age'[s] = age[s] + 1 /\ idle'[s] = idle[s] + 1 /\ stop' = stop /\ busy' = busy
      BY <1>1 DEF Pass, Later, session
    <2>3. open' = open /\ quiet'[s] = IF busy[s] \/ open[s] THEN 0 ELSE quiet[s] + 1
      BY <1>1 DEF Pass, Later, session
    <2>4. rt'[s] = rt[s] - 1 /\ sleep'[s] = IF stop[s] THEN sleep[s] ELSE sleep[s] - 1
      BY <1>1 DEF Pass, Sooner
    <2> QED BY <2>1, <2>2, <2>3, <2>4
  <1>2. ASSUME NEW s \in Sockets, Handler(s) PROVE ClocksOK'
    <2>1. CASE Unauthorized(s) \/ TurnAway(s) \/ Rejected(s) \/ Admit(s) \/ AcceptFails(s)
      BY <2>1 DEF Unauthorized, TurnAway, Rejected, Admit, AcceptFails, timers, session
    <2>2. CASE Accepted(s)
      <3> SUFFICES ASSUME NEW t \in Sockets, phase'[t] = "serving" PROVE ClockOK(t)'
        OBVIOUS
      <3>1. CASE t = s
        BY <2>2, <3>1 DEF Accepted
      <3>2. CASE t # s
        BY <2>2, <3>2 DEF Accepted
      <3> QED BY <3>1, <3>2
    <2>3. CASE Finish(s)
      BY <2>3 DEF Finish
    <2> QED BY <1>2, <2>1, <2>2, <2>3 DEF Handler
  <1>3. ASSUME NEW s \in Sockets, Receiver(s) PROVE ClocksOK'
    BY <1>3 DEF Receiver, Receive, ReceiveLast, ReceiveTimesOut, session
  <1>4. ASSUME NEW s \in Sockets, Session(s) PROVE ClocksOK'
    BY <1>4 DEF Session, SessionSends, SessionActs
  <1>5. ASSUME NEW s \in Sockets, Watch(s) PROVE ClocksOK'
    BY <1>5 DEF Watch, session, TooOld, TooIdle
  <1> QED BY <1>1, <1>2, <1>3, <1>4, <1>5 DEF Next

LEMMA IInvStep == IInv /\ [Next]_vars => IInv'
  <1> SUFFICES ASSUME IInv, [Next]_vars PROVE IInv' OBVIOUS
  <1>1. CASE UNCHANGED vars
    BY <1>1 DEF IInv, TypeOK, SlotsOwned, Admitted, ClocksOK, ClockOK, vars, timers, session
  <1>2. CASE Next
    <2>2. SlotsOwned' /\ Cardinality(slots') <= Limit
      <3>1. CASE Pass
        BY <3>1 DEF Pass, IInv, TypeOK, SlotsOwned, Admitted
      <3>2. ASSUME NEW s \in Sockets, Receiver(s) \/ Session(s) \/ Watch(s)
            PROVE  SlotsOwned' /\ Cardinality(slots') <= Limit
        BY <3>2 DEF Receiver, Receive, ReceiveLast, ReceiveTimesOut, Session, SessionSends,
             SessionActs, Watch, Goto, IInv, TypeOK, SlotsOwned, Admitted
      <3> QED BY <1>2, <3>1, <3>2, AdmissionStep DEF Next
    <2>1. TypeOK' /\ ClocksOK'
      BY <1>2, <2>2, TypeStep, ClocksStep
    <2> QED BY <2>1, <2>2 DEF IInv
  <1> QED BY <1>1, <1>2

LEMMA IInvAlways == Spec => []IInv
  BY InitOK, IInvStep, PTL DEF Spec

\* Every variable keeps its type and no more slots than the limit are in use,
\* whatever the limits and timeouts.
THEOREM ConnectionsTypeCorrect == Spec => []TypeOK
  BY IInvAlways, PTL DEF IInv

\* A slot is held by an admitted handler and by nothing else (manager.py:48-96).
THEOREM SlotsOwnedAlways == Spec => []SlotsOwned
  BY IInvAlways, PTL DEF IInv

\* No connection outlives its longest duration by a tick and a receive timeout.
THEOREM DurationBounded == Spec => []DurationBound
  <1>1. IInv => DurationBound
    BY ConnectionsAssumption, Limits DEF IInv, TypeOK, ClocksOK, ClockOK, DurationBound
  <1> QED BY <1>1, IInvAlways, PTL

\* No silent connection without an utterance outlives the idle timeout by as
\* much (lifecycle.py:85-94).
THEOREM QuietBounded == Spec => []QuietBound
  <1>1. IInv => QuietBound
    BY ConnectionsAssumption, Limits DEF IInv, TypeOK, ClocksOK, ClockOK, QuietBound
  <1> QED BY <1>1, IInvAlways, PTL

\* The handlers implement the pool: every step acquires, releases or stutters.
THEOREM ImplementsPool == Spec => PoolSpec
  <1>1. Init => Pool!Init
    BY DEF Init, Pool!Init, Admitted
  <1>2. IInv /\ [Next]_vars => [Pool!Next]_Admitted
    <2> SUFFICES ASSUME IInv, [Next]_vars PROVE Pool!Next \/ UNCHANGED Admitted
      OBVIOUS
    <2> USE DEF IInv, TypeOK, SlotsOwned, Goto
    <2>1. CASE UNCHANGED vars
      BY <2>1 DEF vars, Admitted
    <2>2. CASE Pass
      BY <2>2 DEF Pass, Admitted
    <2>3. ASSUME NEW s \in Sockets, Handler(s) PROVE Pool!Next \/ UNCHANGED Admitted
      <3>1. CASE Unauthorized(s) \/ TurnAway(s) \/ Rejected(s) \/ Accepted(s)
        BY <3>1 DEF Unauthorized, TurnAway, Rejected, Accepted, Admitted
      <3>2. CASE Admit(s)
        <4>1. s \notin Admitted /\ Admitted' = Admitted \cup {s}
          BY <3>2 DEF Admit, Admitted
        <4>2. Cardinality(Admitted) < Limit
          BY <3>2, SlotsFinite, Limits DEF Admit, Full
        <4>3. Pool!Cardinality(Admitted) = Cardinality(Admitted)
          BY Zenon DEF Pool!Cardinality, Cardinality
        <4>4. Pool!Acquire(s)
          BY <4>1, <4>2, <4>3 DEF Pool!Acquire
        <4> QED BY <4>4 DEF Pool!Next
      <3>3. CASE AcceptFails(s) \/ Finish(s)
        <4>1. s \in Admitted /\ Admitted' = Admitted \ {s}
          BY <3>3 DEF AcceptFails, Finish, Admitted
        <4>2. Pool!Release(s)
          BY <4>1 DEF Pool!Release
        <4> QED BY <4>2 DEF Pool!Next
      <3> QED BY <2>3, <3>1, <3>2, <3>3 DEF Handler
    <2>4. ASSUME NEW s \in Sockets, Receiver(s) \/ Session(s) \/ Watch(s)
          PROVE  UNCHANGED Admitted
      BY <2>4 DEF Receiver, Receive, ReceiveLast, ReceiveTimesOut, Session, SessionSends,
           SessionActs, Watch, Admitted
    <2> QED BY <2>1, <2>2, <2>3, <2>4 DEF Next
  <1> QED BY <1>1, <1>2, IInvAlways, PTL DEF Spec, PoolSpec, Pool!Spec
=============================================================================
