---------------------------- MODULE Connections -----------------------------
(***************************************************************************)
(* The server's connections: one handler per WebSocket                     *)
(* (handle_websocket_connection), the ConnectionManager they share, and    *)
(* each connection's watchdog and receive timer.                           *)
(*                                                                         *)
(* Time is discrete and timers fire when due: the event loop is prompt.    *)
(* A Socket is what id(ws) tells apart; it can be used again once its      *)
(* handler returned. The session behind a connection (RealtimeSession) is  *)
(* two flags, an open utterance and one that awaits its done, that change  *)
(* as its handlers and vLLM change them. Its teardown, and the frames the  *)
(* receiver sends, take no time here.                                      *)
(***************************************************************************)
EXTENDS Integers, FiniteSets

CONSTANTS
  Sockets,
  MaxConnections, \* MAX_CONCURRENT_CONNECTIONS, not positive for automatic
  MaxNumSeqs,     \* vLLM's tuned max_num_seqs
  IdleTimeout,    \* WS_IDLE_TIMEOUT_S, 0 disables it
  MaxDuration,    \* WS_MAX_CONNECTION_DURATION_S, 0 disables it
  WatchdogTick,   \* WS_WATCHDOG_TICK_S
  Second          \* one second, in the model's unit of time

ASSUME ConnectionsAssumption ==
  /\ IsFiniteSet(Sockets) /\ MaxConnections \in Int /\ MaxNumSeqs \in Int
  /\ IdleTimeout \in Nat /\ MaxDuration \in Nat
  /\ WatchdogTick \in Nat \ {0} /\ Second \in Nat \ {0}

VARIABLES
  phase, \* of the handler, see Phases
  slots, \* ConnectionManager._active
  stop,  \* lifecycle._stop_event
  sleep, \* what is left of the watchdog's sleep
  rt,    \* what is left of the receive timeout
  age,   \* now - _connection_start
  idle,  \* now - _last_activity
  quiet, \* history: time without activity while the session has no utterance
  busy,  \* inflight_request_id is not None
  open   \* active_request_id is not None

timers == <<stop, sleep, rt, age, idle, quiet>>
session == <<busy, open>>
vars == <<phase, slots, timers, session>>

Phases == {"new", "rejecting", "accepting", "serving", "closing"}

AtLeast(low, n) == IF n < low THEN low ELSE n
Limit == AtLeast(1, IF MaxConnections <= 0 THEN MaxNumSeqs ELSE MaxConnections)
RecvTimeout == AtLeast(Second, 2 * WatchdogTick)

Zero == [s \in Sockets |-> 0]
None == [s \in Sockets |-> FALSE]

Init ==
  /\ phase = [s \in Sockets |-> "new"] /\ slots = {}
  /\ stop = None /\ sleep = Zero /\ rt = Zero
  /\ age = Zero /\ idle = Zero /\ quiet = Zero
  /\ busy = None /\ open = None

Goto(s, p) == phase' = [phase EXCEPT ![s] = p]
Reset(f, s, v) == [f EXCEPT ![s] = v]
-----------------------------------------------------------------------------
(* Admission.                                                                *)

FullAboveLimit == Cardinality(slots) > Limit  \* mutant
Full == Cardinality(slots) >= Limit

\* Not authenticated, or no slot: accept, send the error, close.
Unauthorized(s) ==
  /\ phase[s] = "new"
  /\ Goto(s, "rejecting")
  /\ UNCHANGED <<slots, timers, session>>

TurnAway(s) ==
  /\ phase[s] = "new" /\ Full
  /\ Goto(s, "rejecting")
  /\ UNCHANGED <<slots, timers, session>>

Rejected(s) ==
  /\ phase[s] = "rejecting"
  /\ Goto(s, "new")
  /\ UNCHANGED <<slots, timers, session>>

\* connect(): the lock is never contended, nothing inside it suspends.
Admit(s) ==
  /\ phase[s] = "new" /\ ~Full
  /\ slots' = slots \cup {s}
  /\ Goto(s, "accepting")
  /\ UNCHANGED <<timers, session>>

\* accept() raised: the slot goes back before the exception goes up.
GiveBackNot(s) == UNCHANGED slots  \* mutant
GiveBack(s) == slots' = slots \ {s}

AcceptFails(s) ==
  /\ phase[s] = "accepting"
  /\ GiveBack(s)
  /\ Goto(s, "new")
  /\ UNCHANGED <<timers, session>>

\* accept() returned: the lifecycle starts, and the message loop.
Accepted(s) ==
  /\ phase[s] = "accepting"
  /\ Goto(s, "serving")
  /\ stop' = Reset(stop, s, FALSE) /\ age' = Reset(age, s, 0)
  /\ idle' = Reset(idle, s, 0) /\ quiet' = Reset(quiet, s, 0)
  /\ sleep' = Reset(sleep, s, WatchdogTick) /\ rt' = Reset(rt, s, RecvTimeout)
  /\ busy' = Reset(busy, s, FALSE) /\ open' = Reset(open, s, FALSE)
  /\ UNCHANGED slots

\* The finally of the handler: stop the watchdog, give the slot back.
Finish(s) ==
  /\ phase[s] = "closing"
  /\ slots' = slots \ {s}
  /\ Goto(s, "new")
  /\ stop' = Reset(stop, s, FALSE) /\ age' = Reset(age, s, 0)
  /\ idle' = Reset(idle, s, 0) /\ quiet' = Reset(quiet, s, 0)
  /\ sleep' = Reset(sleep, s, 0) /\ rt' = Reset(rt, s, 0)
  /\ busy' = Reset(busy, s, FALSE) /\ open' = Reset(open, s, FALSE)
-----------------------------------------------------------------------------
(* The receiver.                                                             *)

Touch(s) == idle' = Reset(idle, s, 0) /\ quiet' = Reset(quiet, s, 0)

\* A message counts as activity. The next receive_text() raises if the
\* watchdog has closed the socket meanwhile, else its timeout starts anew.
Receive(s) ==
  /\ phase[s] = "serving"
  /\ Touch(s)
  /\ IF stop[s]
     THEN Goto(s, "closing") /\ UNCHANGED rt
     ELSE rt' = Reset(rt, s, RecvTimeout) /\ UNCHANGED phase
  /\ UNCHANGED <<slots, stop, sleep, age, session>>

\* "end", an overloaded inbound queue (both after a touch), or a disconnect.
ReceiveLast(s) ==
  /\ phase[s] = "serving"
  /\ Touch(s) \/ UNCHANGED <<idle, quiet>>
  /\ Goto(s, "closing")
  /\ UNCHANGED <<slots, stop, sleep, rt, age, session>>

ReceiveTimesOut(s) ==
  /\ phase[s] = "serving" /\ rt[s] = 0
  /\ IF stop[s]
     THEN Goto(s, "closing") /\ UNCHANGED rt
     ELSE rt' = Reset(rt, s, RecvTimeout) /\ UNCHANGED phase
  /\ UNCHANGED <<slots, stop, sleep, age, idle, quiet, session>>
-----------------------------------------------------------------------------
(* The session, as far as the watchdog sees it.                              *)

\* Frames from vLLM are activity: tokens, done, errors.
SessionSends(s) ==
  /\ phase[s] = "serving"
  /\ Touch(s)
  /\ busy' = Reset(busy, s, FALSE) \/ UNCHANGED busy
  /\ UNCHANGED <<phase, slots, stop, sleep, rt, age, open>>

\* The processor handles commits and cancels some time after their receipt; a
\* commit that barges in gives up an answer still due, a final commit needs an
\* open utterance.
SessionActs(s) ==
  /\ phase[s] = "serving"
  /\ \/ /\ open' = Reset(open, s, TRUE) /\ quiet' = Reset(quiet, s, 0)
        /\ busy' = Reset(busy, s, FALSE) \/ UNCHANGED busy
     \/ /\ open[s]
        /\ open' = Reset(open, s, FALSE) /\ busy' = Reset(busy, s, TRUE)
        /\ quiet' = Reset(quiet, s, 0)
     \/ open' = Reset(open, s, FALSE) /\ busy' = Reset(busy, s, FALSE) /\ UNCHANGED quiet
  /\ UNCHANGED <<phase, slots, stop, sleep, rt, age, idle>>
-----------------------------------------------------------------------------
(* The watchdog.                                                             *)

TooOld(s) == MaxDuration > 0 /\ age[s] >= MaxDuration
TooIdleLate(s) == IdleTimeout > 0 /\ idle[s] > IdleTimeout  \* mutant
TooIdle(s) == IdleTimeout > 0 /\ idle[s] >= IdleTimeout

WatchBusyFirst(s) ==  \* mutant
  /\ phase[s] = "serving" /\ ~stop[s] /\ sleep[s] = 0
  /\ IF ~busy[s] /\ (TooOld(s) \/ TooIdle(s))
     THEN stop' = Reset(stop, s, TRUE) /\ UNCHANGED sleep
     ELSE sleep' = Reset(sleep, s, WatchdogTick) /\ UNCHANGED stop
  /\ UNCHANGED <<phase, slots, rt, age, idle, quiet, session>>
Watch(s) ==
  /\ phase[s] = "serving" /\ ~stop[s] /\ sleep[s] = 0
  /\ IF TooOld(s) \/ (~busy[s] /\ TooIdle(s))
     THEN stop' = Reset(stop, s, TRUE) /\ UNCHANGED sleep
     ELSE sleep' = Reset(sleep, s, WatchdogTick) /\ UNCHANGED stop
  /\ UNCHANGED <<phase, slots, rt, age, idle, quiet, session>>

\* One unit of time, when nothing is due.
Due(s) ==
  \/ phase[s] = "closing"
  \/ phase[s] = "serving" /\ (rt[s] = 0 \/ (~stop[s] /\ sleep[s] = 0))
Later(f) == [s \in Sockets |-> IF phase[s] = "serving" THEN f[s] + 1 ELSE f[s]]
Sooner(f, on) == [s \in Sockets |-> IF phase[s] = "serving" /\ on[s] THEN f[s] - 1 ELSE f[s]]

Pass ==
  /\ \E s \in Sockets : phase[s] = "serving"
  /\ \A s \in Sockets : ~Due(s)
  /\ age' = Later(age) /\ idle' = Later(idle)
  /\ quiet' = [s \in Sockets |-> IF busy[s] \/ open[s] THEN 0 ELSE Later(quiet)[s]]
  /\ sleep' = Sooner(sleep, [s \in Sockets |-> ~stop[s]])
  /\ rt' = Sooner(rt, [s \in Sockets |-> TRUE])
  /\ UNCHANGED <<phase, slots, stop, session>>
-----------------------------------------------------------------------------
Handler(s) == Unauthorized(s) \/ TurnAway(s) \/ Rejected(s) \/ Admit(s)
              \/ AcceptFails(s) \/ Accepted(s) \/ Finish(s)
Receiver(s) == Receive(s) \/ ReceiveLast(s) \/ ReceiveTimesOut(s)
Session(s) == SessionSends(s) \/ SessionActs(s)

Next == Pass \/ \E s \in Sockets : Handler(s) \/ Receiver(s) \/ Session(s) \/ Watch(s)

Spec == Init /\ [][Next]_vars
-----------------------------------------------------------------------------
\* Every variable keeps its type, and the slots in use their limit
\* (connections.py:19).
TypeOK ==
  /\ phase \in [Sockets -> Phases]
  /\ slots \subseteq Sockets /\ Cardinality(slots) <= Limit
  /\ stop \in [Sockets -> BOOLEAN]
  /\ sleep \in [Sockets -> 0..WatchdogTick] /\ rt \in [Sockets -> 0..RecvTimeout]
  /\ age \in [Sockets -> Nat] /\ idle \in [Sockets -> Nat] /\ quiet \in [Sockets -> Nat]
  /\ busy \in [Sockets -> BOOLEAN] /\ open \in [Sockets -> BOOLEAN]

\* The handlers that hold a slot, by where they are in their code.
Admitted == {s \in Sockets : phase[s] \in {"accepting", "serving", "closing"}}

\* The manager's set is exactly the admitted handlers: however a handler ends
\* (accept failed, client gone, watchdog), its slot is back (manager.py:48-96).
SlotsOwned == slots = Admitted

\* The admitted handlers use a pool of Limit slots: never more at once, each
\* taken only when free, each given back (connections.py:15-27).
Pool == INSTANCE SlotPool WITH Clients <- Sockets, Size <- Limit, holders <- Admitted
PoolSpec == Pool!Spec

\* The other half of the argument for the two bounds below: how far a timer has
\* run limits how far the clocks can be.
ClockOK(s) ==
  /\ quiet[s] <= idle[s] /\ (busy[s] \/ open[s] => quiet[s] = 0)
  /\ MaxDuration > 0 =>
       IF stop[s] THEN age[s] + rt[s] < MaxDuration + WatchdogTick + RecvTimeout
                  ELSE age[s] + sleep[s] < MaxDuration + WatchdogTick
  /\ IdleTimeout > 0 =>
       IF stop[s] THEN quiet[s] + rt[s] < IdleTimeout + WatchdogTick + RecvTimeout
                  ELSE quiet[s] + sleep[s] < IdleTimeout + WatchdogTick
ClocksOK == \A s \in Sockets : phase[s] = "serving" => ClockOK(s)

\* A connection is over, busy or not, less than a watchdog tick and a receive
\* timeout after its longest duration (lifecycle.py:73-84, message_loop.py:35-42).
DurationBound ==
  \A s \in Sockets : phase[s] = "serving" /\ MaxDuration > 0
    => age[s] < MaxDuration + WatchdogTick + RecvTimeout

\* A connection with no utterance, open or awaiting its done, and no activity
\* is over within as much after the idle timeout, even if the client never
\* answers the close frame (lifecycle.py:85-94). An open utterance is not
\* exempt in the code (manager.py:71): ADVANCED.md:243 says it is.
QuietBound ==
  \A s \in Sockets : phase[s] = "serving" /\ IdleTimeout > 0
    => quiet[s] < IdleTimeout + WatchdogTick + RecvTimeout
=============================================================================
