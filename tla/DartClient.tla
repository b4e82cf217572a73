----------------------------- MODULE DartClient -----------------------------
(***************************************************************************)
(* Requests of one SensorClient (src/dart/client.py): the threads that     *)
(* call register, send_critical, request_config and so on, the receiver    *)
(* thread that hands them their responses through _pending, and the thread *)
(* that closes the client under them.                                      *)
(*                                                                         *)
(* The steps are cut where the code takes and releases _pending_lock, and  *)
(* where it sends or waits.  A deadline and a timer are the time that is   *)
(* left, so that time can pass without a bound.  The server answers as its *)
(* _send_ack, _send_error and handlers do, late, repeatedly or not at all. *)
(***************************************************************************)
EXTENDS SequenceOrder

CONSTANTS Callers,      \* threads that use the client
          Operations,   \* type and ttl_ms of the requests they make, and
                        \* whether they are reliable
          SessionIds,   \* sessions the server may grant, without 0
          AckTimeout,   \* ack_timeout_s
          MaxAttempts,  \* max_attempts
          FirstNumber,  \* the random first sequence number
          MaxCalls,     \* bound on the requests
          Strays,       \* responses to an earlier client at this address
          None          \* no caller, request or response

RequestTypes == {"REGISTER_REQ", "DATA_BATCH", "LATEST_UPDATE", "CRITICAL_ALERT",
                 "CONFIG_REQ", "HEARTBEAT"}
Statuses == {"OK", "REGISTERED", "ACCEPTED", "EXPIRED", "DUPLICATE", "ERROR"}
Responses == [type : {"REGISTER_RES", "ACK", "CONFIG_RES", "HEARTBEAT_ACK", "ERROR"},
              status : Statuses, session : Nat,
              sequence : Sequences1]

\* A number does not come round while a response to its last use is about, and
\* the earlier client was granted its session by the same server.
ASSUME ClientAssumption ==
  /\ \A op \in Operations :
       /\ op.type \in RequestTypes /\ op.ttl \in Nat /\ op.reliable \in BOOLEAN
       /\ op.type \in {"REGISTER_REQ", "CONFIG_REQ", "HEARTBEAT"} => op.reliable
  /\ SessionIds \subseteq Nat \ {0}
  /\ AckTimeout \in Nat \ {0} /\ MaxAttempts \in Nat \ {0}
  /\ FirstNumber \in 1..(Modulus - 2)
  /\ MaxCalls \in Nat /\ MaxCalls < Modulus
  /\ Strays \subseteq Responses /\ None \notin Responses
  /\ \A r \in Strays : r.type = "REGISTER_RES" => r.session \in SessionIds

VARIABLES phase,        \* how far close has come
          session,      \* session_id
          sequence,     \* _sequence
          issued,       \* history: how many numbers have been used
          pending,      \* _pending: the caller of each sequence number
          held,         \* the response the receiver is about to hand over
          stage,        \* where each caller is
          request,      \* the packet of its request
          attempt,      \* attempt
          left,         \* time to its deadline, -1 once that has passed; 0
                        \* for a request without a deadline
          timer,        \* time to the end of its wait
          event,        \* pending.event
          slot,         \* pending.packet
          response,     \* response
          wire          \* requests that have left the client

clientVars == <<phase, session>>
numberVars == <<sequence, issued>>
callVars == <<stage, request, attempt, left, timer, response>>
slotVars == <<pending, event, slot>>
vars == <<clientVars, numberVars, callVars, slotVars, held, wire>>

Requests == [type : RequestTypes, session : SessionIds \cup {0},
             sequence : Sequences1, ttl : Nat, ack : BOOLEAN]
Stages == {"idle", "attempt", "sent", "waiting", "clearing", "finish"}

LongestWait == AckTimeout * 2 ^ (MaxAttempts - 1)

ClientTypeOK ==
  /\ phase \in {"open", "unbound", "closed"}
  /\ session \in SessionIds \cup {0}
  /\ sequence \in Sequences1 /\ issued \in 0..MaxCalls
  /\ DOMAIN pending \subseteq Sequences1
  /\ \A n \in DOMAIN pending : pending[n] \in Callers
  /\ held \in Responses \cup {None}
  /\ stage \in [Callers -> Stages]
  /\ request \in [Callers -> Requests \cup {None}]
  /\ attempt \in [Callers -> 0..MaxAttempts]
  /\ left \in [Callers -> {-1} \cup Nat]
  /\ timer \in [Callers -> 0..LongestWait]
  /\ event \in [Callers -> BOOLEAN]
  /\ slot \in [Callers -> Responses \cup {None}]
  /\ response \in [Callers -> Responses \cup {None}]
  /\ wire \subseteq Requests

ClientInit ==
  /\ phase = "open" /\ session = 0
  /\ sequence = FirstNumber /\ issued = 0
  /\ pending = <<>> /\ held = None
  /\ stage = [c \in Callers |-> "idle"]
  /\ request = [c \in Callers |-> None]
  /\ attempt = [c \in Callers |-> 0]
  /\ left = [c \in Callers |-> 0] /\ timer = [c \in Callers |-> 0]
  /\ event = [c \in Callers |-> FALSE]
  /\ slot = [c \in Callers |-> None] /\ response = [c \in Callers |-> None]
  /\ wire = {}

-----------------------------------------------------------------------------
(* The contract between requests and responses *)

Typed(type) ==
  CASE type = "REGISTER_REQ" -> "REGISTER_RES"
    [] type = "CONFIG_REQ" -> "CONFIG_RES"
    [] type = "HEARTBEAT" -> "HEARTBEAT_ACK"
    [] OTHER -> "ACK"
ExpectedTypes(type) == {Typed(type), "ERROR"}
SuccessCodes == {"OK", "REGISTERED", "ACCEPTED", "DUPLICATE"}

\* The test for success at the end of _send_reliable.
Acceptable(q, r) ==
  /\ r # None
  /\ r.type \in ExpectedTypes(q.type) \ {"ERROR"}
  /\ r.status \in SuccessCodes

\* What the server may answer, see _send_expired, _dispatch, _handle_register:
\* nothing but errors if the request asks for no ACK.  All errors are one here.
AnswersTo(q) ==
  LET as(type, status) == [type |-> type, status |-> status,
                           session |-> q.session, sequence |-> q.sequence]
      acks == {"ACCEPTED", "DUPLICATE"} \cup (IF q.ttl = 0 THEN {} ELSE {"EXPIRED"})
  IN  {as("ERROR", "ERROR")} \cup
      CASE q.type = "REGISTER_REQ" ->
             {[as("REGISTER_RES", "REGISTERED") EXCEPT !.session = s]
                : s \in SessionIds}
        [] q.type \in {"CONFIG_REQ", "HEARTBEAT"} -> {as(Typed(q.type), "OK")}
        [] OTHER -> {as("ACK", st) : st \in IF q.ack THEN acks ELSE {}}

-----------------------------------------------------------------------------
(* _send_reliable *)

SocketOpen == phase = "open"

\* sendto of the transmitter: a simulated drop does not touch the socket, and
\* a simulated corruption is dropped where it arrives.
SendTo(q) ==
  \/ SocketOpen /\ wire' = wire \cup {q}
  \/ UNCHANGED wire

\* Mutant of TakeNumber: two threads without the lock may take the same number.
TakeUnlocked ==
  /\ issued < MaxCalls
  /\ issued' = issued + 1
  /\ sequence' \in {sequence, Successor(sequence)}

TakeNumber ==
  /\ issued < MaxCalls
  /\ issued' = issued + 1
  /\ sequence' = Successor(sequence)

PacketFor(op, ack) ==
  [type |-> op.type, sequence |-> sequence, ttl |-> op.ttl, ack |-> ack,
   session |-> IF op.type = "REGISTER_REQ" THEN 0 ELSE session]

\* All but register call _require_registration.
Allowed(op) == op.type = "REGISTER_REQ" \/ session # 0

\* The packet is made and its entry put into _pending.  That the number is not
\* pending already, which would raise an error, is OneCallPerNumber below.
Begin(c, op) ==
  /\ stage[c] = "idle" /\ op.reliable /\ Allowed(op)
  /\ TakeNumber
  /\ pending' = [n \in DOMAIN pending \cup {sequence} |->
                   IF n = sequence THEN c ELSE pending[n]]
  /\ event' = [event EXCEPT ![c] = FALSE]
  /\ slot' = [slot EXCEPT ![c] = None]
  /\ stage' = [stage EXCEPT ![c] = "attempt"]
  /\ request' = [request EXCEPT ![c] = PacketFor(op, TRUE)]
  /\ attempt' = [attempt EXCEPT ![c] = 1]
  /\ left' = [left EXCEPT ![c] = op.ttl]
  /\ timer' = [timer EXCEPT ![c] = 0]
  /\ response' = [response EXCEPT ![c] = None]
  /\ UNCHANGED <<clientVars, held, wire>>

\* pending.pop(packet.sequence); the entry and the locals are gone with the call.
Forget(c) ==
  /\ pending' = [n \in DOMAIN pending \ {request[c].sequence} |-> pending[n]]
  /\ event' = [event EXCEPT ![c] = FALSE]
  /\ slot' = [slot EXCEPT ![c] = None]
  /\ attempt' = [attempt EXCEPT ![c] = 0]
  /\ left' = [left EXCEPT ![c] = 0]
  /\ request' = [request EXCEPT ![c] = None]
  /\ response' = [response EXCEPT ![c] = None]

Stay == UNCHANGED <<clientVars, numberVars, held>>
Goto(c, where) == stage' = [stage EXCEPT ![c] = where]

\* The loop goes on, or has made its last attempt.
NextAttempt(c) ==
  IF attempt[c] < MaxAttempts
  THEN Goto(c, "attempt") /\ attempt' = [attempt EXCEPT ![c] = @ + 1]
  ELSE Goto(c, "finish") /\ UNCHANGED attempt

Expired(c) == request[c].ttl # 0 /\ left[c] < 0

ExpireAttempt(c) ==
  /\ stage[c] = "attempt" /\ Expired(c)
  /\ Goto(c, "finish")
  /\ Stay
  /\ UNCHANGED <<request, attempt, left, timer, response, slotVars, wire>>

Transmit(c) ==
  /\ stage[c] = "attempt" /\ ~Expired(c)
  /\ SendTo(request[c])
  /\ Goto(c, "sent")
  /\ Stay
  /\ UNCHANGED <<request, attempt, left, timer, response, slotVars>>

\* The socket is closed: sendto raises, and the finally clause clears up.
TransmitRaises(c) ==
  /\ stage[c] = "attempt" /\ ~Expired(c) /\ ~SocketOpen
  /\ Forget(c)
  /\ Goto(c, "idle")
  /\ Stay
  /\ UNCHANGED <<timer, wire>>

Backoff(n) == AckTimeout * 2 ^ (n - 1)

\* Mutant of WaitTime: the wait is not cut at the deadline.
FullBackoff(c) == Backoff(attempt[c])

WaitTime(c) ==
  IF request[c].ttl = 0 \/ Backoff(attempt[c]) <= left[c] THEN Backoff(attempt[c])
  ELSE IF left[c] > 0 THEN left[c] ELSE 0

StartWait(c) ==
  /\ stage[c] = "sent" /\ WaitTime(c) > 0
  /\ Goto(c, "waiting")
  /\ timer' = [timer EXCEPT ![c] = WaitTime(c)]
  /\ Stay
  /\ UNCHANGED <<request, attempt, left, response, slotVars, wire>>

NoTimeToWait(c) ==
  /\ stage[c] = "sent" /\ WaitTime(c) = 0
  /\ Goto(c, "finish")
  /\ Stay
  /\ UNCHANGED <<request, attempt, left, timer, response, slotVars, wire>>

\* The wait ends because the event is set.  Nothing in the slot means that the
\* client was closed; a response of another type is noted and waited past.
Woken(c) ==
  /\ stage[c] = "waiting" /\ event[c]
  /\ response' = [response EXCEPT ![c] = slot[c]]
  /\ Goto(c, IF slot[c] # None /\ slot[c].type \notin ExpectedTypes(request[c].type)
             THEN "clearing" ELSE "finish")
  /\ timer' = [timer EXCEPT ![c] = 0]
  /\ Stay
  /\ UNCHANGED <<request, attempt, left, slotVars, wire>>

\* event.clear() without the lock, so a response that comes after Woken is lost.
ClearEvent(c) ==
  /\ stage[c] = "clearing"
  /\ event' = [event EXCEPT ![c] = FALSE]
  /\ NextAttempt(c)
  /\ Stay
  /\ UNCHANGED <<request, left, timer, response, pending, slot, wire>>

\* Mutant of WaitTimesOut: a timeout never ends the loop.
WaitsForever(c) ==
  /\ stage[c] = "waiting" /\ timer[c] = 0
  /\ Goto(c, "attempt")
  /\ Stay
  /\ UNCHANGED <<request, attempt, left, timer, response, slotVars, wire>>

\* Also when the event is set just then: the wait has been given up by then.
WaitTimesOut(c) ==
  /\ stage[c] = "waiting" /\ timer[c] = 0
  /\ NextAttempt(c)
  /\ Stay
  /\ UNCHANGED <<request, left, timer, response, slotVars, wire>>

\* What the call returns: success, or a failure.
Succeeds(c) == Acceptable(request[c], response[c])

\* Mutant of NewSession: a registration that fails loses the session.
SessionOrNone(c) ==
  IF request[c].type # "REGISTER_REQ" THEN session
  ELSE IF Succeeds(c) THEN response[c].session ELSE 0

NewSession(c) ==
  IF request[c].type = "REGISTER_REQ" /\ Succeeds(c) THEN response[c].session
  ELSE session

\* The finally clause, the result, and what register makes of it.
Finish(c) ==
  /\ stage[c] = "finish"
  /\ Forget(c)
  /\ Goto(c, "idle")
  /\ session' = NewSession(c)
  /\ UNCHANGED <<phase, numberVars, held, timer, wire>>

\* _send_once, for telemetry, and for updates and alerts sent with reliable=False:
\* no entry and no wait, and what comes back finds no caller.  The success it
\* returns is "sent": the datagram went to the socket, maybe damaged.  Else the
\* drop was simulated, or a closed socket raised.
SendOnce(c, op, sent) ==
  /\ stage[c] = "idle" /\ ~op.reliable /\ Allowed(op)
  /\ TakeNumber
  /\ IF sent THEN SocketOpen /\ SendTo(PacketFor(op, FALSE)) ELSE UNCHANGED wire
  /\ UNCHANGED <<clientVars, callVars, slotVars, held>>

-----------------------------------------------------------------------------
(* _receive_loop and close *)

\* Mutant of PassesFilter: the session of a response is not looked at.
NoFilter(r) == TRUE

PassesFilter(r) ==
  session # 0 /\ r.type # "REGISTER_RES" => r.session = session

\* The server may have answered any request that has left the client.
InTransit == Strays \cup UNION {AnswersTo(q) : q \in wire}

\* A response that does not decode, is not valid or has expired changes nothing.
Receive(r) ==
  /\ held = None /\ SocketOpen
  /\ PassesFilter(r)
  /\ held' = r
  /\ UNCHANGED <<clientVars, numberVars, callVars, slotVars, wire>>

HandOver ==
  /\ held # None
  /\ IF held.sequence \in DOMAIN pending
     THEN /\ slot' = [slot EXCEPT ![pending[held.sequence]] = held]
          /\ event' = [event EXCEPT ![pending[held.sequence]] = TRUE]
     ELSE UNCHANGED <<slot, event>>
  /\ held' = None
  /\ UNCHANGED <<clientVars, numberVars, callVars, pending, wire>>

\* _running is cleared and the socket closed: the receiver gets nothing more.
CloseSocket ==
  /\ phase = "open" /\ phase' = "unbound"
  /\ UNCHANGED <<session, numberVars, callVars, slotVars, held, wire>>

\* Mutant of Waking: the events are not set.
WakeNobody == event

PendingCallers == {pending[n] : n \in DOMAIN pending}
Waking == [c \in Callers |-> event[c] \/ c \in PendingCallers]

\* The receiver has ended, or its join timed out.
WakePending ==
  /\ phase = "unbound" /\ phase' = "closed"
  /\ event' = Waking
  /\ pending' = <<>>
  /\ UNCHANGED <<session, numberVars, callVars, slot, held, wire>>

-----------------------------------------------------------------------------
(* Time *)

InCall(c) == stage[c] # "idle"
Later(t) == IF t > 0 THEN t - 1 ELSE 0

Tick ==
  /\ \E c \in Callers : InCall(c)
  /\ left' = [c \in Callers |->
                IF InCall(c) /\ request[c].ttl # 0 /\ left[c] >= 0
                THEN left[c] - 1 ELSE left[c]]
  /\ timer' = [c \in Callers |-> Later(timer[c])]
  /\ UNCHANGED <<clientVars, numberVars, stage, request, attempt, response,
                 slotVars, held, wire>>

Continue(c) ==
  \/ ExpireAttempt(c) \/ Transmit(c) \/ TransmitRaises(c) \/ StartWait(c)
  \/ NoTimeToWait(c) \/ Woken(c) \/ ClearEvent(c) \/ WaitTimesOut(c) \/ Finish(c)

ClientNext ==
  \/ \E c \in Callers :
       \/ \E op \in Operations :
            Begin(c, op) \/ \E sent \in BOOLEAN : SendOnce(c, op, sent)
       \/ Continue(c)
  \/ \E r \in InTransit : Receive(r)
  \/ HandOver \/ CloseSocket \/ WakePending \/ Tick

ClientSpec == ClientInit /\ [][ClientNext]_vars
ClientFairness == WF_vars(Tick) /\ \A c \in Callers : WF_vars(Continue(c))
-----------------------------------------------------------------------------

\* Until close, _pending holds the calls in progress and no other; no two of
\* them share a number, so that no call finds its number pending already and no
\* response is handed to the wrong one.
OneCallPerNumber ==
  /\ \A c, d \in Callers :
       InCall(c) /\ InCall(d) /\ request[c].sequence = request[d].sequence => c = d
  /\ phase # "closed" => PendingCallers = {c \in Callers : InCall(c)}
  /\ \A n \in DOMAIN pending :
       InCall(pending[n]) /\ request[pending[n]].sequence = n
  /\ \A c \in Callers :
       slot[c] # None => InCall(c) /\ slot[c].sequence = request[c].sequence

\* close leaves nobody waiting: a call that was pending when the client was
\* closed has its event set, whatever it was doing then.  Only a call that has
\* met a response of another type may clear the event that close has set, and
\* wait once more for an answer that cannot come.
MetUnexpected(c) ==
  response[c] # None /\ response[c].type \notin ExpectedTypes(request[c].type)
CloseWakes ==
  phase = "closed" =>
    \A c \in Callers :
      stage[c] = "waiting" /\ c \notin PendingCallers => event[c] \/ MetUnexpected(c)

\* What docs/PROTOCOL_SPEC.md says of the client: it compares the session of a
\* response with the request that is waiting for it.
ResponseSessionMatches ==
  [][\A c \in Callers :
       Finish(c) /\ Succeeds(c) /\ request[c].type # "REGISTER_REQ" =>
         response[c].session = request[c].session]_vars

\* No call waits past the deadline of its request, in any attempt.
WaitsWithinDeadline ==
  \A c \in Callers :
    stage[c] = "waiting" /\ request[c].ttl # 0 => timer[c] = 0 \/ timer[c] <= left[c]

\* Every request ends, answered or not, also if the client is closed.
CallsEnd == \A c \in Callers : InCall(c) ~> ~InCall(c)
=============================================================================
