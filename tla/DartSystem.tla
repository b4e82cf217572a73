----------------------------- MODULE DartSystem -----------------------------
(***************************************************************************)
(* One SensorClient and the DartServer over UDP.  Client and server are    *)
(* the modules DartClient and DartServer; the network between them keeps   *)
(* every request and every answer that was sent, and delivers any of them  *)
(* at any time, again, out of order, late, or never.  Both sides read one  *)
(* clock.                                                                  *)
(*                                                                         *)
(* The client registers and sends alerts, reliable and unreliable ones.    *)
(* It is not closed here, and no answers to an earlier client arrive:      *)
(* DartClient has both.                                                    *)
(***************************************************************************)
EXTENDS DartServer

CONSTANTS Callers, Operations, AckTimeout, MaxAttempts, FirstNumber, MaxCalls,
          None,         \* as in DartClient
          Sensor, Address, Identity     \* of the client

VARIABLES phase, session, sequence, issued, pending, held, callStage, request,
          attempt, left, timer, event, slot, response,
          wire,         \* as in DartClient: the requests that were sent
          downlink,     \* the answers that were sent
          stamp,        \* timestamp_ms of the request with each number
          result        \* history: what the calls of send_critical returned

Client == INSTANCE DartClient WITH stage <- callStage, Strays <- {}

\* The datagram of request q, sent at time t, as DartPacket carries it.
DatagramAt(q, t) ==
  [type |-> q.type, session |-> q.session, sensor |-> Sensor,
   sequence |-> q.sequence, address |-> Address, identity |-> Identity,
   metric |-> 1, ack |-> q.ack, wellFormed |-> TRUE, payloadOk |-> TRUE,
   timestamp_ms |-> t, ttl_ms |-> q.ttl,
   key |-> <<q.session, Sensor, q.type, q.sequence>>]

\* Every datagram the client can send, with the numbers it may use up.
UsedNumbers ==
  {n \in Sequences1 :
     n - FirstNumber + (IF n >= FirstNumber THEN 0 ELSE Modulus - 1) < MaxCalls}
SessionsFor(op) == IF op.type = "REGISTER_REQ" THEN {0} ELSE SessionIds
DatagramsOf(op) ==
  {DatagramAt([type |-> op.type, session |-> s, sequence |-> n, ttl |-> op.ttl,
               ack |-> op.reliable], t)
     : s \in SessionsFor(op), n \in UsedNumbers, t \in 0..MaxTime}
ClientDatagrams == UNION {DatagramsOf(op) : op \in Operations}

\* What DartClient assumes of its constants; the server is ready for any datagram.
ASSUME SystemAssumption ==
  /\ \A op \in Operations :
       /\ op.type \in RequestTypes /\ op.ttl \in Nat /\ op.reliable \in BOOLEAN
       /\ op.type \in {"REGISTER_REQ", "CONFIG_REQ", "HEARTBEAT"} => op.reliable
  /\ {AckTimeout, MaxAttempts} \subseteq Nat \ {0}
  /\ FirstNumber \in 1..(Modulus - 2)
  /\ MaxCalls \in Nat /\ MaxCalls < Modulus
  /\ None \notin Client!Responses
  /\ ClientDatagrams \subseteq Packets

localVars == <<phase, session, sequence, issued, pending, held, callStage, request,
               attempt, left, timer, event, slot, response, wire>>
linkVars == <<downlink, stamp, result>>
systemVars == <<allVars, localVars, linkVars>>

SystemInit ==
  /\ ServerInit /\ Client!ClientInit
  /\ downlink = {} /\ stamp = <<>> /\ result = <<>>

-----------------------------------------------------------------------------
(* The network *)

Datagram(q) == DatagramAt(q, stamp[q.sequence])

\* An answer as the client reads it: the errors are one.
AsResponse(r) ==
  [type |-> r.type, status |-> IF r.type = "ERROR" THEN "ERROR" ELSE r.status,
   session |-> r.session, sequence |-> r.sequence]

-----------------------------------------------------------------------------
(* Steps of the server *)

ServerSends ==
  /\ downlink' = downlink \cup {AsResponse(r) : r \in sent'}
  /\ UNCHANGED <<localVars, stamp, result>>

Deliver(w, q) == Receive(w, Datagram(q)) /\ ServerSends
Serve(w) == Work(w) /\ ServerSends
ServeFails(w) == DispatchFails(w) /\ ServerSends

-----------------------------------------------------------------------------
(* Steps of the client *)

Away == UNCHANGED <<vars, workerVars, sharedVars, suppressed, downlink>> /\ sent' = {}

With(f, n, value) == [x \in DOMAIN f \cup {n} |-> IF x = n THEN value ELSE f[x]]

Ask(c, op) ==
  /\ Client!Begin(c, op)
  /\ stamp' = With(stamp, sequence, now)
  /\ Away /\ UNCHANGED result

\* An unreliable send returns at once and waits for no answer.
AskOnce(c, op, leaves) ==
  /\ Client!SendOnce(c, op, leaves)
  /\ stamp' = With(stamp, sequence, now)
  /\ result' = IF op.type = "CRITICAL_ALERT"
               THEN With(result, sequence, IF leaves THEN "sent" ELSE "dropped")
               ELSE result
  /\ Away

\* The result of an alert whose call returns in this step.
Outcome(c) == IF Client!Succeeds(c) THEN "success" ELSE "failure"
Returns(c) ==
  result' = IF callStage[c] = "finish" /\ request[c].type = "CRITICAL_ALERT"
            THEN With(result, request[c].sequence, Outcome(c)) ELSE result

Proceed(c) ==
  /\ Client!Continue(c)
  /\ Returns(c)
  /\ Away /\ UNCHANGED stamp

Arrive(r) == Client!Receive(r) /\ Away /\ UNCHANGED <<stamp, result>>
HandOver == Client!HandOver /\ Away /\ UNCHANGED <<stamp, result>>

SystemTick ==
  /\ ServerTick
  /\ IF \E c \in Callers : Client!InCall(c) THEN Client!Tick ELSE UNCHANGED localVars
  /\ UNCHANGED linkVars

SystemNext ==
  \/ \E w \in Workers :
       \/ \E q \in wire : Deliver(w, q)
       \/ Serve(w) \/ ServeFails(w)
  \/ \E c \in Callers :
       \/ Proceed(c)
       \/ \E op \in Operations :
            Ask(c, op) \/ \E leaves \in BOOLEAN : AskOnce(c, op, leaves)
  \/ \E r \in downlink : Arrive(r)
  \/ HandOver \/ SystemTick

SystemSpec == SystemInit /\ [][SystemNext]_systemVars
-----------------------------------------------------------------------------

DeadlineOf(q) == stamp[q.sequence] + q.ttl

\* The end-to-end promise of send_critical, over a network that loses, repeats
\* and reorders requests and answers.  The success of a reliable call means that
\* this alert has been processed; that of a call with reliable=False means that
\* it was sent.  Nothing is processed that no caller asked for, or whose drop was
\* reported (AlertDelivery).
Alerts == {k \in Keys : k[3] = "CRITICAL_ALERT"}
Numbers == {k[4] : k \in Alerts}
AlertCalls ==
  [n \in Numbers |->
     IF n \in DOMAIN result THEN result[n]
     ELSE IF \E c \in Callers : Client!InCall(c) /\ request[c].sequence = n
                                /\ request[c].type = "CRITICAL_ALERT"
     THEN "open" ELSE "none"]
ProcessedAlerts == {k[4] : k \in {a \in Alerts : lastCommit[a] # Never}}
Delivery == INSTANCE AlertDelivery WITH
              calls <- AlertCalls, processed <- ProcessedAlerts
DeliversAlerts == Delivery!Spec

\* A registered client stays registered: no later registration, whether it is
\* answered, late or refused, changes or loses the session, and no request of the
\* client is refused for the want of one.
SessionIsKept ==
  [][/\ session # 0 => session' = session
     /\ \A r \in sent' : r.status # "UNREGISTERED"]_systemVars

\* The deadline is looked at before the cache, so an alert that was processed may
\* yet be answered 408, but only when its deadline has come: a repetition that is
\* in time, and finds the first copy in progress or done, is not refused.  This is
\* about the ACKs; an ERROR 408 is here an error like any other.
RefusedOnlyLate ==
  \A c \in Callers :
    response[c] # None /\ response[c].status = "EXPIRED" =>
      now >= DeadlineOf(request[c])

\* Whatever the network repeats, an alert is not processed twice before its
\* deadline, if the retention is at least as long as the time it is given.
ProcessedOnceInTime ==
  [][\A w \in Workers :
       /\ FinishMessage(w, TRUE)
       /\ 0 < packet[w].ttl_ms /\ packet[w].ttl_ms <= Retention
       /\ lastCommit[packet[w].key] # Never
       => now > Deadline(packet[w])]_systemVars
=============================================================================
