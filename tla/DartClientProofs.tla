-------------------------- MODULE DartClientProofs --------------------------
(***************************************************************************)
(* Proofs about the requests of a SensorClient: that no two calls share a  *)
(* sequence number, that close leaves nobody waiting, that waits end by    *)
(* the deadline, and what response a reliable call may succeed by.         *)
(***************************************************************************)
EXTENDS DartClientHistory, FiniteSetTheorems, TLAPS

\* ClientTypeOK without the upper bound of the timers.
TypeInv ==
  /\ phase \in {"open", "unbound", "closed"}
  /\ session \in SessionIds \cup {0}
  /\ sequence \in Sequences1 /\ issued \in 0..MaxCalls
  /\ DOMAIN pending \subseteq Sequences1
  /\ \A n \in DOMAIN pending : pending[n] \in Callers
  /\ held \in Responses \cup {None}
  /\ stage \in [Callers -> Stages]
  /\ request \in [Callers -> Requests \cup {None}]
  /\ attempt \in [Callers -> 0..MaxAttempts]
  /\ left \in [Callers -> {-1} \cup Nat]
  /\ timer \in [Callers -> Nat]
  /\ event \in [Callers -> BOOLEAN]
  /\ slot \in [Callers -> Responses \cup {None}]
  /\ response \in [Callers -> Responses \cup {None}]
  /\ wire \subseteq Requests

\* The locals of a call, and what it has been handed: responses to its number.
CallOK(c) ==
  /\ InCall(c) =>
       /\ request[c] \in Requests /\ attempt[c] >= 1
       /\ \E op \in Operations : op.type = request[c].type
  /\ slot[c] # None => InCall(c) /\ slot[c].sequence = request[c].sequence
  /\ response[c] # None => InCall(c) /\ response[c].sequence = request[c].sequence
  /\ stage[c] = "clearing" => MetUnexpected(c)
CallsOK == \A c \in Callers : CallOK(c)

\* The place of a number in the order in which the numbers are used.
Rank(n) ==
  IF n >= FirstNumber THEN n - FirstNumber ELSE n - FirstNumber + Modulus - 1

\* The number that comes next has not been used: neither by a call in progress
\* nor by a request that has left the client; and a number names one request.
NumbersUsed ==
  /\ issued < Modulus - 1 => Rank(sequence) = issued
  /\ \A c \in Callers : InCall(c) => Rank(request[c].sequence) < issued
  /\ \A q \in wire : Rank(q.sequence) < issued
  /\ \A q \in wire, c \in Callers :
       InCall(c) /\ q.sequence = request[c].sequence => q = request[c]

\* Every response about answers a request that has left the client, or an earlier
\* client's.
ResponsesAnswer ==
  /\ held # None => held \in InTransit
  /\ \A c \in Callers : /\ slot[c] # None => slot[c] \in InTransit
                        /\ response[c] # None => response[c] \in InTransit

\* CloseWakes for every call, also while it is not waiting.
ClosedAwake ==
  phase = "closed" =>
    \A c \in Callers :
      InCall(c) /\ c \notin PendingCallers => event[c] \/ MetUnexpected(c)

\* The inductive invariant.
IInv ==
  /\ TypeInv /\ CallsOK /\ OneCallPerNumber /\ NumbersUsed /\ ResponsesAnswer
  /\ ClosedAwake /\ WaitsWithinDeadline

-----------------------------------------------------------------------------
(* Numbers, waits and responses *)

LEMMA ModulusNat == Modulus \in Nat /\ Modulus >= 4
BY HalfAssumption DEF Modulus

\* The counter runs through all numbers but 0 before it comes to one again.
LEMMA RankOfSuccessor ==
  ASSUME NEW n \in Sequences1
  PROVE  /\ Successor(n) \in Sequences1 /\ Rank(n) \in Nat
         /\ Rank(n) < Modulus - 2 => Rank(Successor(n)) = Rank(n) + 1
BY ModulusNat, ClientAssumption DEF Sequences1, Successor, Rank

LEMMA BackoffInt ==
  ASSUME NEW n \in Nat \ {0}
  PROVE  Backoff(n) \in Int
<1>1. n - 1 \in Nat /\ AckTimeout \in Int
  BY ClientAssumption
<1>2. 2 ^ (n - 1) \in Int
  BY <1>1
<1> QED
  BY <1>1, <1>2 DEF Backoff

\* What a request may be answered with is typed and bears its number.
LEMMA AnswersTyped ==
  ASSUME NEW q \in Requests, NEW r \in AnswersTo(q)
  PROVE  r \in Responses /\ r.sequence = q.sequence
<1>0. SessionIds \cup {0} \subseteq Nat
  BY ClientAssumption
<1>1. q.session \in Nat /\ q.sequence \in Sequences1
  <2>1. q.session \in SessionIds \cup {0} /\ q.sequence \in Sequences1
    BY DEF Requests
  <2> QED
    BY <1>0, <2>1
<1>2. CASE q.type = "REGISTER_REQ"
  <2> DEFINE as(type, status) ==
        [type |-> type, status |-> status, session |-> q.session,
         sequence |-> q.sequence]
  <2>1. \/ r = as("ERROR", "ERROR")
        \/ \E s \in SessionIds : r = [as("REGISTER_RES", "REGISTERED") EXCEPT !.session = s]
    BY <1>2 DEF AnswersTo
  <2> QED
    BY <1>0, <1>1, <2>1 DEF Responses, Statuses
<1>3. CASE q.type \in {"CONFIG_REQ", "HEARTBEAT"}
  BY <1>1, <1>3 DEF AnswersTo, Responses, Statuses, Typed
<1>4. CASE q.type \notin {"REGISTER_REQ", "CONFIG_REQ", "HEARTBEAT"}
  BY <1>1, <1>4 DEF AnswersTo, Responses, Statuses
<1> QED
  BY <1>2, <1>3, <1>4

LEMMA InTransitTyped ==
  ASSUME wire \subseteq Requests
  PROVE  InTransit \subseteq Responses
BY AnswersTyped, ClientAssumption DEF InTransit

\* A REGISTER_RES grants a session the server may draw.
LEMMA GrantedSession ==
  ASSUME wire \subseteq Requests, NEW r \in InTransit, r.type = "REGISTER_RES"
  PROVE  r.session \in SessionIds
<1>1. CASE r \in Strays
  BY <1>1, ClientAssumption
<1>2. ASSUME NEW q \in wire, r \in AnswersTo(q)
      PROVE  r.session \in SessionIds
  <2> DEFINE as(type, status) ==
        [type |-> type, status |-> status, session |-> q.session,
         sequence |-> q.sequence]
  <2>1. CASE q.type = "REGISTER_REQ"
    <3>1. \/ r = as("ERROR", "ERROR")
          \/ \E s \in SessionIds :
               r = [as("REGISTER_RES", "REGISTERED") EXCEPT !.session = s]
      BY <1>2, <2>1 DEF AnswersTo
    <3> QED
      BY <3>1
  <2>2. CASE q.type \in {"CONFIG_REQ", "HEARTBEAT"}
    BY <1>2, <2>2 DEF AnswersTo, Typed
  <2>3. CASE q.type \notin {"REGISTER_REQ", "CONFIG_REQ", "HEARTBEAT"}
    BY <1>2, <2>3 DEF AnswersTo
  <2> QED
    BY <2>1, <2>2, <2>3
<1> QED
  BY <1>1, <1>2 DEF InTransit

LEMMA InTransitGrows ==
  ASSUME wire \subseteq wire'
  PROVE  InTransit \subseteq InTransit'
BY DEF InTransit

LEMMA PacketTyped ==
  ASSUME TypeInv, NEW op \in Operations, NEW ack \in BOOLEAN
  PROVE  /\ PacketFor(op, ack) \in Requests
         /\ PacketFor(op, ack).sequence = sequence
         /\ PacketFor(op, ack).type = op.type /\ PacketFor(op, ack).ttl = op.ttl
BY ClientAssumption DEF TypeInv, PacketFor, Requests

-----------------------------------------------------------------------------
(* Steps inside the loop of _send_reliable *)

\* A step of c that takes it to another place of its call: what it must not
\* disturb, besides what it does not touch.
LEMMA LocalKeeps ==
  ASSUME IInv, NEW c \in Callers, NEW where \in Stages \ {"idle"},
         InCall(c), Goto(c, where), Stay,
         UNCHANGED <<request, left, pending, slot, wire>>,
         attempt' \in [Callers -> 0..MaxAttempts], attempt'[c] >= 1,
         timer' \in [Callers -> Nat],
         event' \in [Callers -> BOOLEAN],
         response' \in {response, [response EXCEPT ![c] = slot[c]]},
         \A d \in Callers \ {c} :
           /\ attempt'[d] = attempt[d] /\ timer'[d] = timer[d]
           /\ event'[d] = event[d],
         where = "clearing" => MetUnexpected(c)',
         phase = "closed" /\ c \notin PendingCallers =>
           event'[c] \/ MetUnexpected(c)',
         where = "waiting" /\ request[c].ttl # 0 =>
           timer'[c] = 0 \/ timer'[c] <= left[c]
  PROVE  IInv'
<1> USE DEF Stay, clientVars, numberVars
<1>1. /\ stage' = [stage EXCEPT ![c] = where] /\ stage'[c] = where
      /\ \A d \in Callers \ {c} : stage'[d] = stage[d]
      /\ \A d \in Callers : InCall(d)' <=> InCall(d)
  BY DEF IInv, TypeInv, Goto, InCall, Stages
<1>2. /\ \A d \in Callers \ {c} : response'[d] = response[d]
      /\ response'[c] \in {response[c], slot[c]}
  BY DEF IInv, TypeInv
<1>3. TypeInv'
  BY <1>1 DEF IInv, TypeInv
<1>4. CallsOK'
  <2> SUFFICES ASSUME NEW d \in Callers
               PROVE  CallOK(d)'
    BY DEF CallsOK
  <2>1. CallOK(d)
    BY DEF IInv, CallsOK
  <2>2. CASE d = c
    BY <1>1, <1>2, <2>1, <2>2 DEF CallOK, InCall
  <2>3. CASE d # c
    BY <1>1, <1>2, <2>1, <2>3 DEF CallOK, InCall, MetUnexpected
  <2> QED
    BY <2>2, <2>3
<1>5. OneCallPerNumber'
  BY <1>1 DEF IInv, TypeInv, OneCallPerNumber, PendingCallers
<1>6. NumbersUsed'
  BY <1>1 DEF IInv, NumbersUsed
<1>7. ResponsesAnswer'
  BY <1>2 DEF IInv, ResponsesAnswer, InTransit
<1>8. ClosedAwake'
  <2> SUFFICES ASSUME phase = "closed", NEW d \in Callers, InCall(d),
                      d \notin PendingCallers, d # c
               PROVE  (event[d] \/ MetUnexpected(d))'
    BY <1>1 DEF ClosedAwake, PendingCallers
  <2> QED
    BY <1>2 DEF IInv, ClosedAwake, MetUnexpected
<1>9. WaitsWithinDeadline'
  BY <1>1 DEF IInv, WaitsWithinDeadline
<1> QED
  BY <1>3, <1>4, <1>5, <1>6, <1>7, <1>8, <1>9 DEF IInv

LEMMA LocalStepKeeps ==
  ASSUME IInv, NEW c \in Callers,
         ExpireAttempt(c) \/ NoTimeToWait(c) \/ StartWait(c) \/ WaitTimesOut(c)
  PROVE  IInv'
<1> USE DEF slotVars
<1>1. TypeInv /\ CallOK(c) /\ ClosedAwake
  BY DEF IInv, CallsOK
<1>2. /\ stage[c] \in {"attempt", "sent", "waiting"} /\ Stay
      /\ UNCHANGED <<request, left, response, event, pending, slot, wire>>
  BY DEF ExpireAttempt, NoTimeToWait, StartWait, WaitTimesOut
<1>3. InCall(c) /\ attempt[c] \in 1..MaxAttempts /\ left[c] \in Int
  BY <1>1, <1>2, ClientAssumption DEF InCall, CallOK, TypeInv
<1>4. phase = "closed" /\ c \notin PendingCallers => event'[c] \/ MetUnexpected(c)'
  BY <1>1, <1>2, <1>3 DEF ClosedAwake, MetUnexpected
<1>5. CASE ExpireAttempt(c) \/ NoTimeToWait(c)
  <2>1. Goto(c, "finish") /\ UNCHANGED <<attempt, timer>>
    BY <1>5 DEF ExpireAttempt, NoTimeToWait
  <2> QED
    BY <1>1, <1>2, <1>3, <1>4, <2>1, LocalKeeps DEF TypeInv, Stages
<1>6. CASE WaitTimesOut(c)
  <2>1. PICK where \in {"attempt", "finish"} : Goto(c, where)
    BY <1>6 DEF WaitTimesOut, NextAttempt
  <2>2. /\ attempt' \in [Callers -> 0..MaxAttempts] /\ attempt'[c] >= 1
        /\ \A d \in Callers \ {c} : attempt'[d] = attempt[d]
    BY <1>1, <1>3, <1>6, ClientAssumption DEF WaitTimesOut, NextAttempt, TypeInv
  <2>3. UNCHANGED timer
    BY <1>6 DEF WaitTimesOut
  <2> QED
    BY <1>1, <1>2, <1>3, <1>4, <2>1, <2>2, <2>3, LocalKeeps DEF TypeInv, Stages
<1>7. CASE StartWait(c)
  <2>1. Backoff(attempt[c]) \in Int
    BY <1>3, BackoffInt
  <2>2. /\ WaitTime(c) \in Nat
        /\ request[c].ttl # 0 => WaitTime(c) <= left[c]
    <3> HIDE DEF Backoff
    <3> QED
      BY <1>3, <1>7, <2>1 DEF StartWait, WaitTime
  <2>3. /\ Goto(c, "waiting") /\ UNCHANGED attempt
        /\ timer' = [timer EXCEPT ![c] = WaitTime(c)]
    BY <1>7 DEF StartWait
  <2>4. /\ timer' \in [Callers -> Nat] /\ timer'[c] = WaitTime(c)
        /\ \A d \in Callers \ {c} : timer'[d] = timer[d]
    BY <1>1, <2>2, <2>3 DEF TypeInv
  <2> QED
    BY <1>1, <1>2, <1>3, <1>4, <2>2, <2>3, <2>4, LocalKeeps DEF TypeInv, Stages
<1> QED
  BY <1>5, <1>6, <1>7

LEMMA WokenKeeps ==
  ASSUME IInv, NEW c \in Callers, Woken(c)
  PROVE  IInv'
<1> USE DEF Woken, slotVars
<1>1. TypeInv /\ CallOK(c)
  BY DEF IInv, CallsOK
<1>2. PICK where \in {"clearing", "finish"} :
        /\ Goto(c, where)
        /\ where = "clearing" =>
             slot[c] # None /\ slot[c].type \notin ExpectedTypes(request[c].type)
  OBVIOUS
<1>3. response' = [response EXCEPT ![c] = slot[c]] /\ response'[c] = slot[c]
  BY <1>1 DEF TypeInv
<1>4. where = "clearing" => MetUnexpected(c)'
  BY <1>2, <1>3 DEF MetUnexpected
<1>5. /\ timer' \in [Callers -> Nat] /\ event'[c]
      /\ \A d \in Callers \ {c} : timer'[d] = timer[d]
  BY <1>1 DEF TypeInv
<1>6. InCall(c) /\ attempt[c] >= 1
  BY <1>1 DEF InCall, CallOK
<1> QED
  BY <1>1, <1>2, <1>3, <1>4, <1>5, <1>6, LocalKeeps DEF TypeInv, Stages

LEMMA ClearEventKeeps ==
  ASSUME IInv, NEW c \in Callers, ClearEvent(c)
  PROVE  IInv'
<1> USE DEF ClearEvent
<1>1. TypeInv /\ CallOK(c)
  BY DEF IInv, CallsOK
<1>2. PICK where \in {"attempt", "finish"} : Goto(c, where)
  BY DEF NextAttempt
<1>3. InCall(c) /\ attempt[c] \in 1..MaxAttempts
  BY <1>1, ClientAssumption DEF InCall, CallOK, TypeInv
<1>4. MetUnexpected(c)'
  BY <1>1 DEF CallOK, MetUnexpected
<1>5. /\ attempt' \in [Callers -> 0..MaxAttempts] /\ attempt'[c] >= 1
      /\ \A d \in Callers \ {c} : attempt'[d] = attempt[d]
  BY <1>1, <1>3, ClientAssumption DEF NextAttempt, TypeInv
<1>6. /\ event' \in [Callers -> BOOLEAN]
      /\ \A d \in Callers \ {c} : event'[d] = event[d]
  BY <1>1 DEF TypeInv
<1> QED
  BY <1>1, <1>2, <1>3, <1>4, <1>5, <1>6, LocalKeeps DEF TypeInv, Stages

\* The copy that leaves the client is the request of the call.
LEMMA TransmitKeeps ==
  ASSUME IInv, NEW c \in Callers, Transmit(c)
  PROVE  IInv'
<1> USE DEF Transmit, Stay, clientVars, numberVars, slotVars
<1>1. /\ TypeInv /\ CallOK(c) /\ InCall(c)
  BY DEF IInv, CallsOK, InCall
<1>2. /\ stage' = [stage EXCEPT ![c] = "sent"]
      /\ \A d \in Callers : InCall(d)' <=> InCall(d)
      /\ \A d \in Callers : stage'[d] \in {"waiting", "clearing"} => stage'[d] = stage[d]
  BY <1>1 DEF TypeInv, Goto, InCall
<1>3. wire' \in {wire, wire \cup {request[c]}} /\ request[c] \in Requests
  BY <1>1 DEF SendTo, CallOK
<1>4. InTransit \subseteq InTransit'
  BY <1>3, InTransitGrows
<1>5. TypeInv'
  BY <1>1, <1>2, <1>3 DEF TypeInv, Stages
<1>6. CallsOK'
  BY <1>2 DEF IInv, CallsOK, CallOK, MetUnexpected, InCall
<1>7. OneCallPerNumber'
  BY <1>2 DEF IInv, TypeInv, OneCallPerNumber, PendingCallers
<1>8. NumbersUsed'
  <2>1. \A d \in Callers :
          InCall(d) /\ request[d].sequence = request[c].sequence => d = c
    BY <1>1 DEF IInv, OneCallPerNumber
  <2> QED
    BY <1>1, <1>2, <1>3, <2>1 DEF IInv, NumbersUsed
<1>9. ResponsesAnswer'
  BY <1>4 DEF IInv, ResponsesAnswer
<1>10. ClosedAwake' /\ WaitsWithinDeadline'
  BY <1>2 DEF IInv, ClosedAwake, PendingCallers, MetUnexpected, WaitsWithinDeadline
<1> QED
  BY <1>5, <1>6, <1>7, <1>8, <1>9, <1>10 DEF IInv

-----------------------------------------------------------------------------
(* The beginning and the end of a call *)

\* pending.pop: the entry of c goes, and no other.
LEMMA ForgetKeeps ==
  ASSUME IInv, NEW c \in Callers, InCall(c), Forget(c), Goto(c, "idle"),
         session' \in SessionIds \cup {0},
         UNCHANGED <<phase, numberVars, held, timer, wire>>
  PROVE  IInv'
<1> USE DEF Forget, numberVars
<1>1. TypeInv /\ CallsOK /\ OneCallPerNumber
  BY DEF IInv
<1>2. /\ stage' = [stage EXCEPT ![c] = "idle"]
      /\ \A d \in Callers : InCall(d)' <=> InCall(d) /\ d # c
  BY <1>1 DEF TypeInv, Goto, InCall
<1>3. /\ \A d \in Callers \ {c} :
           /\ stage'[d] = stage[d] /\ request'[d] = request[d]
           /\ attempt'[d] = attempt[d] /\ left'[d] = left[d]
           /\ event'[d] = event[d] /\ slot'[d] = slot[d]
           /\ response'[d] = response[d]
      /\ stage'[c] = "idle" /\ slot'[c] = None /\ response'[c] = None
  <2>1. \A d \in Callers \ {c} : event'[d] = event[d]
    BY <1>1 DEF TypeInv
  <2>2. /\ \A d \in Callers \ {c} :
             /\ request'[d] = request[d] /\ slot'[d] = slot[d]
             /\ response'[d] = response[d] /\ stage'[d] = stage[d]
        /\ stage'[c] = "idle" /\ slot'[c] = None /\ response'[c] = None
    BY <1>1, <1>2 DEF TypeInv
  <2>3. \A d \in Callers \ {c} : attempt'[d] = attempt[d] /\ left'[d] = left[d]
    BY <1>1 DEF TypeInv
  <2> QED
    BY <2>1, <2>2, <2>3
<1>4. TypeInv'
  <2>1. MaxAttempts \in Nat
    BY ClientAssumption
  <2>2. attempt' \in [Callers -> 0..MaxAttempts] /\ left' \in [Callers -> {-1} \cup Nat]
    BY <1>1, <2>1 DEF TypeInv
  <2>3. event' \in [Callers -> BOOLEAN]
    BY <1>1 DEF TypeInv
  <2>4. /\ request' \in [Callers -> Requests \cup {None}]
        /\ slot' \in [Callers -> Responses \cup {None}]
        /\ response' \in [Callers -> Responses \cup {None}]
        /\ stage' \in [Callers -> Stages]
    BY <1>1, <1>2 DEF TypeInv, Stages
  <2>5. /\ DOMAIN pending' \subseteq Sequences1
        /\ \A n \in DOMAIN pending' : pending'[n] \in Callers
    BY <1>1 DEF TypeInv
  <2> HIDE DEF Forget
  <2> QED
    BY <1>1, <2>2, <2>3, <2>4, <2>5 DEF TypeInv
<1>5. CallsOK'
  <2> SUFFICES ASSUME NEW d \in Callers
               PROVE  CallOK(d)'
    BY DEF CallsOK
  <2>1. CASE d = c
    BY <1>2, <1>3, <2>1 DEF CallOK, InCall
  <2>2. CASE d # c
    BY <1>1, <1>3, <2>2 DEF CallsOK, CallOK, InCall, MetUnexpected
  <2> QED
    BY <2>1, <2>2
<1>6. /\ DOMAIN pending' = DOMAIN pending \ {request[c].sequence}
      /\ \A n \in DOMAIN pending' : pending'[n] = pending[n]
  OBVIOUS
<1>7. \A n \in DOMAIN pending :
        pending[n] = c <=> n = request[c].sequence
  BY <1>1 DEF OneCallPerNumber, TypeInv
<1>8. PendingCallers' = PendingCallers \ {c}
  BY <1>6, <1>7 DEF PendingCallers
<1>9. OneCallPerNumber'
  <2>1. \A x, y \in Callers :
          InCall(x)' /\ InCall(y)' /\ request'[x].sequence = request'[y].sequence
            => x = y
    BY <1>1, <1>2, <1>3 DEF OneCallPerNumber
  <2>2. phase' # "closed" => PendingCallers' = {x \in Callers : InCall(x)'}
    BY <1>1, <1>2, <1>8 DEF OneCallPerNumber
  <2>3. (\A n \in DOMAIN pending :
           InCall(pending[n]) /\ request[pending[n]].sequence = n)'
    <3> SUFFICES ASSUME NEW n \in DOMAIN pending'
                 PROVE  (InCall(pending[n]) /\ request[pending[n]].sequence = n)'
      OBVIOUS
    <3>1. /\ pending'[n] = pending[n] /\ pending[n] \in Callers \ {c}
          /\ InCall(pending[n]) /\ request[pending[n]].sequence = n
      BY <1>1, <1>6, <1>7 DEF OneCallPerNumber, TypeInv
    <3> QED
      BY <1>3, <3>1 DEF InCall
  <2>4. \A x \in Callers :
          slot'[x] # None => InCall(x)' /\ slot'[x].sequence = request'[x].sequence
    BY <1>1, <1>2, <1>3 DEF OneCallPerNumber
  <2> QED
    BY <2>1, <2>2, <2>3, <2>4 DEF OneCallPerNumber
<1>10. NumbersUsed'
  BY <1>2, <1>3 DEF IInv, NumbersUsed
<1>11. ResponsesAnswer'
  BY <1>3 DEF IInv, ResponsesAnswer, InTransit
<1>12. ClosedAwake'
  BY <1>2, <1>3, <1>8 DEF IInv, ClosedAwake, MetUnexpected
<1>13. WaitsWithinDeadline'
  BY <1>3 DEF IInv, WaitsWithinDeadline
<1> QED
  BY <1>4, <1>5, <1>9, <1>10, <1>11, <1>12, <1>13 DEF IInv

LEMMA EndKeeps ==
  ASSUME IInv, NEW c \in Callers, TransmitRaises(c) \/ Finish(c)
  PROVE  IInv'
<1>1. TypeInv /\ InCall(c)
  BY DEF IInv, InCall, TransmitRaises, Finish
<1>2. CASE TransmitRaises(c)
  BY <1>1, <1>2, ForgetKeeps DEF TypeInv, TransmitRaises, Stay, clientVars
<1>3. CASE Finish(c)
  <2>1. session' \in SessionIds \cup {0}
    <3>1. CASE session' = session
      BY <1>1, <3>1 DEF TypeInv
    <3>2. CASE /\ session' = response[c].session /\ response[c] # None
               /\ response[c].type = "REGISTER_RES"
      <4>1. response[c] \in InTransit
        BY <3>2 DEF IInv, ResponsesAnswer
      <4> QED
        BY <1>1, <3>2, <4>1, GrantedSession DEF TypeInv
    <3> QED
      BY <1>3, <3>1, <3>2 DEF Finish, NewSession, Succeeds, Acceptable,
         ExpectedTypes, Typed
  <2> QED
    BY <1>1, <1>3, <2>1, ForgetKeeps DEF Finish
<1> QED
  BY <1>2, <1>3

\* The number of a new request is fresh.
LEMMA FreshNumber ==
  ASSUME IInv, TakeNumber
  PROVE  /\ \A c \in Callers : InCall(c) => request[c].sequence # sequence
         /\ \A q \in wire : q.sequence # sequence
         /\ Rank(sequence) < issued' /\ issued < issued'
         /\ sequence' \in Sequences1 /\ issued' \in 0..MaxCalls
         /\ issued' < Modulus - 1 => Rank(sequence') = issued'
<1>1. /\ sequence \in Sequences1 /\ issued \in Nat
      /\ issued < MaxCalls /\ MaxCalls \in Nat /\ MaxCalls < Modulus
      /\ Modulus \in Nat /\ issued' = issued + 1 /\ sequence' = Successor(sequence)
  BY ClientAssumption, ModulusNat DEF IInv, TypeInv, TakeNumber
<1>2. Rank(sequence) = issued
  BY <1>1 DEF IInv, NumbersUsed
<1>3. /\ \A c \in Callers : InCall(c) => request[c].sequence # sequence
      /\ \A q \in wire : q.sequence # sequence
  BY <1>1, <1>2 DEF IInv, NumbersUsed
<1>4. issued' < Modulus - 1 => Rank(sequence') = issued'
  BY <1>1, <1>2, RankOfSuccessor
<1>5. sequence' \in Sequences1
  BY <1>1, RankOfSuccessor
<1> QED
  BY <1>1, <1>2, <1>3, <1>4, <1>5

LEMMA BeginKeeps ==
  ASSUME IInv, NEW c \in Callers, NEW op \in Operations, Begin(c, op)
  PROVE  IInv'
<1> USE DEF clientVars
<1>1. TypeInv /\ CallsOK /\ OneCallPerNumber /\ NumbersUsed
  BY DEF IInv
<1> DEFINE new == PacketFor(op, TRUE)
<1>2. /\ new \in Requests /\ new.sequence = sequence
      /\ new.type = op.type /\ new.ttl = op.ttl
  BY <1>1, PacketTyped
<1> HIDE DEF new
<1>3. /\ ~InCall(c) /\ TakeNumber
      /\ stage' = [stage EXCEPT ![c] = "attempt"]
      /\ request' = [request EXCEPT ![c] = new]
      /\ slot' = [slot EXCEPT ![c] = None]
      /\ response' = [response EXCEPT ![c] = None]
      /\ attempt' = [attempt EXCEPT ![c] = 1]
      /\ left' = [left EXCEPT ![c] = op.ttl]
      /\ timer' = [timer EXCEPT ![c] = 0]
      /\ UNCHANGED <<phase, session, held, wire>>
  BY DEF Begin, InCall, new
<1>4. /\ event' = [event EXCEPT ![c] = FALSE]
      /\ DOMAIN pending' = DOMAIN pending \cup {sequence}
      /\ \A n \in DOMAIN pending' :
           pending'[n] = IF n = sequence THEN c ELSE pending[n]
  BY DEF Begin
<1>5. /\ \A d \in Callers \ {c} :
           /\ stage'[d] = stage[d] /\ request'[d] = request[d]
           /\ slot'[d] = slot[d] /\ response'[d] = response[d]
      /\ stage'[c] = "attempt" /\ request'[c] = new
      /\ slot'[c] = None /\ response'[c] = None
      /\ \A d \in Callers : InCall(d)' <=> InCall(d) \/ d = c
  BY <1>1, <1>3 DEF TypeInv, InCall
<1>6. /\ \A d \in Callers \ {c} :
           /\ attempt'[d] = attempt[d] /\ left'[d] = left[d]
           /\ timer'[d] = timer[d]
      /\ attempt'[c] = 1
  BY <1>1, <1>3 DEF TypeInv
<1>7. \A d \in Callers \ {c} : event'[d] = event[d]
  BY <1>1, <1>4 DEF TypeInv
<1>8. /\ \A d \in Callers : InCall(d) => request[d].sequence # sequence
      /\ \A q \in wire : q.sequence # sequence
      /\ Rank(sequence) < issued' /\ issued < issued'
      /\ sequence' \in Sequences1 /\ issued' \in 0..MaxCalls
      /\ issued' < Modulus - 1 => Rank(sequence') = issued'
  BY <1>3, FreshNumber
<1>9. sequence \notin DOMAIN pending
  BY <1>1, <1>8 DEF OneCallPerNumber, TypeInv
<1>10. PendingCallers' = PendingCallers \cup {c}
  BY <1>4, <1>9 DEF PendingCallers
<1>11. TypeInv'
  <2>1. MaxAttempts \in Nat \ {0} /\ op.ttl \in Nat
    BY ClientAssumption
  <2>2. /\ attempt' \in [Callers -> 0..MaxAttempts]
        /\ left' \in [Callers -> {-1} \cup Nat] /\ timer' \in [Callers -> Nat]
    BY <1>1, <1>3, <2>1 DEF TypeInv
  <2>3. event' \in [Callers -> BOOLEAN]
    BY <1>1, <1>4 DEF TypeInv
  <2>4. /\ request' \in [Callers -> Requests \cup {None}]
        /\ slot' \in [Callers -> Responses \cup {None}]
        /\ response' \in [Callers -> Responses \cup {None}]
        /\ stage' \in [Callers -> Stages]
    BY <1>1, <1>2, <1>3 DEF TypeInv, Stages
  <2>5. /\ DOMAIN pending' \subseteq Sequences1
        /\ \A n \in DOMAIN pending' : pending'[n] \in Callers
    BY <1>1, <1>4 DEF TypeInv
  <2> QED
    BY <1>1, <1>3, <1>8, <2>2, <2>3, <2>4, <2>5 DEF TypeInv
<1>12. CallsOK'
  <2> SUFFICES ASSUME NEW d \in Callers
               PROVE  CallOK(d)'
    BY DEF CallsOK
  <2>1. CASE d = c
    BY <1>2, <1>5, <1>6, <2>1 DEF CallOK, InCall
  <2>2. CASE d # c
    BY <1>1, <1>5, <1>6, <2>2 DEF CallsOK, CallOK, InCall, MetUnexpected
  <2> QED
    BY <2>1, <2>2
<1>13. OneCallPerNumber'
  <2>1. \A x, y \in Callers :
          InCall(x)' /\ InCall(y)' /\ request'[x].sequence = request'[y].sequence
            => x = y
    BY <1>1, <1>2, <1>5, <1>8 DEF OneCallPerNumber
  <2>2. phase' # "closed" => PendingCallers' = {x \in Callers : InCall(x)'}
    BY <1>1, <1>3, <1>5, <1>10 DEF OneCallPerNumber
  <2>3. (\A n \in DOMAIN pending :
           InCall(pending[n]) /\ request[pending[n]].sequence = n)'
    <3> SUFFICES ASSUME NEW n \in DOMAIN pending'
                 PROVE  (InCall(pending[n]) /\ request[pending[n]].sequence = n)'
      OBVIOUS
    <3>1. CASE n = sequence
      BY <1>2, <1>4, <1>5, <3>1 DEF InCall
    <3>2. CASE n # sequence
      <4>1. /\ pending'[n] = pending[n] /\ pending[n] \in Callers
            /\ InCall(pending[n]) /\ request[pending[n]].sequence = n
        BY <1>1, <1>4, <3>2 DEF OneCallPerNumber, TypeInv
      <4>2. pending[n] # c
        BY <1>3, <4>1
      <4> QED
        BY <1>5, <4>1, <4>2 DEF InCall
    <3> QED
      BY <3>1, <3>2
  <2>4. \A x \in Callers :
          slot'[x] # None => InCall(x)' /\ slot'[x].sequence = request'[x].sequence
    BY <1>1, <1>5 DEF OneCallPerNumber
  <2> QED
    BY <2>1, <2>2, <2>3, <2>4 DEF OneCallPerNumber
<1>14. NumbersUsed'
  <2>1. \A d \in Callers : InCall(d)' => Rank(request'[d].sequence) < issued'
    <3> SUFFICES ASSUME NEW d \in Callers, InCall(d)'
                 PROVE  Rank(request'[d].sequence) < issued'
      OBVIOUS
    <3>1. CASE d = c
      BY <1>2, <1>5, <1>8, <3>1
    <3>2. CASE d # c
      <4>1. Rank(request[d].sequence) < issued /\ request[d].sequence \in Sequences1
        BY <1>1, <1>5, <3>2 DEF NumbersUsed, CallsOK, CallOK, Requests
      <4> QED
        BY <1>1, <1>5, <1>8, <3>2, <4>1, RankOfSuccessor DEF TypeInv
    <3> QED
      BY <3>1, <3>2
  <2>2. \A q \in wire : Rank(q.sequence) < issued'
    <3>1. \A q \in wire : q.sequence \in Sequences1
      BY <1>1 DEF TypeInv, Requests
    <3> QED
      BY <1>1, <1>8, <3>1, RankOfSuccessor DEF NumbersUsed, TypeInv
  <2>3. \A q \in wire, d \in Callers :
          InCall(d)' /\ q.sequence = request'[d].sequence => q = request'[d]
    BY <1>1, <1>2, <1>5, <1>8 DEF NumbersUsed
  <2> QED
    BY <1>3, <1>8, <2>1, <2>2, <2>3 DEF NumbersUsed
<1>15. ResponsesAnswer'
  BY <1>3, <1>5 DEF IInv, ResponsesAnswer, InTransit
<1>16. ClosedAwake'
  <2> SUFFICES ASSUME phase = "closed", NEW d \in Callers, d # c, InCall(d),
                      d \notin PendingCallers
               PROVE  (event[d] \/ MetUnexpected(d))'
    BY <1>3, <1>5, <1>10 DEF ClosedAwake
  <2> QED
    BY <1>5, <1>7 DEF IInv, ClosedAwake, MetUnexpected
<1>17. WaitsWithinDeadline'
  BY <1>5, <1>6 DEF IInv, WaitsWithinDeadline
<1> QED
  BY <1>11, <1>12, <1>13, <1>14, <1>15, <1>16, <1>17 DEF IInv

\* What leaves the client without a call has a number of its own.
LEMMA SendOnceKeeps ==
  ASSUME IInv, NEW c \in Callers, NEW op \in Operations, NEW leaves \in BOOLEAN,
         SendOnce(c, op, leaves)
  PROVE  IInv'
<1> USE DEF clientVars, callVars, slotVars
<1>1. TypeInv /\ CallsOK /\ NumbersUsed
  BY DEF IInv
<1> DEFINE new == PacketFor(op, FALSE)
<1>2. new \in Requests /\ new.sequence = sequence
  BY <1>1, PacketTyped
<1> HIDE DEF new
<1>3. /\ TakeNumber /\ wire' \in {wire, wire \cup {new}}
      /\ UNCHANGED <<clientVars, callVars, slotVars, held>>
  BY DEF SendOnce, SendTo, new
<1>4. /\ \A d \in Callers : InCall(d) => request[d].sequence # sequence
      /\ Rank(sequence) < issued' /\ issued < issued'
      /\ sequence' \in Sequences1 /\ issued' \in 0..MaxCalls
      /\ issued' < Modulus - 1 => Rank(sequence') = issued'
  BY <1>3, FreshNumber
<1>5. InTransit \subseteq InTransit'
  BY <1>3, InTransitGrows
<1>6. TypeInv'
  BY <1>1, <1>2, <1>3, <1>4 DEF TypeInv
<1>7. CallsOK' /\ OneCallPerNumber' /\ ClosedAwake' /\ WaitsWithinDeadline'
  BY <1>3 DEF IInv, CallsOK, CallOK, InCall, MetUnexpected, OneCallPerNumber,
     PendingCallers, ClosedAwake, WaitsWithinDeadline
<1>8. NumbersUsed'
  <2>1. \A n \in Sequences1 : Rank(n) < issued => Rank(n) < issued'
    BY <1>1, <1>4, RankOfSuccessor DEF TypeInv
  <2>2. \A d \in Callers : InCall(d)' => Rank(request'[d].sequence) < issued'
    <3> SUFFICES ASSUME NEW d \in Callers, InCall(d)
                 PROVE  Rank(request[d].sequence) < issued'
      BY <1>3 DEF InCall
    <3>1. request[d].sequence \in Sequences1 /\ Rank(request[d].sequence) < issued
      BY <1>1 DEF CallsOK, CallOK, Requests, NumbersUsed
    <3> QED
      BY <2>1, <3>1
  <2>3. \A q \in wire' : Rank(q.sequence) < issued'
    <3>1. \A q \in wire : q.sequence \in Sequences1 /\ Rank(q.sequence) < issued
      BY <1>1 DEF TypeInv, Requests, NumbersUsed
    <3> QED
      BY <1>2, <1>3, <1>4, <2>1, <3>1
  <2>4. \A q \in wire', d \in Callers :
          InCall(d)' /\ q.sequence = request'[d].sequence => q = request'[d]
    BY <1>1, <1>2, <1>3, <1>4 DEF NumbersUsed, InCall
  <2> QED
    BY <1>4, <2>2, <2>3, <2>4 DEF NumbersUsed
<1>9. ResponsesAnswer'
  BY <1>3, <1>5 DEF IInv, ResponsesAnswer
<1> QED
  BY <1>6, <1>7, <1>8, <1>9 DEF IInv

-----------------------------------------------------------------------------
(* The receiver, close and time *)

LEMMA ReceiveKeeps ==
  ASSUME IInv, NEW r \in InTransit, Receive(r)
  PROVE  IInv'
<1> USE DEF Receive, clientVars, numberVars, callVars, slotVars
<1>1. r \in Responses
  BY InTransitTyped DEF IInv, TypeInv
<1>2. TypeInv'
  BY <1>1 DEF IInv, TypeInv
<1>3. CallsOK' /\ OneCallPerNumber' /\ ClosedAwake' /\ WaitsWithinDeadline'
  BY DEF IInv, CallsOK, CallOK, InCall, MetUnexpected, OneCallPerNumber,
     PendingCallers, ClosedAwake, WaitsWithinDeadline
<1>4. NumbersUsed' /\ ResponsesAnswer'
  BY DEF IInv, NumbersUsed, InCall, ResponsesAnswer, InTransit
<1> QED
  BY <1>2, <1>3, <1>4 DEF IInv

\* The response goes to the call whose number it bears.
LEMMA HandOverKeeps ==
  ASSUME IInv, HandOver
  PROVE  IInv'
<1> USE DEF HandOver, clientVars, numberVars, callVars
<1>1. /\ TypeInv /\ CallsOK /\ OneCallPerNumber /\ ResponsesAnswer
      /\ held \in Responses /\ held # None /\ held \in InTransit
  BY DEF IInv, TypeInv, ResponsesAnswer
<1>2. /\ UNCHANGED <<phase, session, sequence, issued, stage, request, attempt,
                     left, timer, response, pending, wire>>
      /\ held' = None /\ InTransit' = InTransit
  BY DEF InTransit
<1>3. /\ slot' \in [Callers -> Responses \cup {None}]
      /\ \A c \in Callers :
           \/ slot'[c] = slot[c]
           \/ /\ slot'[c] = held /\ InCall(c)
              /\ held.sequence = request[c].sequence
  BY <1>1 DEF TypeInv, OneCallPerNumber
<1>4. /\ event' \in [Callers -> BOOLEAN]
      /\ \A c \in Callers : event[c] => event'[c]
  BY <1>1 DEF TypeInv
<1> HIDE DEF HandOver
<1>5. TypeInv'
  BY <1>1, <1>2, <1>3, <1>4 DEF TypeInv
<1>6. CallsOK'
  BY <1>1, <1>2, <1>3 DEF CallsOK, CallOK, InCall, MetUnexpected
<1>7. OneCallPerNumber'
  BY <1>1, <1>2, <1>3 DEF OneCallPerNumber, InCall, PendingCallers
<1>8. NumbersUsed'
  BY <1>2 DEF IInv, NumbersUsed, InCall
<1>9. ResponsesAnswer'
  BY <1>1, <1>2, <1>3 DEF ResponsesAnswer
<1>10. ClosedAwake'
  BY <1>2, <1>4 DEF IInv, ClosedAwake, InCall, PendingCallers, MetUnexpected
<1>11. WaitsWithinDeadline'
  BY <1>2 DEF IInv, WaitsWithinDeadline
<1> QED
  BY <1>5, <1>6, <1>7, <1>8, <1>9, <1>10, <1>11 DEF IInv

LEMMA CloseSocketKeeps ==
  ASSUME IInv, CloseSocket
  PROVE  IInv'
<1> USE DEF CloseSocket, numberVars, callVars, slotVars
<1>1. TypeInv'
  BY DEF IInv, TypeInv
<1>2. CallsOK' /\ OneCallPerNumber' /\ ClosedAwake' /\ WaitsWithinDeadline'
  BY DEF IInv, CallsOK, CallOK, InCall, MetUnexpected, OneCallPerNumber,
     PendingCallers, ClosedAwake, WaitsWithinDeadline
<1>3. NumbersUsed' /\ ResponsesAnswer'
  BY DEF IInv, NumbersUsed, InCall, ResponsesAnswer, InTransit
<1> QED
  BY <1>1, <1>2, <1>3 DEF IInv

\* Every call in progress is pending, so close sets the events of all of them.
LEMMA WakePendingKeeps ==
  ASSUME IInv, WakePending
  PROVE  IInv'
<1> USE DEF WakePending, numberVars, callVars
<1>1. TypeInv /\ CallsOK /\ OneCallPerNumber
  BY DEF IInv
<1>2. /\ UNCHANGED <<session, sequence, issued, stage, request, attempt, left,
                     timer, response, slot, held, wire>>
      /\ phase = "unbound" /\ phase' = "closed" /\ pending' = <<>>
      /\ InTransit' = InTransit
  BY DEF InTransit
<1>3. event' \in [Callers -> BOOLEAN] /\ \A c \in PendingCallers : event'[c]
  BY <1>1 DEF TypeInv, Waking, PendingCallers
<1>4. DOMAIN pending' = {} /\ PendingCallers' = {}
  BY <1>2 DEF PendingCallers
<1> HIDE DEF WakePending
<1>5. TypeInv'
  BY <1>1, <1>2, <1>3, <1>4 DEF TypeInv
<1>6. CallsOK' /\ NumbersUsed' /\ ResponsesAnswer'
  BY <1>2 DEF IInv, CallsOK, CallOK, InCall, MetUnexpected, NumbersUsed,
     ResponsesAnswer
<1>7. OneCallPerNumber'
  BY <1>1, <1>2, <1>4 DEF OneCallPerNumber, InCall
<1>8. ClosedAwake'
  BY <1>1, <1>2, <1>3 DEF OneCallPerNumber, ClosedAwake, InCall
<1>9. WaitsWithinDeadline'
  BY <1>2 DEF IInv, WaitsWithinDeadline
<1> QED
  BY <1>5, <1>6, <1>7, <1>8, <1>9 DEF IInv

\* A wait never outlives the deadline, as the two run down together.
LEMMA TickKeeps ==
  ASSUME IInv, Tick
  PROVE  IInv'
<1> USE DEF Tick, clientVars, numberVars, slotVars
<1>1. TypeInv
  BY DEF IInv
<1>2. /\ left' \in [Callers -> {-1} \cup Nat] /\ timer' \in [Callers -> Nat]
      /\ \A c \in Callers :
           /\ timer'[c] = Later(timer[c])
           /\ left'[c] = IF InCall(c) /\ request[c].ttl # 0 /\ left[c] >= 0
                         THEN left[c] - 1 ELSE left[c]
  BY <1>1 DEF TypeInv, Later
<1>3. UNCHANGED <<clientVars, numberVars, stage, request, attempt, response,
                  slotVars, held, wire>>
  OBVIOUS
<1> HIDE DEF Tick
<1>4. TypeInv'
  <2>1. event' \in [Callers -> BOOLEAN]
    BY <1>1, <1>3 DEF TypeInv
  <2> QED
    BY <1>1, <1>2, <1>3, <2>1 DEF TypeInv
<1>5. CallsOK' /\ OneCallPerNumber' /\ ClosedAwake'
  BY <1>3 DEF IInv, CallsOK, CallOK, InCall, MetUnexpected, OneCallPerNumber,
     PendingCallers, ClosedAwake
<1>6. NumbersUsed' /\ ResponsesAnswer'
  BY <1>3 DEF IInv, NumbersUsed, InCall, ResponsesAnswer, InTransit
<1>7. WaitsWithinDeadline'
  <2> SUFFICES ASSUME NEW c \in Callers, stage[c] = "waiting", request[c].ttl # 0
               PROVE  timer'[c] = 0 \/ timer'[c] <= left'[c]
    BY <1>3 DEF WaitsWithinDeadline
  <2>1. /\ timer[c] \in Nat /\ left[c] \in {-1} \cup Nat
        /\ timer[c] = 0 \/ timer[c] <= left[c]
        /\ InCall(c)
    BY <1>1 DEF IInv, TypeInv, WaitsWithinDeadline, InCall
  <2> QED
    BY <1>2, <2>1 DEF Later
<1> QED
  BY <1>4, <1>5, <1>6, <1>7 DEF IInv

LEMMA InitIInv == ClientInit => IInv
<1> SUFFICES ASSUME ClientInit
             PROVE  IInv
  OBVIOUS
<1> USE DEF ClientInit
<1>1. /\ FirstNumber \in Sequences1 /\ MaxCalls \in Nat /\ MaxAttempts \in Nat
      /\ Rank(FirstNumber) = 0
  BY ModulusNat, ClientAssumption DEF Sequences1, Rank
<1>2. TypeInv
  BY <1>1 DEF TypeInv, Stages
<1>3. \A c \in Callers : ~InCall(c) /\ slot[c] = None /\ response[c] = None
  BY DEF InCall
<1>4. CallsOK /\ OneCallPerNumber
  <2>1. PendingCallers = {}
    BY DEF PendingCallers
  <2> QED
    BY <1>3, <2>1 DEF CallsOK, CallOK, InCall, OneCallPerNumber
<1>5. NumbersUsed /\ ResponsesAnswer
  BY <1>1, <1>3 DEF NumbersUsed, ResponsesAnswer
<1>6. ClosedAwake /\ WaitsWithinDeadline
  BY DEF ClosedAwake, WaitsWithinDeadline
<1> QED
  BY <1>2, <1>4, <1>5, <1>6 DEF IInv

LEMMA NextIInv == IInv /\ [ClientNext]_vars => IInv'
<1> SUFFICES ASSUME IInv, [ClientNext]_vars
             PROVE  IInv'
  OBVIOUS
<1>1. ASSUME NEW c \in Callers, NEW op \in Operations, Begin(c, op)
      PROVE  IInv'
  BY <1>1, BeginKeeps
<1>2. ASSUME NEW c \in Callers, NEW op \in Operations, NEW leaves \in BOOLEAN,
             SendOnce(c, op, leaves)
      PROVE  IInv'
  BY <1>2, SendOnceKeeps
<1>3. ASSUME NEW c \in Callers, Continue(c)
      PROVE  IInv'
  BY <1>3, LocalStepKeeps, WokenKeeps, ClearEventKeeps, TransmitKeeps, EndKeeps
     DEF Continue
<1>4. ASSUME NEW r \in InTransit, Receive(r)
      PROVE  IInv'
  BY <1>4, ReceiveKeeps
<1>5. CASE HandOver
  BY <1>5, HandOverKeeps
<1>6. CASE CloseSocket
  BY <1>6, CloseSocketKeeps
<1>7. CASE WakePending
  BY <1>7, WakePendingKeeps
<1>8. CASE Tick
  BY <1>8, TickKeeps
<1>9. CASE UNCHANGED vars
  <2>1. UNCHANGED <<phase, session, sequence, issued, pending, held, stage, request,
                    attempt, left, timer, event, slot, response, wire>>
    BY <1>9 DEF vars, clientVars, numberVars, callVars, slotVars
  <2>2. TypeInv'
    BY <2>1 DEF IInv, TypeInv
  <2>3. CallsOK' /\ OneCallPerNumber' /\ ClosedAwake' /\ WaitsWithinDeadline'
    BY <2>1 DEF IInv, CallsOK, CallOK, InCall, MetUnexpected, OneCallPerNumber,
       PendingCallers, ClosedAwake, WaitsWithinDeadline
  <2>4. NumbersUsed' /\ ResponsesAnswer'
    BY <2>1 DEF IInv, NumbersUsed, InCall, ResponsesAnswer, InTransit
  <2> QED
    BY <2>2, <2>3, <2>4 DEF IInv
<1> QED
  BY <1>1, <1>2, <1>3, <1>4, <1>5, <1>6, <1>7, <1>8, <1>9 DEF ClientNext

-----------------------------------------------------------------------------
(* What follows *)

\* The inductive invariant holds in every reachable state.
THEOREM Invariance == ClientSpec => []IInv
BY InitIInv, NextIInv, PTL DEF ClientSpec

\* _pending holds the calls in progress and no other, each under a number that no
\* other call has, whatever the threads do: _send_reliable never finds its number
\* pending already, and no response is handed to another call (OneCallPerNumber).
THEOREM NumbersNotShared == ClientSpec => []OneCallPerNumber
<1>1. IInv => OneCallPerNumber
  BY DEF IInv
<1> QED
  BY <1>1, Invariance, PTL

\* close leaves no call waiting without its event set, but for one that has met a
\* response of another type (CloseWakes).
THEOREM CloseWakesAll == ClientSpec => []CloseWakes
<1>1. IInv => CloseWakes
  BY DEF IInv, ClosedAwake, CloseWakes, InCall
<1> QED
  BY <1>1, Invariance, PTL

\* No attempt of _send_reliable waits past the deadline (WaitsWithinDeadline).
THEOREM WaitsEndInTime == ClientSpec => []WaitsWithinDeadline
<1>1. IInv => WaitsWithinDeadline
  BY DEF IInv
<1> QED
  BY <1>1, Invariance, PTL

-----------------------------------------------------------------------------
(* What a reliable call may believe *)

\* A response that the session test let through, or the early one.
Known(r) == r.type = "REGISTER_RES" \/ r.session \in granted \/ r = early

\* Once there is a session, the receiver takes nothing else; and a call that is no
\* registration begins when there is one, so it is handed nothing else.
OnlyKnown ==
  /\ session = 0 => granted = {}
  /\ session # 0 => session \in granted /\ (held # None => Known(held))
  /\ \A c \in Callers :
       InCall(c) /\ request[c].type # "REGISTER_REQ" =>
         /\ session # 0
         /\ slot[c] # None => Known(slot[c])
         /\ response[c] # None => Known(response[c])

\* What is known stays known, but for an early response before the first session.
LEMMA KnownStays ==
  ASSUME HistoryStep, NEW r, Known(r), session # 0
  PROVE  Known(r)'
BY DEF HistoryStep, Known

\* The steps that keep the session: a call has, in its slot and as its response,
\* what it had before, or what was held; or it has just begun.
LEMMA SameSessionKeeps ==
  ASSUME OnlyKnown, HistoryStep, session' = session,
         session # 0 /\ held' # None => held' = held \/ Known(held'),
         \A c \in Callers :
           InCall(c)' /\ request'[c].type # "REGISTER_REQ" =>
             \/ /\ InCall(c) /\ request'[c] = request[c]
                /\ slot'[c] # None => slot'[c] \in {slot[c], held}
                /\ response'[c] # None => response'[c] \in {slot[c], response[c]}
             \/ session # 0 /\ slot'[c] = None /\ response'[c] = None
  PROVE  OnlyKnown'
<1>1. granted' = granted \cup ({session} \ {0}) /\ early' = early
  BY DEF HistoryStep
<1>2. session = 0 => granted' = {}
  BY <1>1 DEF OnlyKnown
<1>3. \A r : Known(r) => Known(r)'
  BY <1>1 DEF Known
<1>4. session # 0 => session \in granted' /\ (held' # None => Known(held)')
  BY <1>1, <1>3 DEF OnlyKnown, Known
<1>5. ASSUME NEW c \in Callers, InCall(c)', request'[c].type # "REGISTER_REQ"
      PROVE  /\ session # 0
             /\ slot'[c] # None => Known(slot[c])'
             /\ response'[c] # None => Known(response[c])'
  <2>1. CASE /\ InCall(c) /\ request'[c] = request[c]
             /\ slot'[c] # None => slot'[c] \in {slot[c], held}
             /\ response'[c] # None => response'[c] \in {slot[c], response[c]}
    <3>1. /\ session # 0 /\ (held # None => Known(held))
          /\ slot[c] # None => Known(slot[c])
          /\ response[c] # None => Known(response[c])
      BY <1>5, <2>1 DEF OnlyKnown
    <3> QED
      BY <1>1, <2>1, <3>1 DEF Known
  <2> QED
    BY <1>5, <2>1
<1> QED
  BY <1>2, <1>4, <1>5 DEF OnlyKnown

LEMMA InitOnlyKnown == HistoryInit => OnlyKnown
BY DEF HistoryInit, ClientInit, OnlyKnown, InCall

LEMMA NextOnlyKnown == IInv /\ OnlyKnown /\ [HistoryNext]_historyVars => OnlyKnown'
<1> SUFFICES ASSUME IInv, OnlyKnown, [HistoryNext]_historyVars
             PROVE  OnlyKnown'
  OBVIOUS
<1>0. TypeInv /\ OneCallPerNumber
  BY DEF IInv
<1>1. CASE UNCHANGED historyVars
  <2>1. UNCHANGED <<session, granted, early, held, stage, request, slot, response>>
    BY <1>1 DEF historyVars, vars, clientVars, callVars, slotVars
  <2> QED
    BY <2>1 DEF OnlyKnown, Known, InCall
<1> SUFFICES ASSUME ClientNext, HistoryStep
             PROVE  OnlyKnown'
  BY <1>1 DEF HistoryNext, HistoryStep
<1>2. ASSUME NEW c \in Callers, NEW op \in Operations, Begin(c, op)
      PROVE  OnlyKnown'
  <2>1. /\ UNCHANGED <<session, held>> /\ (op.type # "REGISTER_REQ" => session # 0)
        /\ stage' = [stage EXCEPT ![c] = "attempt"]
        /\ request' = [request EXCEPT ![c] = PacketFor(op, TRUE)]
        /\ slot' = [slot EXCEPT ![c] = None]
        /\ response' = [response EXCEPT ![c] = None]
    BY <1>2 DEF Begin, Allowed, clientVars
  <2>2. PacketFor(op, TRUE).type = op.type
    BY <1>0, PacketTyped
  <2>3. /\ request'[c].type = op.type /\ slot'[c] = None /\ response'[c] = None
        /\ \A d \in Callers \ {c} :
             /\ stage'[d] = stage[d] /\ request'[d] = request[d]
             /\ slot'[d] = slot[d] /\ response'[d] = response[d]
    BY <1>0, <2>1, <2>2 DEF TypeInv
  <2> QED
    BY <2>1, <2>3, SameSessionKeeps DEF InCall
<1>3. ASSUME NEW c \in Callers, NEW op \in Operations, NEW leaves \in BOOLEAN,
             SendOnce(c, op, leaves)
      PROVE  OnlyKnown'
  BY <1>3, SameSessionKeeps DEF SendOnce, clientVars, callVars, slotVars, InCall
<1>4. ASSUME NEW c \in Callers, Continue(c), ~Finish(c)
      PROVE  OnlyKnown'
  <2>1. UNCHANGED <<session, held>>
    BY <1>4 DEF Continue, ExpireAttempt, Transmit, TransmitRaises, StartWait,
       NoTimeToWait, Woken, ClearEvent, WaitTimesOut, Stay, clientVars
  <2>2. CASE TransmitRaises(c)
    <3>1. /\ stage'[c] = "idle"
          /\ \A d \in Callers \ {c} :
               /\ stage'[d] = stage[d] /\ request'[d] = request[d]
               /\ slot'[d] = slot[d] /\ response'[d] = response[d]
      BY <1>0, <2>2 DEF TransmitRaises, Forget, Goto, TypeInv
    <3> QED
      BY <2>1, <3>1, SameSessionKeeps DEF InCall
  <2>3. CASE ~TransmitRaises(c)
    <3>1. /\ InCall(c) /\ UNCHANGED <<request, slot>>
          /\ \E where \in Stages \ {"idle"} : stage' = [stage EXCEPT ![c] = where]
          /\ response' \in {response, [response EXCEPT ![c] = slot[c]]}
      BY <1>4, <2>3 DEF Continue, ExpireAttempt, Transmit, StartWait, NoTimeToWait,
         Woken, ClearEvent, WaitTimesOut, NextAttempt, Goto, InCall, slotVars, Stages
    <3>2. \A d \in Callers :
            /\ InCall(d)' <=> InCall(d)
            /\ response'[d] \in {slot[d], response[d]}
      BY <1>0, <3>1 DEF TypeInv, InCall, Stages
    <3> QED
      BY <2>1, <3>1, <3>2, SameSessionKeeps
  <2> QED
    BY <2>2, <2>3
<1>5. ASSUME NEW c \in Callers, Finish(c)
      PROVE  OnlyKnown'
  <2>1. /\ held' = held /\ stage'[c] = "idle"
        /\ \A d \in Callers \ {c} :
             /\ stage'[d] = stage[d] /\ request'[d] = request[d]
             /\ slot'[d] = slot[d] /\ response'[d] = response[d]
    BY <1>0, <1>5 DEF Finish, Forget, Goto, TypeInv
  <2>2. CASE session' = session
    BY <2>1, <2>2, SameSessionKeeps DEF InCall
  <2>3. CASE session' # session
    <3>1. session' # 0
      <4>1. /\ session' = response[c].session /\ response[c] \in InTransit
            /\ response[c].type = "REGISTER_RES"
        BY <1>5, <2>3 DEF Finish, NewSession, Succeeds, Acceptable, ExpectedTypes,
           Typed, IInv, ResponsesAnswer
      <4> QED
        BY <1>0, <4>1, GrantedSession, ClientAssumption DEF TypeInv
    <3>2. session' \in granted'
      BY <3>1 DEF HistoryStep
    <3>3. held' # None => Known(held)'
      BY <2>1, <3>1, KnownStays DEF OnlyKnown, HistoryStep, Known
    <3>4. \A d \in Callers :
            InCall(d)' /\ request'[d].type # "REGISTER_REQ" =>
              /\ d # c /\ InCall(d) /\ request[d].type # "REGISTER_REQ"
              /\ session # 0
      BY <2>1 DEF OnlyKnown, InCall
    <3>5. ASSUME NEW d \in Callers, InCall(d)', request'[d].type # "REGISTER_REQ"
          PROVE  /\ slot'[d] # None => Known(slot[d])'
                 /\ response'[d] # None => Known(response[d])'
      <4>1. /\ slot'[d] = slot[d] /\ response'[d] = response[d] /\ session # 0
            /\ slot[d] # None => Known(slot[d])
            /\ response[d] # None => Known(response[d])
        BY <2>1, <3>4, <3>5 DEF OnlyKnown
      <4> QED
        BY <4>1 DEF Known, HistoryStep
    <3> QED
      BY <3>1, <3>2, <3>3, <3>5 DEF OnlyKnown
  <2> QED
    BY <2>2, <2>3
<1>6. ASSUME NEW r \in InTransit, Receive(r)
      PROVE  OnlyKnown'
  <2>1. session # 0 => Known(r)
    BY <1>6 DEF Receive, PassesFilter, Known, OnlyKnown
  <2>2. /\ held' = r
        /\ UNCHANGED <<session, stage, request, slot, response>>
    BY <1>6 DEF Receive, clientVars, callVars, slotVars
  <2>3. session # 0 => Known(held')
    BY <2>1, <2>2
  <2> QED
    BY <2>2, <2>3, SameSessionKeeps DEF InCall
<1>7. CASE HandOver
  <2>1. \A c \in Callers : slot'[c] \in {slot[c], held}
    BY <1>0, <1>7 DEF HandOver, TypeInv
  <2> QED
    BY <1>7, <2>1, SameSessionKeeps DEF HandOver, clientVars, callVars, InCall
<1>8. CASE CloseSocket \/ WakePending \/ Tick
  BY <1>8, SameSessionKeeps
     DEF CloseSocket, WakePending, Tick, clientVars, callVars, slotVars, InCall
<1> QED
  BY <1>2, <1>3, <1>4, <1>5, <1>6, <1>7, <1>8 DEF ClientNext, Continue

\* A reliable call succeeds only by an answer to its own request, or by one of the
\* responses to an earlier client that SuccessIsAnswered excepts, whatever those are.
THEOREM SuccessAnswered == HistorySpec => SuccessIsAnswered
<1> DEFINE Believed(c) ==
      /\ response[c].status \in SuccessCodes
      /\ \/ request[c] \in wire /\ response[c] \in AnswersTo(request[c])
         \/ /\ response[c] \in Strays
            /\ \/ request[c].type = "REGISTER_REQ"
               \/ response[c].session \in granted
               \/ response[c] = early
<1>1. ASSUME IInv, OnlyKnown, NEW c \in Callers, Finish(c), Succeeds(c)
      PROVE  Believed(c)
  <2>1. /\ InCall(c) /\ response[c] # None /\ response[c] \in InTransit
        /\ response[c].sequence = request[c].sequence
        /\ response[c].type \in ExpectedTypes(request[c].type) \ {"ERROR"}
        /\ response[c].status \in SuccessCodes
    BY <1>1 DEF IInv, CallsOK, CallOK, InCall, Finish, Succeeds, Acceptable,
       ResponsesAnswer
  <2>2. ASSUME response[c] \in Strays, request[c].type # "REGISTER_REQ"
        PROVE  response[c].session \in granted \/ response[c] = early
    <3>1. Known(response[c])
      BY <1>1, <2>1, <2>2 DEF OnlyKnown
    <3>2. response[c].type # "REGISTER_RES"
      BY <2>1, <2>2 DEF ExpectedTypes, Typed
    <3> QED
      BY <3>1, <3>2 DEF Known
  <2>3. ASSUME NEW q \in wire, response[c] \in AnswersTo(q)
        PROVE  q = request[c]
    <3>1. q.sequence = request[c].sequence
      BY <1>1, <2>1, <2>3, AnswersTyped DEF IInv, TypeInv
    <3> QED
      BY <1>1, <2>1, <3>1 DEF IInv, NumbersUsed
  <2> QED
    BY <2>1, <2>2, <2>3 DEF InTransit
<1>2. IInv /\ OnlyKnown /\ [HistoryNext]_historyVars =>
        [\A c \in Callers :
           Finish(c) /\ Succeeds(c) =>
             /\ response[c].status \in SuccessCodes
             /\ \/ request[c] \in wire /\ response[c] \in AnswersTo(request[c])
                \/ /\ response[c] \in Strays
                   /\ \/ request[c].type = "REGISTER_REQ"
                      \/ response[c].session \in granted
                      \/ response[c] = early]_historyVars
  BY <1>1
<1>3. HistoryInit => IInv /\ OnlyKnown
  BY InitIInv, InitOnlyKnown DEF HistoryInit
<1>4. IInv /\ OnlyKnown /\ [HistoryNext]_historyVars => (IInv /\ OnlyKnown)'
  BY NextIInv, NextOnlyKnown DEF HistoryNext, historyVars
<1> QED
  BY <1>2, <1>3, <1>4, PTL DEF HistorySpec, SuccessIsAnswered

-----------------------------------------------------------------------------
(* The longest wait *)

\* Induction over a set of numbers: were m missing, the successor would map the
\* numbers of T below m into themselves without 0, so two would have the same one.
LEMMA SetInduction ==
  ASSUME NEW T \in SUBSET Nat, 0 \in T, \A n \in T : n + 1 \in T
  PROVE  T = Nat
<1> SUFFICES ASSUME NEW m \in Nat \ T
             PROVE  FALSE
  OBVIOUS
<1> DEFINE S == T \cap (0..m)
           f == [n \in S |-> n + 1]
<1>1. IsFiniteSet(S)
  <2>1. IsFiniteSet(0..m)
    BY FS_Interval
  <2>2. S \in SUBSET (0..m)
    OBVIOUS
  <2> QED
    BY <2>1, <2>2, FS_Subset
<1>2. f \in [S -> S \ {0}]
  OBVIOUS
<1>3. 0 \in S
  OBVIOUS
<1>4. /\ IsFiniteSet(S \ {0}) /\ Cardinality(S \ {0}) = Cardinality(S) - 1
      /\ Cardinality(S) \in Nat
  <2> HIDE DEF S
  <2> QED
    BY <1>1, <1>3, FS_RemoveElement, FS_CardinalityType
<1>5. \E x, y \in S : x # y /\ f[x] = f[y]
  <2>1. Cardinality(S \ {0}) < Cardinality(S)
    BY <1>4
  <2> HIDE DEF S, f
  <2> QED
    BY <1>1, <1>2, <1>4, <2>1, FS_PigeonHole
<1> QED
  BY <1>5

\* What the provers do not know of powers.
PowersDouble == \A n \in Nat : 2 ^ n \in Nat \ {0} /\ 2 ^ (n + 1) = 2 * 2 ^ n

\* The waits of the attempts grow, so the last one is the longest.
LEMMA BackoffGrows ==
  ASSUME PowersDouble, NEW n \in 1..MaxAttempts
  PROVE  Backoff(n) \in Nat /\ Backoff(n) <= LongestWait
<1>1. MaxAttempts \in Nat \ {0} /\ AckTimeout \in Nat
  BY ClientAssumption
<1> DEFINE T == {k \in Nat : \A i \in Nat : 2 ^ i <= 2 ^ (i + k)}
<1>2. 0 \in T
  <2>1. \A i \in Nat : i + 0 = i /\ 2 ^ i \in Nat
    BY DEF PowersDouble
  <2> QED
    BY <2>1
<1>3. ASSUME NEW k \in T
      PROVE  k + 1 \in T
  <2>1. SUFFICES ASSUME NEW i \in Nat
                 PROVE  2 ^ i <= 2 ^ (i + (k + 1))
    OBVIOUS
  <2>2. /\ 2 ^ i \in Nat /\ i + k \in Nat /\ i + (k + 1) = (i + k) + 1
        /\ 2 ^ i <= 2 ^ (i + k)
    BY DEF PowersDouble
  <2>3. 2 ^ (i + k) \in Nat /\ 2 ^ ((i + k) + 1) = 2 * 2 ^ (i + k)
    BY <2>2 DEF PowersDouble
  <2> QED
    BY <2>2, <2>3
<1>4. T = Nat
  BY <1>2, <1>3, SetInduction
<1>5. n - 1 \in Nat /\ MaxAttempts - n \in Nat /\ (n - 1) + (MaxAttempts - n) = MaxAttempts - 1
  BY <1>1
<1>6. 2 ^ (n - 1) <= 2 ^ (MaxAttempts - 1)
  BY <1>4, <1>5
<1>7. 2 ^ (n - 1) \in Nat /\ 2 ^ (MaxAttempts - 1) \in Nat
  BY <1>1, <1>5 DEF PowersDouble
<1>8. \A a, b \in Nat : a <= b => AckTimeout * a <= AckTimeout * b
  BY <1>1
<1>9. \A a \in Nat : AckTimeout * a \in Nat
  BY <1>1
<1> QED
  BY <1>6, <1>7, <1>8, <1>9 DEF Backoff, LongestWait

\* Types of the client, with the bound on its timers: no call waits longer than its
\* last attempt would (ClientTypeOK).
THEOREM ClientTypeCorrect ==
  ASSUME PowersDouble
  PROVE  ClientSpec => []ClientTypeOK
<1> DEFINE Bounded == \A c \in Callers : timer[c] <= LongestWait
<1>1. LongestWait \in Nat
  BY ClientAssumption, BackoffGrows DEF Backoff, LongestWait
<1>2. ClientInit => Bounded
  BY <1>1 DEF ClientInit
<1>3. IInv /\ Bounded /\ [ClientNext]_vars => Bounded'
  <2> SUFFICES ASSUME IInv, Bounded, [ClientNext]_vars, NEW c \in Callers
               PROVE  timer'[c] <= LongestWait
    OBVIOUS
  <2>1. TypeInv /\ CallsOK /\ timer[c] \in Nat /\ timer[c] <= LongestWait
    BY DEF IInv, TypeInv
  <2>2. CASE timer'[c] \in {0, timer[c], Later(timer[c])}
    BY <1>1, <2>1, <2>2 DEF Later
  <2>3. CASE StartWait(c)
    <3>1. attempt[c] \in 1..MaxAttempts /\ left[c] \in Int
      BY <2>1, <2>3, ClientAssumption
         DEF TypeInv, CallsOK, CallOK, StartWait, InCall
    <3>2. Backoff(attempt[c]) \in Nat /\ Backoff(attempt[c]) <= LongestWait
      BY <3>1, BackoffGrows
    <3>3. WaitTime(c) <= LongestWait
      <4> HIDE DEF Backoff, LongestWait
      <4> QED
        BY <1>1, <3>1, <3>2 DEF WaitTime
    <3>4. timer'[c] = WaitTime(c)
      BY <2>1, <2>3 DEF StartWait, TypeInv
    <3> QED
      BY <3>3, <3>4
  <2>4. CASE UNCHANGED vars
    BY <2>2, <2>4 DEF vars, callVars
  <2>5. ASSUME NEW d \in Callers, NEW op \in Operations,
               Begin(d, op) \/ \E leaves \in BOOLEAN : SendOnce(d, op, leaves)
        PROVE  timer'[c] \in {0, timer[c]}
    <3>1. timer' = timer \/ timer' = [timer EXCEPT ![d] = 0]
      BY <2>5 DEF Begin, SendOnce, callVars
    <3> QED
      BY <2>1, <3>1 DEF TypeInv
  <2>6. ASSUME NEW d \in Callers, Continue(d)
        PROVE  timer'[c] \in {0, timer[c]} \/ StartWait(d)
    <3>1. timer' = timer \/ timer' = [timer EXCEPT ![d] = 0] \/ StartWait(d)
      BY <2>6 DEF Continue, ExpireAttempt, Transmit, TransmitRaises, NoTimeToWait,
         Woken, ClearEvent, WaitTimesOut, Finish
    <3> QED
      BY <2>1, <3>1 DEF TypeInv
  <2>7. ASSUME NEW d \in Callers, d # c, StartWait(d)
        PROVE  timer'[c] = timer[c]
    BY <2>1, <2>7 DEF StartWait, TypeInv
  <2>8. CASE \/ \E r \in InTransit : Receive(r)
             \/ HandOver \/ CloseSocket \/ WakePending
    BY <2>2, <2>8 DEF Receive, HandOver, CloseSocket, WakePending, callVars
  <2>9. CASE Tick
    BY <2>2, <2>9 DEF Tick
  <2> QED
    BY <2>2, <2>3, <2>4, <2>5, <2>6, <2>7, <2>8, <2>9 DEF ClientNext
<1>4. IInv /\ Bounded => ClientTypeOK
  <2> SUFFICES ASSUME IInv, Bounded
               PROVE  timer \in [Callers -> 0..LongestWait]
    BY DEF IInv, TypeInv, ClientTypeOK
  <2> QED
    BY <1>1 DEF IInv, TypeInv
<1> HIDE DEF Bounded
<1> QED
  BY <1>2, <1>3, <1>4, Invariance, PTL DEF ClientSpec
=============================================================================
