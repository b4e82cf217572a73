-------------------------- MODULE DartSystemProofs --------------------------
(***************************************************************************)
(* Proofs about the client and the server together: what send_critical     *)
(* reports is true (the refinement of AlertDelivery), a registered client  *)
(* stays registered, and what is refused is late.  The invariants of the   *)
(* server (DartServerProofs) and of the client (DartClientProofs) hold     *)
(* here too, since each side takes the steps of its own module; SystemInv  *)
(* adds what links them through the network.                               *)
(***************************************************************************)
EXTENDS DartSystem, DartServerProofs

\* The history of DartClientHistory is not needed here.
ClientP == INSTANCE DartClientProofs WITH
             stage <- callStage, Strays <- {}, granted <- {}, early <- None

\* The identity of request q, and whether the server has committed it.
KeyOf(q) == <<q.session, Sensor, q.type, q.sequence>>
Committed(q) == lastCommit[KeyOf(q)] # Never

\* A request bears a stamp from the moment it is built.  It belongs to an
\* operation, asks for an ACK if that is reliable, and unless it registers it names
\* a session that the server has given.
Made(q) ==
  /\ q.sequence \in DOMAIN stamp
  /\ \E op \in Operations :
       op.type = q.type /\ op.ttl = q.ttl /\ op.reliable = q.ack
  /\ IF q.type = "REGISTER_REQ" THEN q.session = 0
     ELSE \E s \in sessions : s.id = q.session
RequestsMade ==
  /\ \A q \in wire : Made(q)
  /\ \A c \in Callers : Client!InCall(c) => Made(request[c])

\* A number that has a stamp comes before the next one to be used.
Stamped ==
  \A n \in DOMAIN stamp :
    n \in Sequences1 /\ stamp[n] \in 0..now /\ ClientP!Rank(n) < issued

\* A worker handles a request that has left the client.
Serves(w) ==
  /\ job[w] # NoPacket => \E q \in wire : job[w] = Datagram(q)
  /\ stage[w] \in {"dispatched", "reply"} =>
       HasTypedResponse(job[w]) \/ status[w] \in {"ACCEPTED", "DUPLICATE"}
  /\ stage[w] = "reply" => job[w].ack
  /\ call[w] = "expired" => DeadlineReached(job[w])
WorkersServe == \A w \in Workers : Serves(w)

\* All sessions are the client's, so there is one at most.
SessionsMine ==
  /\ \A s \in sessions : s.sensor = Sensor /\ s.address = Address
                         /\ s.identity = Identity
  /\ session # 0 => \E s \in sessions : s.id = session

\* No request was committed before it was built.
CommitsLater ==
  \A k \in Keys :
    lastCommit[k] # Never => k[4] \in DOMAIN stamp /\ stamp[k[4]] <= lastCommit[k]

\* What is on the downlink answers a request on the wire, and what it says of
\* sessions, commits and deadlines is so.
Grounded(q, r) ==
  /\ r \in Client!AnswersTo(q)
  /\ r.type = "REGISTER_RES" => \E s \in sessions : s.id = r.session
  /\ r.type = "ACK" /\ r.status # "EXPIRED" => Committed(q)
  /\ r.status = "EXPIRED" => now >= DeadlineOf(q)
AnswersGrounded == \A r \in downlink : \E q \in wire : Grounded(q, r)
Delivered ==
  /\ held \in downlink \cup {None}
  /\ \A c \in Callers : slot[c] \in downlink \cup {None}
                        /\ response[c] \in downlink \cup {None}

\* The result of a call is for its number alone; an alert that has left the
\* client has a call or a result, which is not that it was dropped; a success is
\* of a processed alert.
Reported ==
  /\ DOMAIN result \subseteq DOMAIN stamp
  /\ \A n \in DOMAIN result :
       /\ result[n] \in {"success", "failure", "sent", "dropped"}
       /\ result[n] = "success" => n \in ProcessedAlerts
  /\ \A c \in Callers : Client!InCall(c) => request[c].sequence \notin DOMAIN result
  /\ \A q \in wire :
       q.type = "CRITICAL_ALERT" =>
         IF q.sequence \in DOMAIN result THEN result[q.sequence] # "dropped"
         ELSE \E c \in Callers : Client!InCall(c) /\ request[c] = q

\* The inductive invariant.
Links ==
  /\ phase = "open" /\ now <= MaxTime
  /\ RequestsMade /\ Stamped /\ WorkersServe /\ SessionsMine /\ CommitsLater
  /\ AnswersGrounded /\ Delivered /\ Reported
SystemInv == ServerIInv /\ ClientP!IInv /\ Links

-----------------------------------------------------------------------------
(* The sides *)

LEMMA ClientConstants ==
  /\ AckTimeout \in Nat \ {0} /\ MaxAttempts \in Nat \ {0}
  /\ FirstNumber \in 1..(Modulus - 2) /\ MaxCalls \in Nat /\ MaxCalls < Modulus
  /\ SessionIds \subseteq Nat \ {0} /\ Modulus \in Nat /\ Modulus >= 4
<1>1. Modulus \in Nat /\ Modulus >= 4
  BY HalfAssumption DEF Modulus
<1> QED
  BY <1>1, SystemAssumption, RequestsAssumption

\* So the assumption of the client's module holds of the client here.
LEMMA ClientAssumed ==
  /\ \A op \in Operations :
       /\ op.type \in ClientP!RequestTypes /\ op.ttl \in Nat
       /\ op.reliable \in BOOLEAN
       /\ op.type \in {"REGISTER_REQ", "CONFIG_REQ", "HEARTBEAT"} => op.reliable
  /\ None \notin ClientP!Responses /\ {} \subseteq ClientP!Responses
  /\ \A r \in {} : r.type = "REGISTER_RES" => r.session \in SessionIds
  /\ FirstNumber \in 1..(ClientP!Modulus - 2) /\ MaxCalls < ClientP!Modulus
<1>1. \A op \in Operations :
        /\ op.type \in ClientP!RequestTypes /\ op.ttl \in Nat
        /\ op.reliable \in BOOLEAN
        /\ op.type \in {"REGISTER_REQ", "CONFIG_REQ", "HEARTBEAT"} => op.reliable
  BY SystemAssumption DEF RequestTypes, ClientP!RequestTypes
<1>2. None \notin ClientP!Responses
  BY SystemAssumption DEF Client!Responses, ClientP!Responses, Client!Statuses,
     ClientP!Statuses, Client!Sequences1, ClientP!Sequences1, Client!Modulus,
     ClientP!Modulus
<1> QED
  BY <1>1, <1>2, ClientConstants DEF Modulus, ClientP!Modulus

\* The client keeps the invariant of its own module, in every step it takes there.
LEMMA ClientKeeps ==
  ASSUME ClientP!IInv, [ClientP!ClientNext]_(ClientP!vars)
  PROVE  ClientP!IInv'
BY ClientAssumed, ClientConstants, HalfAssumption, ClientP!NextIInv

LEMMA ClientStarts ==
  ASSUME Client!ClientInit
  PROVE  ClientP!IInv
<1>1. ClientP!ClientInit
  BY DEF Client!ClientInit, ClientP!ClientInit
<1> QED
  BY <1>1, ClientAssumed, ClientConstants, HalfAssumption, ClientP!InitIInv

\* What the client's invariant says of calls and numbers.
LEMMA ClientFacts ==
  ASSUME ClientP!IInv
  PROVE  /\ sequence \in Sequences1 /\ issued \in 0..MaxCalls
         /\ wire \subseteq Client!Requests /\ session \in SessionIds \cup {0}
         /\ None \notin Client!Responses /\ held \in Client!Responses \cup {None}
         /\ request \in [Callers -> Client!Requests \cup {None}]
         /\ callStage \in [Callers -> Client!Stages]
         /\ slot \in [Callers -> Client!Responses \cup {None}]
         /\ response \in [Callers -> Client!Responses \cup {None}]
         /\ \A c \in Callers : Client!InCall(c) => request[c] \in Client!Requests
<1> USE DEF ClientP!IInv, ClientP!TypeInv
<1>1. Client!Sequences1 = Sequences1 /\ ClientP!Sequences1 = Sequences1
  BY DEF Sequences1, Client!Sequences1, ClientP!Sequences1, Modulus,
     Client!Modulus, ClientP!Modulus
<1>2. Client!Responses = ClientP!Responses
  BY <1>1 DEF Client!Responses, ClientP!Responses, Client!Statuses, ClientP!Statuses
<1>3. Client!Requests = ClientP!Requests
  BY <1>1 DEF Client!Requests, ClientP!Requests, Client!RequestTypes,
     ClientP!RequestTypes
<1>4. \A c \in Callers : Client!InCall(c) => request[c] \in Client!Requests
  BY <1>3 DEF ClientP!CallsOK, ClientP!CallOK, Client!InCall, ClientP!InCall
<1>5. Client!Stages = ClientP!Stages
  BY DEF Client!Stages, ClientP!Stages
<1> QED
  BY <1>1, <1>2, <1>3, <1>4, <1>5, SystemAssumption

LEMMA CallsDistinct ==
  ASSUME ClientP!IInv
  PROVE  /\ \A c, d \in Callers :
              Client!InCall(c) /\ Client!InCall(d)
              /\ request[c].sequence = request[d].sequence => c = d
         /\ \A q \in wire, c \in Callers :
              Client!InCall(c) /\ q.sequence = request[c].sequence
                => q = request[c]
         /\ \A c \in Callers :
              response[c] # None =>
                Client!InCall(c) /\ response[c].sequence = request[c].sequence
BY DEF ClientP!IInv, ClientP!OneCallPerNumber, ClientP!NumbersUsed,
   ClientP!CallsOK, ClientP!CallOK, Client!InCall, ClientP!InCall

\* The number of the next request has not been used.
LEMMA NextIsFresh ==
  ASSUME SystemInv, issued < MaxCalls
  PROVE  sequence \notin DOMAIN stamp /\ ClientP!Rank(sequence) = issued
<1>1. ClientP!Rank(sequence) = issued
  <2>1. ClientP!NumbersUsed
    BY DEF SystemInv, ClientP!IInv
  <2>2. issued < Modulus - 1
    BY ClientConstants, ClientFacts DEF SystemInv
  <2> QED
    BY <2>1, <2>2 DEF ClientP!NumbersUsed, ClientP!Modulus, Modulus
<1> QED
  BY <1>1, ClientFacts, ClientConstants DEF SystemInv, Links, Stamped

\* A request on the wire is a datagram the server may be handed, and unless it is
\* a registration its session is valid.
LEMMA WireIsPacket ==
  ASSUME SystemInv, NEW q \in wire
  PROVE  /\ Datagram(q) \in Packets
         /\ q.type # "REGISTER_REQ" => ValidSession(Datagram(q))
<1>1. q \in Client!Requests /\ Made(q) /\ issued \in 0..MaxCalls
  BY ClientFacts DEF SystemInv, Links, RequestsMade
<1>2. PICK op \in Operations :
        op.type = q.type /\ op.ttl = q.ttl /\ op.reliable = q.ack
  BY <1>1 DEF Made
<1>3. q.session \in SessionsFor(op)
  BY <1>1, <1>2 DEF Made, SessionsFor, SystemInv, ServerIInv, ServerTypeOK, Sessions
<1>4. stamp[q.sequence] \in 0..MaxTime
  <2>1. stamp[q.sequence] \in 0..now /\ now <= MaxTime
    BY <1>1 DEF Made, SystemInv, Links, Stamped
  <2>2. now \in Nat
    BY DEF SystemInv, ServerIInv, IInv, TypeOK
  <2> QED
    BY <2>1, <2>2, MaxTimeAssumption
<1>5. q.sequence \in UsedNumbers
  <2>1. q.sequence \in Sequences1 /\ ClientP!Rank(q.sequence) < issued
    BY <1>1 DEF Made, SystemInv, Links, Stamped
  <2>2. /\ q.sequence \in Nat /\ FirstNumber \in Nat /\ Modulus \in Nat
        /\ MaxCalls \in Nat
    BY <2>1, ClientConstants DEF Sequences1
  <2> QED
    BY <1>1, <2>1, <2>2 DEF UsedNumbers, ClientP!Rank, ClientP!Modulus, Modulus
<1>6. Datagram(q) \in ClientDatagrams
  <2> DEFINE d(s, n, t) == DatagramAt([type |-> op.type, session |-> s,
                                       sequence |-> n, ttl |-> op.ttl,
                                       ack |-> op.reliable], t)
  <2>1. Datagram(q) = d(q.session, q.sequence, stamp[q.sequence])
    BY <1>2 DEF Datagram, DatagramAt
  <2>2. DatagramsOf(op) = {d(s, n, t) : s \in SessionsFor(op),
                             n \in UsedNumbers, t \in 0..MaxTime}
    BY DEF DatagramsOf
  <2> HIDE DEF d
  <2>3. Datagram(q) \in DatagramsOf(op)
    BY <1>3, <1>4, <1>5, <2>1, <2>2
  <2> QED
    BY <2>3 DEF ClientDatagrams
<1>7. q.type # "REGISTER_REQ" => ValidSession(Datagram(q))
  BY <1>1 DEF Made, SystemInv, Links, SessionsMine, ValidSession, Datagram, DatagramAt
<1> QED
  BY <1>6, <1>7, SystemAssumption

-----------------------------------------------------------------------------
(* What the server sends *)

\* A step of a worker: with a datagram that arrives, or with its own.
WorkerStep ==
  \E w \in Workers :
    (\E q \in wire : Receive(w, Datagram(q))) \/ Work(w) \/ DispatchFails(w)
ServerStep == WorkerStep /\ ServerSends

LEMMA ServerStepKeeps ==
  ASSUME SystemInv, WorkerStep
  PROVE  ServerIInv' /\ HistoryKept /\ now' = now
<1>1. ServerNext
  BY WireIsPacket DEF WorkerStep, ServerNext
<1>2. ASSUME NEW w \in Workers, NEW p, Receive(w, p)
      PROVE  now' = now
  BY <1>2 DEF Receive, Stay, RejectEnvelope, RejectSession, RejectExpired,
     RejectPayload, AcceptRegister, Accept, Submit, vars
<1>3. ASSUME NEW w \in Workers, Work(w) \/ DispatchFails(w)
      PROVE  now' = now
  BY <1>3 DEF Work, RegisterLate, RegisterInvalid, RegisterAgain, RegisterNew,
     ClaimStep, ReplyExpired, ReplyDuplicate, Dispatch, DispatchFails, FinishOk,
     FinishFailed, SendReply, FinishMessage, Return, Claim, ClaimDuplicate,
     ClaimNew, ClaimExpired, ClaimWait, Answer, WaitTimeout, vars
<1> QED
  BY <1>1, <1>2, <1>3, NextServerIInv, HistoryGrows
     DEF SystemInv, ServerIInv, WorkerStep

\* An answer to datagram p, whose status is as the client reads it.
IsAnswer(p, r) ==
  /\ r.sequence = p.sequence /\ r.request = p.type /\ r.sensor = p.sensor
  /\ r.type # "REGISTER_RES" => r.session = p.session
  /\ r.status # "UNREGISTERED"
  /\ r.type = "ACK" => r.status \in {"ACCEPTED", "DUPLICATE", "EXPIRED"} /\ p.ack
  /\ r.type = "ACK" /\ r.status = "EXPIRED" => DeadlineReached(p)
  /\ r.type = "REGISTER_RES" => r.status = "REGISTERED"
  /\ r.type \in {"CONFIG_RES", "HEARTBEAT_ACK"} => r.status = "OK"
Answered(p) == \A r \in sent' : IsAnswer(p, r)

LEMMA ErrorAnswers ==
  ASSUME NEW p, NEW stat, stat # "UNREGISTERED", SendError(p, stat)
  PROVE  Answered(p)
BY DEF SendError, Send, Reply, Answered, IsAnswer

LEMMA AckAnswers ==
  ASSUME NEW p, NEW stat \in {"ACCEPTED", "DUPLICATE", "EXPIRED"},
         stat = "EXPIRED" => DeadlineReached(p), p.ack, SendAck(p, stat)
  PROVE  Answered(p)
BY DEF SendAck, Send, Reply, Answered, IsAnswer

LEMMA TypedAnswers ==
  ASSUME NEW p, Send(TypedResponse(p))
  PROVE  Answered(p)
BY DEF Send, TypedResponse, Reply, Answered, IsAnswer

LEMMA RegisteredAnswers ==
  ASSUME NEW p, NEW s, Send(Registered(p, s))
  PROVE  Answered(p)
BY DEF Send, Registered, Reply, Answered, IsAnswer

LEMMA NothingAnswers ==
  ASSUME NEW p, SendNothing
  PROVE  Answered(p)
BY DEF SendNothing, Answered

LEMMA ExpiredAnswers ==
  ASSUME NEW p, DeadlineReached(p), SendExpired(p)
  PROVE  Answered(p)
BY ErrorAnswers, AckAnswers, NothingAnswers DEF SendExpired

\* Past the deadline, the deadline has been reached.
LEMMA ExpiredReached ==
  ASSUME SystemInv, NEW p \in Packets, IsExpired(p)
  PROVE  DeadlineReached(p)
BY PacketsAssumption
   DEF IsExpired, DeadlineReached, Deadline, SystemInv, ServerIInv, IInv, TypeOK

LEMMA ArrivalAnswered ==
  ASSUME SystemInv, NEW w \in Workers, NEW p \in Packets, Receive(w, p),
         p.type # "REGISTER_REQ" => ValidSession(p)
  PROVE  Answered(p)
<1>1. CASE RejectEnvelope(w, p) \/ RejectPayload(w, p)
  BY <1>1, ErrorAnswers DEF RejectEnvelope, RejectPayload
<1>2. CASE RejectSession(w, p)
  BY <1>2 DEF RejectSession
<1>3. CASE RejectExpired(w, p)
  BY <1>3, ExpiredReached, ExpiredAnswers DEF RejectExpired
<1>4. CASE AcceptRegister(w, p) \/ Accept(w, p)
  BY <1>4, NothingAnswers DEF AcceptRegister, Accept, Enter
<1> QED
  BY <1>1, <1>2, <1>3, <1>4 DEF Receive

LEMMA WorkAnswered ==
  ASSUME SystemInv, NEW w \in Workers, Work(w) \/ DispatchFails(w)
  PROVE  Answered(job[w])
<1> USE DEF Answered
<1>1. CASE \/ RegisterLate(w) \/ ClaimStep(w) \/ FinishOk(w) \/ FinishFailed(w)
  BY <1>1 DEF RegisterLate, ClaimStep, ServerStays, FinishOk, FinishFailed, SendNothing
<1>2. CASE RegisterInvalid(w)
  BY <1>2, ErrorAnswers DEF RegisterInvalid
<1>3. CASE RegisterAgain(w) \/ RegisterNew(w)
  BY <1>3, RegisteredAnswers DEF RegisterAgain, RegisterNew
<1>4. CASE ReplyExpired(w)
  BY <1>4, ExpiredAnswers DEF ReplyExpired, SystemInv, Links, WorkersServe,
     Serves
<1>5. CASE ReplyDuplicate(w)
  BY <1>5, TypedAnswers, AckAnswers, NothingAnswers DEF ReplyDuplicate
<1>6. CASE Dispatch(w) \/ DispatchFails(w)
  BY <1>6, TypedAnswers, NothingAnswers DEF Dispatch, DispatchFails, Effect
<1>7. CASE SendReply(w)
  <2>1. CASE stage[w] = "reply" /\ SendAck(job[w], status[w])
    <3>1. status[w] \in {"ACCEPTED", "DUPLICATE"}
      BY <2>1 DEF SystemInv, ServerIInv, WorkersInv, AnswerIsCommitted, Links,
         WorkersServe, Serves
    <3>2. job[w].ack
      BY <2>1 DEF SystemInv, Links, WorkersServe, Serves
    <3> QED
      BY <2>1, <3>1, <3>2, AckAnswers
  <2>2. CASE SendError(job[w], "INTERNAL_ERROR")
    BY <2>2, ErrorAnswers
  <2> QED
    BY <1>7, <2>1, <2>2 DEF SendReply
<1> QED
  BY <1>1, <1>2, <1>3, <1>4, <1>5, <1>6, <1>7 DEF Work

-----------------------------------------------------------------------------
(* What the server keeps *)

\* A step of w leaves the other workers where they are, or wakes them.
LEMMA OthersServe ==
  ASSUME SystemInv, NEW w \in Workers, NEW v \in Workers, v # w,
         (\E p \in Packets : Receive(w, p)) \/ Work(w) \/ DispatchFails(w)
  PROVE  /\ stage'[v] = stage[v] /\ job'[v] = job[v] /\ status'[v] = status[v]
         /\ call'[v] = "expired" => call[v] = "expired"
<1>1. ServerTypeOK /\ TypeOK
  BY DEF SystemInv, ServerIInv, IInv
<1>2. ASSUME NEW p, Receive(w, p)
      PROVE  /\ stage'[v] = stage[v] /\ job'[v] = job[v] /\ status'[v] = status[v]
             /\ call'[v] = call[v]
  BY <1>1, <1>2 DEF Receive, Stay, Enter, RejectEnvelope, RejectSession,
     RejectExpired, RejectPayload, AcceptRegister, Accept, Submit, workerVars, vars,
     ServerTypeOK, TypeOK
<1>3. ASSUME Work(w) \/ DispatchFails(w)
      PROVE  stage'[v] = stage[v] /\ job'[v] = job[v] /\ status'[v] = status[v]
  BY <1>1, <1>3 DEF Work, RegisterLate, RegisterInvalid, RegisterAgain, RegisterNew,
     ClaimStep, ReplyExpired, ReplyDuplicate, Dispatch, DispatchFails, FinishOk,
     FinishFailed, SendReply, Go, ServerStays, workerVars, ServerTypeOK
<1>4. ASSUME Work(w) \/ DispatchFails(w), call'[v] = "expired"
      PROVE  call[v] = "expired"
  <2>1. CASE \E success \in BOOLEAN : FinishMessage(w, success)
    BY <1>1, <1>4, <2>1 DEF FinishMessage, NotifyAll, TypeOK
  <2>2. CASE Claim(w) \/ WaitTimeout(w) \/ Return(w) \/ UNCHANGED call
    BY <1>1, <1>4, <2>2 DEF Claim, ClaimDuplicate, ClaimNew, ClaimExpired, ClaimWait,
       Answer, WaitTimeout, Return, TypeOK
  <2> QED
    BY <1>4, <2>1, <2>2 DEF Work, RegisterLate, RegisterInvalid, RegisterAgain,
       RegisterNew, ClaimStep, ReplyExpired, ReplyDuplicate, Dispatch, DispatchFails,
       FinishOk, FinishFailed, SendReply, vars
<1> QED
  BY <1>2, <1>3, <1>4

LEMMA OwnServes ==
  ASSUME SystemInv, NEW w \in Workers, ServerSends, now' = now,
         (\E q \in wire : Receive(w, Datagram(q))) \/ Work(w) \/ DispatchFails(w)
  PROVE  Serves(w)'
<1>1. ServerTypeOK /\ TypeOK /\ StageMatchesCall(w) /\ Serves(w)
  BY DEF SystemInv, ServerIInv, IInv, WorkersInv, Links, WorkersServe
<1>2. UNCHANGED <<wire, stamp>>
  BY DEF ServerSends, localVars
<1> USE DEF Serves, Datagram, DeadlineReached, HasTypedResponse
<1>3. ASSUME NEW q \in wire, Receive(w, Datagram(q))
      PROVE  Serves(w)'
  <2>1. CASE Stay(w)
    BY <1>1, <1>2, <2>1 DEF Stay, vars, workerVars
  <2>2. CASE AcceptRegister(w, Datagram(q))
    BY <1>1, <1>2, <2>2 DEF AcceptRegister, Enter, vars, ServerTypeOK,
       StageMatchesCall, InCache
  <2>3. CASE Accept(w, Datagram(q))
    BY <1>1, <1>2, <2>3 DEF Accept, Enter, Submit, ServerTypeOK, TypeOK
  <2> QED
    BY <1>3, <2>1, <2>2, <2>3 DEF Receive, RejectEnvelope, RejectSession,
       RejectExpired, RejectPayload
<1>4. ASSUME Go(w, "free"), call'[w] = "idle"
      PROVE  Serves(w)'
  BY <1>1, <1>4 DEF Go, ServerTypeOK
<1>5. CASE \/ RegisterLate(w) \/ RegisterInvalid(w) \/ RegisterAgain(w)
           \/ RegisterNew(w) \/ SendReply(w)
  <2>1. call'[w] = "idle" /\ Go(w, "free")
    BY <1>1, <1>5 DEF RegisterLate, RegisterInvalid, RegisterAgain, RegisterNew,
       SendReply, vars, StageMatchesCall, InCache
  <2> QED
    BY <1>4, <2>1
<1>6. CASE ReplyExpired(w) \/ ReplyDuplicate(w)
  <2>1. call'[w] = "idle" /\ Go(w, "free")
    BY <1>1, <1>6 DEF ReplyExpired, ReplyDuplicate, Return, TypeOK
  <2> QED
    BY <1>4, <2>1
<1>7. CASE ClaimStep(w)
  <2>1. UNCHANGED <<stage, job, status>> /\ stage[w] = "claiming"
    BY <1>1, <1>7 DEF ClaimStep, ServerStays, workerVars, StageMatchesCall, InCache,
       Claim, ClaimDuplicate, ClaimNew, ClaimExpired, ClaimBlocked, ClaimWait,
       WaitTimeout, Claiming
  <2>2. call'[w] = "expired" => DeadlineReached(packet[w])
    BY <1>1, <1>7 DEF ClaimStep, Claim, ClaimDuplicate, ClaimNew, ClaimExpired,
       ClaimWait, WaitTimeout, Answer, TypeOK
  <2>3. packet[w] = job[w]
    BY <1>1, <2>1 DEF StageMatchesCall, InCache
  <2> QED
    BY <1>1, <1>2, <2>1, <2>2, <2>3
<1>8. CASE Dispatch(w)
  BY <1>1, <1>2, <1>8 DEF Dispatch, ResultOf, vars, ServerTypeOK
<1>9. CASE DispatchFails(w)
  BY <1>1, <1>2, <1>9 DEF DispatchFails, Go, vars, ServerTypeOK
<1>10. CASE FinishOk(w) \/ FinishFailed(w)
  <2>1. call'[w] = "idle"
    BY <1>1, <1>10 DEF FinishOk, FinishFailed, FinishMessage, NotifyAll, TypeOK
  <2>2. CASE FinishFailed(w)
    BY <1>1, <1>2, <2>1, <2>2 DEF FinishFailed, Go, ServerTypeOK
  <2>3. CASE FinishOk(w) /\ Go(w, "reply")
    BY <1>1, <1>2, <2>1, <2>3 DEF FinishOk, Go, ServerTypeOK
  <2> QED
    BY <1>4, <1>10, <2>1, <2>2, <2>3 DEF FinishOk
<1> QED
  BY <1>3, <1>5, <1>6, <1>7, <1>8, <1>9, <1>10 DEF Work

\* Whoever works handles a request that has left the client.
LEMMA WorksOnRequest ==
  ASSUME SystemInv, NEW w \in Workers, Work(w) \/ DispatchFails(w)
  PROVE  job[w] \in Packets /\ \E q \in wire : job[w] = Datagram(q)
<1>1. StageMatchesCall(w) /\ ServerTypeOK
  BY DEF SystemInv, ServerIInv, WorkersInv
<1>2. stage[w] # "free"
  BY <1>1 DEF Work, RegisterLate, RegisterInvalid, RegisterAgain, RegisterNew,
     ClaimStep, ReplyExpired, ReplyDuplicate, Dispatch, DispatchFails, FinishOk,
     FinishFailed, SendReply, Claim, ClaimDuplicate, ClaimNew, ClaimExpired,
     ClaimWait, ClaimBlocked, WaitTimeout, Claiming, StageMatchesCall, InCache
<1>3. job[w] # NoPacket /\ job[w] \in Packets
  BY <1>1, <1>2 DEF ServerTypeOK
<1> QED
  BY <1>3 DEF SystemInv, Links, WorkersServe, Serves

\* A new session is the client's.
LEMMA SessionsKept ==
  ASSUME SystemInv, ServerStep
  PROVE  SessionsMine'
<1>1. HistoryKept /\ session' = session /\ SessionsMine
  BY ServerStepKeeps DEF ServerStep, ServerSends, localVars, SystemInv, Links
<1>2. ASSUME NEW w \in Workers, RegisterNew(w), NEW s \in sessions' \ sessions
      PROVE  s.sensor = Sensor /\ s.address = Address /\ s.identity = Identity
  <2>1. \E q \in wire : job[w] = Datagram(q)
    BY <1>2, WorksOnRequest DEF Work
  <2>2. s.sensor = job[w].sensor /\ s.address = job[w].address
        /\ s.identity = job[w].identity
    BY <1>2 DEF RegisterNew
  <2> QED
    BY <2>1, <2>2 DEF Datagram, DatagramAt
<1>3. sessions' = sessions \/ \E w \in Workers : RegisterNew(w)
  BY DEF ServerStep, WorkerStep, Receive, Stay, Enter, RejectEnvelope, RejectSession,
     RejectExpired, RejectPayload, AcceptRegister, Accept, Work, RegisterLate,
     RegisterInvalid, RegisterAgain, ClaimStep, ServerStays, ReplyExpired,
     ReplyDuplicate, Dispatch, DispatchFails, FinishOk, FinishFailed, SendReply,
     sharedVars
<1>4. \A s \in sessions' : s.sensor = Sensor /\ s.address = Address
                           /\ s.identity = Identity
  BY <1>1, <1>2, <1>3 DEF SessionsMine
<1> QED
  BY <1>1, <1>4 DEF SessionsMine, HistoryKept

\* A commit is made after its request was built.
LEMMA CommitsKept ==
  ASSUME SystemInv, ServerStep
  PROVE  CommitsLater'
<1>1. /\ CommitsLater /\ TypeOK /\ UNCHANGED <<stamp, now>>
  BY ServerStepKeeps DEF ServerStep, ServerSends, SystemInv, Links, ServerIInv, IInv
<1>2. ASSUME NEW w \in Workers, FinishOk(w)
      PROVE  CommitsLater'
  <2>1. PICK q \in wire : job[w] = Datagram(q)
    BY <1>2, WorksOnRequest DEF Work
  <2>2. packet[w] = job[w]
    BY <1>2 DEF FinishOk, SystemInv, ServerIInv, WorkersInv, StageMatchesCall, InCache
  <2>3. packet[w].key[4] = q.sequence
    BY <2>1, <2>2 DEF Datagram, DatagramAt
  <2>4. q.sequence \in DOMAIN stamp /\ stamp[q.sequence] \in 0..now
    BY DEF SystemInv, Links, RequestsMade, Made, Stamped
  <2>5. \A k \in Keys : lastCommit'[k] = IF k = packet[w].key THEN now ELSE lastCommit[k]
    BY <1>1, <1>2 DEF FinishOk, FinishMessage, TypeOK
  <2>6. now \in Nat
    BY <1>1 DEF TypeOK
  <2> QED
    BY <1>1, <2>3, <2>4, <2>5, <2>6 DEF CommitsLater
<1>3. CASE lastCommit' = lastCommit
  BY <1>1, <1>3 DEF CommitsLater
<1>4. lastCommit' = lastCommit \/ \E w \in Workers : FinishOk(w)
  BY DEF ServerStep, WorkerStep, Receive, Stay, RejectEnvelope, RejectSession,
     RejectExpired, RejectPayload, AcceptRegister, Accept, Submit, Work, RegisterLate,
     RegisterInvalid, RegisterAgain, RegisterNew, ClaimStep, Claim, ClaimDuplicate,
     ClaimNew, ClaimExpired, ClaimWait, Answer, WaitTimeout, ReplyExpired,
     ReplyDuplicate, Return, Dispatch, DispatchFails, FinishFailed, FinishMessage,
     SendReply, vars
<1> QED
  BY <1>2, <1>3, <1>4

\* What a request is answered with is, as the client reads it, one of the answers
\* the client's specification expects.
LEMMA AnswerGrounded ==
  ASSUME SystemInv, ServerIInv', UNCHANGED <<wire, stamp, now>>,
         NEW q \in wire, NEW r \in sent', IsAnswer(Datagram(q), r)
  PROVE  Grounded(q, AsResponse(r))'
<1> DEFINE a == AsResponse(r)
<1>1. /\ r \in Replies /\ r.type \in Expected(q.type)
      /\ r.sequence = q.sequence /\ r.request = q.type /\ r.sensor = Sensor
      /\ r.type # "REGISTER_RES" => r.session = q.session
  BY DEF ServerIInv, SentInv, RepliesExpected, IsAnswer, Datagram, DatagramAt
<1>2. /\ r.type = "REGISTER_RES" => \E s \in sessions' : s.id = r.session
      /\ r.type = "ACK" /\ r.status \in {"ACCEPTED", "DUPLICATE"} =>
           lastCommit'[KeyOf(q)] # Never
  BY <1>1 DEF ServerIInv, SentInv, AnswersHaveSession, OpenedFor,
     AckMeansProcessed, ReplyKey, KeyOf
<1>3. q \in Client!Requests /\ (r.type = "ACK" => q.ack)
  BY ClientFacts DEF SystemInv, IsAnswer, Datagram, DatagramAt
<1>4. /\ a.type = r.type /\ a.session = r.session /\ a.sequence = r.sequence
      /\ a.status = IF r.type = "ERROR" THEN "ERROR" ELSE r.status
      /\ a = [type |-> a.type, status |-> a.status, session |-> a.session,
              sequence |-> a.sequence]
  BY DEF AsResponse
<1>5. r.type = "ACK" /\ r.status = "EXPIRED" => q.ttl # 0 /\ now >= DeadlineOf(q)
  BY DEF IsAnswer, DeadlineReached, Deadline, Datagram, DatagramAt, DeadlineOf
<1>6. r.type \in ReplyTypes
  BY <1>1 DEF Replies
<1>7. a \in Client!AnswersTo(q)
  <2>1. CASE r.type = "ERROR"
    BY <1>1, <1>4, <2>1 DEF Client!AnswersTo
  <2>2. CASE q.type = "REGISTER_REQ" /\ r.type = "REGISTER_RES"
    <3>1. r.session \in SessionIds
      BY <1>2, <2>2 DEF ServerIInv, ServerTypeOK, Sessions
    <3> QED
      BY <1>1, <1>4, <2>2, <3>1 DEF Client!AnswersTo, IsAnswer
  <2>3. CASE q.type \in {"CONFIG_REQ", "HEARTBEAT"} /\ r.type # "ERROR"
    BY <1>1, <1>4, <2>3 DEF Client!AnswersTo, Client!Typed, IsAnswer, Expected
  <2>4. CASE q.type \notin {"REGISTER_REQ", "CONFIG_REQ", "HEARTBEAT"}
             /\ r.type # "ERROR"
    BY <1>1, <1>3, <1>4, <1>5, <2>4 DEF Client!AnswersTo, IsAnswer, Expected
  <2> QED
    BY <1>1, <2>1, <2>2, <2>3, <2>4 DEF Expected
<1>8. /\ a.type = "REGISTER_RES" => \E s \in sessions' : s.id = a.session
      /\ a.type = "ACK" /\ a.status # "EXPIRED" => lastCommit'[KeyOf(q)] # Never
  BY <1>2, <1>4 DEF IsAnswer
<1>9. a.status = "EXPIRED" => now >= DeadlineOf(q)
  BY <1>4, <1>5, <1>6 DEF IsAnswer, ReplyTypes
<1>10. now' >= DeadlineOf(q)' <=> now >= DeadlineOf(q)
  BY DEF DeadlineOf
<1> HIDE DEF a
<1>11. Grounded(q, a)'
  BY <1>7, <1>8, <1>9, <1>10 DEF Grounded, Committed, KeyOf
<1> QED
  BY <1>11 DEF a

LEMMA KeyOfWire ==
  ASSUME SystemInv, NEW q \in wire
  PROVE  KeyOf(q) \in Keys
<1>1. Datagram(q) \in Packets /\ Datagram(q).key = KeyOf(q)
  BY WireIsPacket DEF Datagram, DatagramAt, KeyOf
<1> QED
  BY <1>1, PacketsAssumption

\* An answer that was right stays so.
LEMMA GroundedStays ==
  ASSUME SystemInv, HistoryKept, now' \in Nat, now' >= now,
         NEW q \in wire, stamp'[q.sequence] = stamp[q.sequence],
         NEW r, Grounded(q, r)
  PROVE  Grounded(q, r)'
<1>1. DeadlineOf(q)' = DeadlineOf(q) /\ DeadlineOf(q) \in Int
  <2>1. Made(q) /\ q \in Client!Requests
    BY ClientFacts DEF SystemInv, Links, RequestsMade
  <2>2. stamp[q.sequence] \in 0..now /\ q.ttl \in Nat
    BY <2>1 DEF Made, SystemInv, Links, Stamped, Client!Requests
  <2> QED
    BY <2>2 DEF DeadlineOf
<1>2. Committed(q) => Committed(q)'
  BY KeyOfWire DEF HistoryKept, Committed, KeyOf
<1>3. now \in Nat
  BY DEF SystemInv, ServerIInv, IInv, TypeOK
<1> QED
  BY <1>1, <1>2, <1>3 DEF Grounded, HistoryKept

LEMMA AnswersKept ==
  ASSUME SystemInv, HistoryKept, now' \in Nat, now' >= now, wire \subseteq wire',
         \A n \in DOMAIN stamp : stamp'[n] = stamp[n], downlink' = downlink
  PROVE  AnswersGrounded'
<1> SUFFICES ASSUME NEW r \in downlink
             PROVE  \E q \in wire' : Grounded(q, r)'
  BY DEF AnswersGrounded
<1>1. PICK q \in wire : Grounded(q, r)
  BY DEF SystemInv, Links, AnswersGrounded
<1>2. q.sequence \in DOMAIN stamp
  BY DEF SystemInv, Links, RequestsMade, Made
<1> QED
  BY <1>1, <1>2, GroundedStays

\* Every answer the server sends is right when it is sent.
LEMMA NewAnswersGrounded ==
  ASSUME SystemInv, ServerStep
  PROVE  AnswersGrounded'
<1>1. /\ ServerIInv' /\ HistoryKept /\ UNCHANGED <<now, wire, stamp>>
      /\ downlink' = downlink \cup {AsResponse(r) : r \in sent'}
  BY ServerStepKeeps DEF ServerStep, ServerSends, localVars
<1>2. ASSUME NEW r \in downlink
      PROVE  \E q \in wire : Grounded(q, r)'
  <2>1. PICK q \in wire : Grounded(q, r)
    BY DEF SystemInv, Links, AnswersGrounded
  <2>2. now' \in Nat /\ now' >= now
    BY <1>1 DEF SystemInv, ServerIInv, IInv, TypeOK
  <2> QED
    BY <1>1, <2>1, <2>2, GroundedStays
<1>3. ASSUME NEW r \in sent'
      PROVE  \E q \in wire : Grounded(q, AsResponse(r))'
  <2>1. PICK q \in wire : Answered(Datagram(q))
    <3>1. ASSUME NEW w \in Workers, NEW q \in wire, Receive(w, Datagram(q))
          PROVE  Answered(Datagram(q))
      <4>1. /\ Datagram(q) \in Packets
            /\ Datagram(q).type # "REGISTER_REQ" => ValidSession(Datagram(q))
        BY WireIsPacket DEF Datagram, DatagramAt
      <4> QED
        BY <3>1, <4>1, ArrivalAnswered
    <3>2. ASSUME NEW w \in Workers, Work(w) \/ DispatchFails(w)
          PROVE  \E q \in wire : Answered(Datagram(q))
      BY <3>2, WorkAnswered, WorksOnRequest
    <3> QED
      BY <3>1, <3>2 DEF ServerStep, WorkerStep
  <2>2. IsAnswer(Datagram(q), r)
    BY <2>1 DEF Answered
  <2> QED
    BY <1>1, <2>2, AnswerGrounded
<1> QED
  BY <1>1, <1>2, <1>3 DEF AnswersGrounded

\* What the callers have been told stays true.
LEMMA ReportsKept ==
  ASSUME SystemInv, HistoryKept,
         UNCHANGED <<callStage, request, wire, stamp, result>>
  PROVE  Reported'
<1>1. ProcessedAlerts \subseteq ProcessedAlerts'
  BY DEF ProcessedAlerts, Alerts, HistoryKept
<1>2. Reported
  BY DEF SystemInv, Links
<1> QED
  BY <1>1, <1>2 DEF Reported, Client!InCall

LEMMA RequestsKept ==
  ASSUME SystemInv, HistoryKept, UNCHANGED <<callStage, request, wire, stamp>>
  PROVE  RequestsMade'
BY DEF SystemInv, Links, RequestsMade, Made, HistoryKept, Client!InCall

LEMMA ServerKeeps ==
  ASSUME SystemInv, ServerStep
  PROVE  SystemInv'
<1>1. /\ ServerIInv' /\ HistoryKept /\ UNCHANGED <<now, localVars, stamp, result>>
      /\ downlink \subseteq downlink'
  BY ServerStepKeeps DEF ServerStep, ServerSends
<1>2. ClientP!IInv'
  <2>1. UNCHANGED ClientP!vars
    BY <1>1 DEF localVars, ClientP!vars, ClientP!clientVars, ClientP!numberVars,
       ClientP!callVars, ClientP!slotVars
  <2> QED
    BY <2>1, ClientKeeps DEF SystemInv
<1>3. UNCHANGED <<phase, session, issued, held, callStage, request, slot, response, wire>>
  BY <1>1 DEF localVars
<1>4. RequestsMade' /\ Reported'
  BY <1>1, <1>3, RequestsKept, ReportsKept
<1>5. Stamped' /\ phase' = "open" /\ now' <= MaxTime
  BY <1>1, <1>3 DEF SystemInv, Links, Stamped, ClientP!Rank
<1>6. WorkersServe'
  <2>1. PICK w \in Workers :
          (\E q \in wire : Receive(w, Datagram(q))) \/ Work(w) \/ DispatchFails(w)
    BY DEF ServerStep, WorkerStep
  <2>2. Serves(w)'
    BY <1>1, <2>1, OwnServes DEF ServerStep
  <2>3. ASSUME NEW v \in Workers, v # w
        PROVE  Serves(v)'
    <3>1. /\ stage'[v] = stage[v] /\ job'[v] = job[v] /\ status'[v] = status[v]
          /\ call'[v] = "expired" => call[v] = "expired"
      BY <2>1, <2>3, WireIsPacket, OthersServe
    <3>2. Serves(v)
      BY DEF SystemInv, Links, WorkersServe
    <3> QED
      BY <1>1, <1>3, <3>1, <3>2
         DEF Serves, Datagram, DeadlineReached, HasTypedResponse
  <2> QED
    BY <2>2, <2>3 DEF WorkersServe
<1>7. Delivered'
  BY <1>1, <1>3 DEF SystemInv, Links, Delivered
<1> QED
  BY <1>1, <1>2, <1>4, <1>5, <1>6, <1>7, SessionsKept, CommitsKept,
     NewAnswersGrounded DEF SystemInv, Links

-----------------------------------------------------------------------------
(* What the client does *)

LEMMA AwayKeeps ==
  ASSUME SystemInv, Away
  PROVE  ServerIInv' /\ HistoryKept /\ now' = now
<1>1. UNCHANGED <<vars, workerVars, sharedVars, suppressed>> /\ sent' = {}
  BY DEF Away
<1>2. IInv'
  BY <1>1, NextIInv DEF SystemInv, ServerIInv
<1>3. WorkersTyped' /\ suppressed' \subseteq SessionIds \X Sensors
  BY <1>1 DEF SystemInv, ServerIInv, ServerTypeOK, WorkersTyped, workerVars
<1>4. WorkersInv'
  BY <1>1 DEF SystemInv, ServerIInv, WorkersInv, StageMatchesCall, JobHasSession,
     AnswerIsCommitted, InCache, ValidSession, HasTypedResponse, vars, workerVars,
     sharedVars
<1>5. HistoryKept /\ now' = now /\ lastCommit' = lastCommit
  BY <1>1 DEF HistoryKept, vars, sharedVars
<1> QED
  BY <1>1, <1>2, <1>3, <1>4, <1>5, NothingIsRight, StateKeeps, Assemble
     DEF SystemInv

\* The steps of the client are those of its specification, whichever way that is
\* named.
LEMMA BeginSame ==
  ASSUME NEW c \in Callers, NEW op \in Operations, Client!Begin(c, op)
  PROVE  ClientP!ClientNext
<1>1. ClientP!Begin(c, op)
  BY DEF Client!Begin, ClientP!Begin, Client!Allowed, ClientP!Allowed,
     Client!TakeNumber, ClientP!TakeNumber, Client!Successor, ClientP!Successor,
     Client!Modulus, ClientP!Modulus, Client!PacketFor, ClientP!PacketFor,
     Client!clientVars, ClientP!clientVars
<1> QED
  BY <1>1 DEF ClientP!ClientNext

LEMMA SendOnceSame ==
  ASSUME NEW c \in Callers, NEW op \in Operations, NEW leaves \in BOOLEAN,
         Client!SendOnce(c, op, leaves)
  PROVE  ClientP!ClientNext
<1>1. ClientP!SendOnce(c, op, leaves)
  BY DEF Client!SendOnce, ClientP!SendOnce, Client!Allowed, ClientP!Allowed,
     Client!TakeNumber, ClientP!TakeNumber, Client!Successor, ClientP!Successor,
     Client!Modulus, ClientP!Modulus, Client!PacketFor, ClientP!PacketFor,
     Client!SendTo, ClientP!SendTo, Client!SocketOpen, ClientP!SocketOpen,
     Client!clientVars, ClientP!clientVars, Client!callVars, ClientP!callVars,
     Client!slotVars, ClientP!slotVars
<1> QED
  BY <1>1 DEF ClientP!ClientNext

LEMMA ContinueSame ==
  ASSUME NEW c \in Callers, Client!Continue(c)
  PROVE  ClientP!ClientNext
<1> USE DEF Client!Goto, ClientP!Goto, Client!Stay, ClientP!Stay,
        Client!clientVars, ClientP!clientVars, Client!numberVars,
        ClientP!numberVars, Client!slotVars, ClientP!slotVars,
        Client!Expired, ClientP!Expired, Client!SocketOpen, ClientP!SocketOpen,
        Client!Forget, ClientP!Forget, Client!NextAttempt, ClientP!NextAttempt,
        Client!WaitTime, ClientP!WaitTime, Client!Backoff, ClientP!Backoff,
        Client!ExpectedTypes, ClientP!ExpectedTypes, Client!Typed, ClientP!Typed
<1>1. Client!ExpireAttempt(c) => ClientP!ExpireAttempt(c)
  BY DEF Client!ExpireAttempt, ClientP!ExpireAttempt
<1>2. Client!Transmit(c) => ClientP!Transmit(c)
  BY DEF Client!Transmit, ClientP!Transmit, Client!SendTo, ClientP!SendTo
<1>3. Client!TransmitRaises(c) => ClientP!TransmitRaises(c)
  BY DEF Client!TransmitRaises, ClientP!TransmitRaises
<1>4. Client!StartWait(c) => ClientP!StartWait(c)
  BY DEF Client!StartWait, ClientP!StartWait
<1>5. Client!NoTimeToWait(c) => ClientP!NoTimeToWait(c)
  BY DEF Client!NoTimeToWait, ClientP!NoTimeToWait
<1>6. Client!Woken(c) => ClientP!Woken(c)
  BY DEF Client!Woken, ClientP!Woken
<1>7. Client!ClearEvent(c) => ClientP!ClearEvent(c)
  BY DEF Client!ClearEvent, ClientP!ClearEvent
<1>8. Client!WaitTimesOut(c) => ClientP!WaitTimesOut(c)
  BY DEF Client!WaitTimesOut, ClientP!WaitTimesOut
<1>9. Client!Finish(c) => ClientP!Finish(c)
  BY DEF Client!Finish, ClientP!Finish, Client!NewSession, ClientP!NewSession,
     Client!Succeeds, ClientP!Succeeds, Client!Acceptable, ClientP!Acceptable,
     Client!SuccessCodes, ClientP!SuccessCodes
<1> QED
  BY <1>1, <1>2, <1>3, <1>4, <1>5, <1>6, <1>7, <1>8, <1>9
     DEF Client!Continue, ClientP!Continue, ClientP!ClientNext

\* The client receives only what the server sent, so only what its specification
\* says may be in transit.
LEMMA ReceiveSame ==
  ASSUME SystemInv, NEW r \in downlink, Client!Receive(r)
  PROVE  ClientP!ClientNext
<1>1. PICK q \in wire : r \in Client!AnswersTo(q)
  BY DEF SystemInv, Links, AnswersGrounded, Grounded
<1>2. r \in ClientP!AnswersTo(q)
  BY <1>1 DEF Client!AnswersTo, ClientP!AnswersTo, Client!Typed, ClientP!Typed
<1>3. r \in ClientP!InTransit
  BY <1>2 DEF ClientP!InTransit
<1>4. ClientP!Receive(r)
  BY DEF Client!Receive, ClientP!Receive, Client!SocketOpen, ClientP!SocketOpen,
     Client!PassesFilter, ClientP!PassesFilter, Client!clientVars,
     ClientP!clientVars, Client!numberVars, ClientP!numberVars, Client!callVars,
     ClientP!callVars, Client!slotVars, ClientP!slotVars
<1> QED
  BY <1>3, <1>4 DEF ClientP!ClientNext

LEMMA HandOverSame ==
  ASSUME Client!HandOver
  PROVE  ClientP!ClientNext
BY DEF Client!HandOver, ClientP!HandOver, ClientP!ClientNext, Client!clientVars,
   ClientP!clientVars, Client!numberVars, ClientP!numberVars, Client!callVars,
   ClientP!callVars

LEMMA TickSame ==
  ASSUME Client!Tick
  PROVE  ClientP!ClientNext
BY DEF Client!Tick, ClientP!Tick, ClientP!ClientNext, Client!InCall, ClientP!InCall,
   Client!Later, ClientP!Later, Client!clientVars, ClientP!clientVars,
   Client!numberVars, ClientP!numberVars, Client!slotVars, ClientP!slotVars

\* Links of the server that no step of the client touches.
LEMMA AwayServes ==
  ASSUME SystemInv, Away, wire \subseteq wire',
         \A n \in DOMAIN stamp : n \in DOMAIN stamp' /\ stamp'[n] = stamp[n]
  PROVE  WorkersServe' /\ CommitsLater' /\ AnswersGrounded' /\ now' <= MaxTime
<1>1. UNCHANGED <<now, call, packet, lastCommit, stage, job, status, downlink>>
  BY DEF Away, vars, workerVars
<1>2. WorkersServe'
  <2> SUFFICES ASSUME NEW w \in Workers
               PROVE  Serves(w)'
    BY DEF WorkersServe
  <2>1. Serves(w)
    BY DEF SystemInv, Links, WorkersServe
  <2>2. ASSUME NEW q \in wire
        PROVE  Datagram(q)' = Datagram(q)
    <3>1. q.sequence \in DOMAIN stamp
      BY DEF SystemInv, Links, RequestsMade, Made
    <3> QED
      BY <3>1 DEF Datagram, DatagramAt
  <2> QED
    BY <1>1, <2>1, <2>2 DEF Serves, DeadlineReached, HasTypedResponse
<1>3. CommitsLater'
  BY <1>1 DEF SystemInv, Links, CommitsLater
<1>4. AnswersGrounded'
  <2>1. now' \in Nat /\ now' >= now
    BY <1>1 DEF SystemInv, ServerIInv, IInv, TypeOK
  <2> QED
    BY <1>1, <2>1, AwayKeeps, AnswersKept
<1> QED
  BY <1>1, <1>2, <1>3, <1>4 DEF SystemInv, Links

\* The numbers of the alerts that have been processed stay.
LEMMA ProcessedStay ==
  ASSUME HistoryKept
  PROVE  ProcessedAlerts \subseteq ProcessedAlerts'
BY DEF ProcessedAlerts, Alerts, HistoryKept

\* The next number may get its stamp.
LEMMA StampKeeps ==
  ASSUME SystemInv, issued < MaxCalls, issued' = issued + 1, now' = now,
         stamp' = With(stamp, sequence, now)
  PROVE  /\ Stamped' /\ sequence \notin DOMAIN stamp
         /\ DOMAIN stamp' = DOMAIN stamp \cup {sequence}
         /\ \A n \in DOMAIN stamp : stamp'[n] = stamp[n]
<1>1. sequence \notin DOMAIN stamp /\ ClientP!Rank(sequence) = issued
  BY NextIsFresh
<1>2. /\ DOMAIN stamp' = DOMAIN stamp \cup {sequence} /\ stamp'[sequence] = now
      /\ \A n \in DOMAIN stamp : stamp'[n] = stamp[n]
  BY <1>1 DEF With
<1>3. issued \in Nat /\ sequence \in Sequences1 /\ now \in Nat
  BY ClientFacts, ClientConstants DEF SystemInv, ServerIInv, IInv, TypeOK
<1>4. \A n : ClientP!Rank(n)' = ClientP!Rank(n)
  BY DEF ClientP!Rank
<1>5. ClientP!Rank(sequence) < issued'
  BY <1>1, <1>3
<1>6. ASSUME NEW n \in DOMAIN stamp
      PROVE  ClientP!Rank(n) < issued' /\ n \in Sequences1 /\ stamp[n] \in 0..now
  <2>1. ClientP!Rank(n) < issued /\ n \in Sequences1 /\ stamp[n] \in 0..now
    BY DEF SystemInv, Links, Stamped
  <2>2. ClientP!Rank(n) \in Int
    BY <2>1, ClientConstants DEF ClientP!Rank, ClientP!Modulus, Modulus, Sequences1
  <2> QED
    BY <1>3, <2>1, <2>2
<1>7. Stamped'
  BY <1>2, <1>3, <1>4, <1>5, <1>6 DEF Stamped
<1> QED
  BY <1>1, <1>2, <1>7

LEMMA AskEffect ==
  ASSUME SystemInv, NEW c \in Callers, NEW op \in Operations, Client!Begin(c, op)
  PROVE  /\ ~Client!InCall(c) /\ issued < MaxCalls /\ issued' = issued + 1
         /\ callStage' = [callStage EXCEPT ![c] = "attempt"]
         /\ request' = [request EXCEPT ![c] = request'[c]]
         /\ request'[c].type = op.type /\ request'[c].ttl = op.ttl
         /\ request'[c].ack = op.reliable /\ request'[c].sequence = sequence
         /\ request'[c].session = IF op.type = "REGISTER_REQ" THEN 0 ELSE session
         /\ op.type # "REGISTER_REQ" => session # 0
         /\ UNCHANGED <<phase, session, held, wire>>
         /\ \A d \in Callers : slot'[d] \in {slot[d], None}
                               /\ response'[d] \in {response[d], None}
BY ClientFacts
   DEF Client!Begin, Client!TakeNumber, Client!PacketFor, Client!Allowed,
       Client!InCall, Client!clientVars, SystemInv

LEMMA AskKeeps ==
  ASSUME SystemInv, NEW c \in Callers, NEW op \in Operations, Ask(c, op)
  PROVE  SystemInv'
<1>1. Client!Begin(c, op) /\ Away /\ stamp' = With(stamp, sequence, now)
      /\ result' = result
  BY DEF Ask
<1>2. ServerIInv' /\ HistoryKept /\ now' = now /\ UNCHANGED <<sessions, downlink>>
  BY <1>1, AwayKeeps DEF Away, sharedVars
<1>3. ClientP!IInv'
  BY <1>1, BeginSame, ClientKeeps DEF SystemInv
<1>4. /\ ~Client!InCall(c) /\ issued < MaxCalls /\ issued' = issued + 1
      /\ callStage' = [callStage EXCEPT ![c] = "attempt"]
      /\ request' = [request EXCEPT ![c] = request'[c]]
      /\ request'[c].type = op.type /\ request'[c].ttl = op.ttl
      /\ request'[c].ack = op.reliable /\ request'[c].sequence = sequence
      /\ request'[c].session = IF op.type = "REGISTER_REQ" THEN 0 ELSE session
      /\ op.type # "REGISTER_REQ" => session # 0
      /\ UNCHANGED <<phase, session, held, wire>>
      /\ \A d \in Callers : slot'[d] \in {slot[d], None}
                            /\ response'[d] \in {response[d], None}
  BY <1>1, AskEffect
<1>5. Stamped' /\ sequence \notin DOMAIN stamp
  BY <1>1, <1>2, <1>4, StampKeeps
<1>6. /\ DOMAIN stamp' = DOMAIN stamp \cup {sequence}
      /\ \A n \in DOMAIN stamp : stamp'[n] = stamp[n]
  BY <1>1, <1>2, <1>4, StampKeeps
<1>7. /\ callStage \in [Callers -> Client!Stages]
      /\ request \in [Callers -> Client!Requests \cup {None}]
  BY ClientFacts DEF SystemInv
<1>8. \A d \in Callers : d # c => request'[d] = request[d]
                                  /\ (Client!InCall(d)' <=> Client!InCall(d))
  BY <1>4, <1>7 DEF Client!InCall
<1>9. RequestsMade'
  <2>1. \A q : Made(q) => Made(q)'
    BY <1>2, <1>6 DEF Made
  <2>2. Made(request[c])'
    BY <1>2, <1>4, <1>6 DEF Made, SystemInv, Links, SessionsMine
  <2> QED
    BY <1>4, <1>8, <2>1, <2>2 DEF RequestsMade, SystemInv, Links
<1>10. SessionsMine' /\ Delivered' /\ phase' = "open"
  BY <1>2, <1>4 DEF SystemInv, Links, SessionsMine, Delivered
<1>11. Reported'
  <2>1. Reported
    BY DEF SystemInv, Links
  <2>2. ProcessedAlerts \subseteq ProcessedAlerts'
    BY <1>2, ProcessedStay
  <2>3. sequence \notin DOMAIN result'
    BY <1>1, <1>5, <2>1 DEF Reported
  <2>4. \A d \in Callers : Client!InCall(d)' => request'[d].sequence \notin DOMAIN result'
    BY <1>1, <1>4, <1>8, <2>1, <2>3 DEF Reported
  <2>5. \A d \in Callers :
          Client!InCall(d) => Client!InCall(d)' /\ request'[d] = request[d]
    BY <1>4, <1>8
  <2>6. ASSUME NEW q \in wire, q.type = "CRITICAL_ALERT"
        PROVE  IF q.sequence \in DOMAIN result' THEN result'[q.sequence] # "dropped"
               ELSE \E d \in Callers : Client!InCall(d)' /\ request'[d] = q
    BY <1>1, <2>1, <2>5, <2>6 DEF Reported
  <2> QED
    BY <1>1, <1>4, <1>6, <2>1, <2>2, <2>4, <2>6 DEF Reported
<1> QED
  BY <1>1, <1>2, <1>3, <1>4, <1>5, <1>6, <1>9, <1>10, <1>11, AwayServes
     DEF SystemInv, Links

\* What an unreliable send changes.
LEMMA AskOnceEffect ==
  ASSUME SystemInv, NEW c \in Callers, NEW op \in Operations, NEW leaves \in BOOLEAN,
         AskOnce(c, op, leaves)
  PROVE  LET q == Client!PacketFor(op, FALSE)
         IN  /\ issued < MaxCalls /\ issued' = issued + 1
             /\ wire' = wire \/ (leaves /\ wire' = wire \cup {q})
             /\ q.type = op.type /\ q.ttl = op.ttl /\ q.ack = op.reliable
             /\ q.sequence = sequence
             /\ q.session = IF op.type = "REGISTER_REQ" THEN 0 ELSE session
             /\ op.type # "REGISTER_REQ" => session # 0
             /\ UNCHANGED <<phase, session, held, callStage, request, slot, response>>
BY SystemAssumption
   DEF AskOnce, Client!SendOnce, Client!SendTo, Client!TakeNumber, Client!PacketFor,
       Client!Allowed, Client!clientVars, Client!callVars, Client!slotVars

\* What it reports.
LEMMA AskOnceReports ==
  ASSUME SystemInv, NEW c \in Callers, NEW op \in Operations, NEW leaves \in BOOLEAN,
         AskOnce(c, op, leaves)
  PROVE  Reported'
<1> DEFINE q == Client!PacketFor(op, FALSE)
<1>1. /\ wire' = wire \/ (leaves /\ wire' = wire \cup {q})
      /\ q.type = op.type /\ q.sequence = sequence
      /\ issued < MaxCalls /\ issued' = issued + 1
      /\ UNCHANGED <<callStage, request>>
  BY AskOnceEffect
<1>2. HistoryKept /\ now' = now /\ stamp' = With(stamp, sequence, now)
  BY AwayKeeps DEF AskOnce
<1>3. /\ sequence \notin DOMAIN stamp
      /\ DOMAIN stamp' = DOMAIN stamp \cup {sequence}
  BY <1>1, <1>2, StampKeeps
<1>4. Reported /\ RequestsMade
  BY DEF SystemInv, Links
<1>5. \A p \in wire : p.sequence # sequence
  BY <1>3, <1>4 DEF RequestsMade, Made
<1>6. \A d \in Callers : Client!InCall(d) => request[d].sequence # sequence
  BY <1>3, <1>4 DEF RequestsMade, Made
<1>7. ProcessedAlerts \subseteq ProcessedAlerts'
  BY <1>2, ProcessedStay
<1>8. CASE op.type # "CRITICAL_ALERT"
  <2>1. result' = result
    BY <1>8 DEF AskOnce
  <2>2. ASSUME NEW p \in wire', p.type = "CRITICAL_ALERT"
        PROVE  p \in wire
    BY <1>1, <1>8, <2>2
  <2> HIDE DEF q
  <2> QED
    BY <1>1, <1>3, <1>4, <1>7, <2>1, <2>2 DEF Reported, Client!InCall
<1>9. CASE op.type = "CRITICAL_ALERT"
  <2>1. result' = With(result, sequence, IF leaves THEN "sent" ELSE "dropped")
    BY <1>9 DEF AskOnce
  <2>2. /\ DOMAIN result' = DOMAIN result \cup {sequence}
        /\ result'[sequence] = IF leaves THEN "sent" ELSE "dropped"
        /\ \A m \in DOMAIN result : m # sequence => result'[m] = result[m]
    BY <2>1 DEF With
  <2>3. \A n \in DOMAIN result' :
          /\ result'[n] \in {"success", "failure", "sent", "dropped"}
          /\ result'[n] = "success" => n \in ProcessedAlerts'
    BY <1>4, <1>7, <2>2 DEF Reported
  <2>4. DOMAIN result' \subseteq DOMAIN stamp'
    BY <1>3, <1>4, <2>2 DEF Reported
  <2>5. ASSUME NEW p \in wire', p.type = "CRITICAL_ALERT"
        PROVE  IF p.sequence \in DOMAIN result' THEN result'[p.sequence] # "dropped"
               ELSE \E d \in Callers : Client!InCall(d) /\ request[d] = p
    <3>1. CASE p \in wire
      BY <1>4, <1>5, <2>2, <2>5, <3>1 DEF Reported
    <3>2. CASE p \notin wire
      <4>1. leaves /\ p = q
        BY <1>1, <3>2
      <4> QED
        BY <1>1, <2>2, <4>1
    <3> QED
      BY <3>1, <3>2
  <2>6. \A d \in Callers : Client!InCall(d) => request[d].sequence \notin DOMAIN result'
    BY <1>4, <1>6, <2>2 DEF Reported
  <2> HIDE DEF q
  <2> QED
    BY <1>1, <2>3, <2>4, <2>5, <2>6 DEF Reported, Client!InCall
<1> QED
  BY <1>8, <1>9

LEMMA AskOnceKeeps ==
  ASSUME SystemInv, NEW c \in Callers, NEW op \in Operations, NEW leaves \in BOOLEAN,
         AskOnce(c, op, leaves)
  PROVE  SystemInv'
<1>1. PICK q :
      /\ issued < MaxCalls /\ issued' = issued + 1
      /\ wire' = wire \/ wire' = wire \cup {q}
      /\ q.type = op.type /\ q.ttl = op.ttl /\ q.ack = op.reliable
      /\ q.sequence = sequence
      /\ q.session = IF op.type = "REGISTER_REQ" THEN 0 ELSE session
      /\ op.type # "REGISTER_REQ" => session # 0
      /\ UNCHANGED <<phase, session, held, callStage, request, slot, response>>
  BY AskOnceEffect
<1>2. /\ Client!SendOnce(c, op, leaves) /\ Away
      /\ stamp' = With(stamp, sequence, now)
  BY DEF AskOnce
<1>3. ServerIInv' /\ HistoryKept /\ now' = now /\ UNCHANGED <<sessions, downlink>>
  BY <1>2, AwayKeeps DEF Away, sharedVars
<1>4. ClientP!IInv'
  BY <1>2, SendOnceSame, ClientKeeps DEF SystemInv
<1>5. /\ Stamped' /\ DOMAIN stamp' = DOMAIN stamp \cup {sequence}
      /\ \A n \in DOMAIN stamp : stamp'[n] = stamp[n]
  BY <1>1, <1>2, <1>3, StampKeeps
<1>6. RequestsMade'
  <2>1. \A p : Made(p) => Made(p)'
    BY <1>3, <1>5 DEF Made
  <2>2. Made(q)'
    BY <1>1, <1>3, <1>5 DEF Made, SystemInv, Links, SessionsMine
  <2> QED
    BY <1>1, <2>1, <2>2 DEF RequestsMade, SystemInv, Links, Client!InCall
<1>7. SessionsMine' /\ Delivered' /\ phase' = "open"
  BY <1>1, <1>3 DEF SystemInv, Links, SessionsMine, Delivered
<1> QED
  BY <1>1, <1>2, <1>3, <1>4, <1>5, <1>6, <1>7, AskOnceReports, AwayServes
     DEF SystemInv, Links

\* A call holds only answers to its own request.
LEMMA OwnAnswer ==
  ASSUME SystemInv, NEW c \in Callers, response[c] # None
  PROVE  Client!InCall(c) /\ request[c] \in wire /\ Grounded(request[c], response[c])
<1>1. Client!InCall(c) /\ response[c].sequence = request[c].sequence
  BY CallsDistinct DEF SystemInv
<1>2. response[c] \in downlink
  BY DEF SystemInv, Links, Delivered
<1>3. PICK q \in wire : Grounded(q, response[c])
  BY <1>2 DEF SystemInv, Links, AnswersGrounded
<1>4. response[c].sequence = q.sequence
  BY <1>3 DEF Grounded, Client!AnswersTo
<1> QED
  BY <1>1, <1>3, <1>4, CallsDistinct DEF SystemInv

\* A call of send_critical that succeeds has been told of a commit.
LEMMA SuccessIsProcessed ==
  ASSUME SystemInv, NEW c \in Callers, Client!Succeeds(c),
         request[c].type = "CRITICAL_ALERT"
  PROVE  request[c].sequence \in ProcessedAlerts
<1>1. /\ response[c] # None /\ response[c].type = "ACK"
      /\ response[c].status # "EXPIRED"
  BY DEF Client!Succeeds, Client!Acceptable, Client!ExpectedTypes, Client!Typed,
     Client!SuccessCodes
<1>2. request[c] \in wire /\ Committed(request[c])
  BY <1>1, OwnAnswer DEF Grounded
<1>3. KeyOf(request[c]) \in Alerts
  BY <1>2, KeyOfWire DEF Alerts, KeyOf
<1>4. KeyOf(request[c])[4] = request[c].sequence
  BY DEF KeyOf
<1> QED
  BY <1>2, <1>3, <1>4 DEF ProcessedAlerts, Committed

\* The session of a registration that succeeds is one the server has given.
LEMMA SuccessHasSession ==
  ASSUME SystemInv, NEW c \in Callers, Client!Succeeds(c),
         request[c].type = "REGISTER_REQ"
  PROVE  \E s \in sessions : s.id = response[c].session
<1>1. response[c] # None /\ response[c].type = "REGISTER_RES"
  BY DEF Client!Succeeds, Client!Acceptable, Client!ExpectedTypes, Client!Typed
<1> QED
  BY <1>1, OwnAnswer DEF Grounded

\* A call that goes on, and one that returns.
GoesOn(c) ==
  /\ Client!InCall(c) /\ callStage[c] # "finish" /\ callStage'[c] # "idle"
  /\ UNCHANGED <<request, session, slot>>
  /\ wire' = wire \/ wire' = wire \cup {request[c]}
  /\ \A d \in Callers : response'[d] \in {response[d], slot[d]}
Ends(c) ==
  /\ callStage[c] = "finish" /\ callStage'[c] = "idle"
  /\ session' = Client!NewSession(c) /\ wire' = wire
  /\ \A d \in Callers : slot'[d] \in {slot[d], None}
                        /\ response'[d] \in {response[d], None}

LEMMA ContinueEffect ==
  ASSUME SystemInv, NEW c \in Callers, Client!Continue(c)
  PROVE  /\ GoesOn(c) \/ Ends(c)
         /\ UNCHANGED <<phase, issued, held>>
         /\ \A d \in Callers : d # c => callStage'[d] = callStage[d]
                                        /\ request'[d] = request[d]
<1>1. /\ callStage \in [Callers -> Client!Stages]
      /\ request \in [Callers -> Client!Requests \cup {None}]
      /\ slot \in [Callers -> Client!Responses \cup {None}]
      /\ response \in [Callers -> Client!Responses \cup {None}]
  BY ClientFacts DEF SystemInv
<1> USE DEF Client!Goto, Client!Stay, Client!clientVars, Client!numberVars,
        Client!slotVars
<1>2. CASE Client!Finish(c)
  BY <1>1, <1>2 DEF Client!Finish, Client!Forget, Ends
<1>3. CASE Client!TransmitRaises(c)
  BY <1>3 DEF Client!TransmitRaises, Client!SocketOpen, SystemInv, Links
<1>4. CASE \/ Client!ExpireAttempt(c) \/ Client!StartWait(c)
           \/ Client!NoTimeToWait(c) \/ Client!WaitTimesOut(c)
  BY <1>1, <1>4 DEF Client!ExpireAttempt, Client!StartWait, Client!NoTimeToWait,
     Client!WaitTimesOut, Client!NextAttempt, GoesOn, Client!InCall
<1>5. CASE Client!Transmit(c)
  BY <1>1, <1>5 DEF Client!Transmit, Client!SendTo, GoesOn, Client!InCall
<1>6. CASE Client!Woken(c)
  BY <1>1, <1>6 DEF Client!Woken, GoesOn, Client!InCall
<1>7. CASE Client!ClearEvent(c)
  BY <1>1, <1>7 DEF Client!ClearEvent, Client!NextAttempt, GoesOn, Client!InCall
<1> QED
  BY <1>2, <1>3, <1>4, <1>5, <1>6, <1>7 DEF Client!Continue

LEMMA GoesOnKeeps ==
  ASSUME SystemInv, NEW c \in Callers, Proceed(c), GoesOn(c)
  PROVE  RequestsMade' /\ SessionsMine' /\ Delivered' /\ Reported'
<1>1. /\ HistoryKept /\ UNCHANGED <<stamp, sessions, downlink, held>>
      /\ result' = result
  BY AwayKeeps, ContinueEffect
     DEF Proceed, Returns, Away, sharedVars, GoesOn
<1>2. /\ UNCHANGED <<request, session, slot>>
      /\ wire' = wire \/ wire' = wire \cup {request[c]}
      /\ Client!InCall(c) /\ Client!InCall(c)'
      /\ \A d \in Callers : /\ Client!InCall(d)' <=> Client!InCall(d)
                            /\ response'[d] \in {response[d], slot[d]}
  BY ContinueEffect DEF Proceed, GoesOn, Client!InCall
<1>3. RequestsMade /\ SessionsMine /\ Delivered /\ Reported
  BY DEF SystemInv, Links
<1>4. RequestsMade'
  <2>1. \A q : Made(q)' <=> Made(q)
    BY <1>1 DEF Made
  <2> QED
    BY <1>2, <1>3, <2>1 DEF RequestsMade
<1>5. SessionsMine' /\ Delivered'
  BY <1>1, <1>2, <1>3 DEF SessionsMine, Delivered
<1>6. Reported'
  <2>1. ProcessedAlerts \subseteq ProcessedAlerts'
    BY <1>1, ProcessedStay
  <2>2. ASSUME NEW q \in wire', q.type = "CRITICAL_ALERT"
        PROVE  IF q.sequence \in DOMAIN result THEN result[q.sequence] # "dropped"
               ELSE \E d \in Callers : Client!InCall(d)' /\ request[d] = q
    BY <1>2, <1>3, <2>2 DEF Reported
  <2> QED
    BY <1>1, <1>2, <1>3, <2>1, <2>2 DEF Reported
<1> QED
  BY <1>4, <1>5, <1>6

LEMMA EndsKeeps ==
  ASSUME SystemInv, NEW c \in Callers, Proceed(c), Ends(c)
  PROVE  RequestsMade' /\ SessionsMine' /\ Delivered' /\ Reported'
<1>1. /\ HistoryKept /\ UNCHANGED <<stamp, sessions, downlink, held, wire>>
  BY AwayKeeps, ContinueEffect DEF Proceed, Away, sharedVars, Ends
<1>2. /\ Client!InCall(c) /\ ~Client!InCall(c)'
      /\ \A d \in Callers : d # c => request'[d] = request[d]
                                     /\ (Client!InCall(d)' <=> Client!InCall(d))
  BY ContinueEffect DEF Proceed, Ends, Client!InCall
<1>3. RequestsMade /\ SessionsMine /\ Delivered /\ Reported
  BY DEF SystemInv, Links
<1>4. RequestsMade'
  <2>1. \A q : Made(q)' <=> Made(q)
    BY <1>1 DEF Made
  <2> QED
    BY <1>1, <1>2, <1>3, <2>1 DEF RequestsMade
<1>5. SessionsMine'
  <2>1. session' = session \/ \E s \in sessions : s.id = session'
    BY SuccessHasSession DEF Ends, Client!NewSession
  <2> QED
    BY <1>1, <1>3, <2>1 DEF SessionsMine
<1>6. Delivered'
  BY <1>1, <1>3 DEF Delivered, Ends
<1>7. ProcessedAlerts \subseteq ProcessedAlerts'
  BY <1>1, ProcessedStay
<1>8. CASE request[c].type # "CRITICAL_ALERT"
  <2>1. result' = result
    BY <1>8 DEF Proceed, Returns
  <2>2. ASSUME NEW q \in wire, q.type = "CRITICAL_ALERT"
        PROVE  IF q.sequence \in DOMAIN result THEN result[q.sequence] # "dropped"
               ELSE \E d \in Callers : Client!InCall(d)' /\ request'[d] = q
    BY <1>2, <1>3, <1>8, <2>2 DEF Reported
  <2>3. Reported'
    BY <1>1, <1>2, <1>3, <1>7, <2>1, <2>2 DEF Reported
  <2> QED
    BY <1>4, <1>5, <1>6, <2>3
<1>9. CASE request[c].type = "CRITICAL_ALERT"
  <2> DEFINE n == request[c].sequence
  <2>1. result' = With(result, n, Outcome(c))
    BY <1>9 DEF Proceed, Returns, Ends
  <2>2. /\ DOMAIN result' = DOMAIN result \cup {n} /\ result'[n] = Outcome(c)
        /\ \A m \in DOMAIN result : m # n => result'[m] = result[m]
    BY <2>1 DEF With
  <2>3. n \in DOMAIN stamp
    BY <1>2, <1>3 DEF RequestsMade, Made
  <2>4. Outcome(c) = "success" => n \in ProcessedAlerts
    BY <1>9, SuccessIsProcessed DEF Outcome
  <2>5. Outcome(c) \in {"success", "failure"}
    BY DEF Outcome
  <2>6. ASSUME NEW d \in Callers, Client!InCall(d)'
        PROVE  request'[d].sequence \notin DOMAIN result'
    <3>1. d # c /\ Client!InCall(d) /\ request'[d] = request[d]
      BY <1>2, <2>6
    <3>2. request[d].sequence # n
      BY <1>2, <3>1, CallsDistinct DEF SystemInv
    <3> QED
      BY <1>3, <2>2, <3>1, <3>2 DEF Reported
  <2>7. ASSUME NEW q \in wire, q.type = "CRITICAL_ALERT"
        PROVE  IF q.sequence \in DOMAIN result' THEN result'[q.sequence] # "dropped"
               ELSE \E d \in Callers : Client!InCall(d)' /\ request'[d] = q
    <3>1. CASE q.sequence \in DOMAIN result'
      BY <1>3, <2>2, <2>5, <2>7, <3>1 DEF Reported
    <3>2. CASE q.sequence \notin DOMAIN result'
      <4>1. PICK d \in Callers : Client!InCall(d) /\ request[d] = q
        BY <1>3, <2>2, <2>7, <3>2 DEF Reported
      <4>2. d # c
        BY <2>2, <3>2, <4>1
      <4> QED
        BY <1>2, <3>2, <4>1, <4>2
    <3> QED
      BY <3>1, <3>2
  <2> HIDE DEF n
  <2>8. Reported'
    BY <1>1, <1>3, <1>7, <2>2, <2>3, <2>4, <2>5, <2>6, <2>7 DEF Reported
  <2> QED
    BY <1>4, <1>5, <1>6, <2>8
<1> QED
  BY <1>8, <1>9

LEMMA ProceedKeeps ==
  ASSUME SystemInv, NEW c \in Callers, Proceed(c)
  PROVE  SystemInv'
<1>1. /\ Client!Continue(c) /\ Away /\ stamp' = stamp
      /\ GoesOn(c) \/ Ends(c)
  BY ContinueEffect DEF Proceed
<1>2. ServerIInv' /\ now' = now /\ UNCHANGED <<phase, issued>>
  BY <1>1, AwayKeeps, ContinueEffect
<1>3. ClientP!IInv'
  BY <1>1, ContinueSame, ClientKeeps DEF SystemInv
<1>4. RequestsMade' /\ SessionsMine' /\ Delivered' /\ Reported'
  BY <1>1, GoesOnKeeps, EndsKeeps
<1>5. WorkersServe' /\ CommitsLater' /\ AnswersGrounded' /\ now' <= MaxTime
  BY <1>1, AwayServes DEF GoesOn, Ends
<1>6. Stamped' /\ phase' = "open"
  BY <1>1, <1>2 DEF SystemInv, Links, Stamped, ClientP!Rank
<1> QED
  BY <1>2, <1>3, <1>4, <1>5, <1>6 DEF SystemInv, Links

LEMMA DeliveryKeeps ==
  ASSUME SystemInv, (\E r \in downlink : Arrive(r)) \/ HandOver
  PROVE  SystemInv'
<1>1. /\ Away /\ UNCHANGED <<stamp, result>>
      /\ (\E r \in downlink : Client!Receive(r)) \/ Client!HandOver
  BY DEF Arrive, HandOver
<1>2. ServerIInv' /\ HistoryKept /\ now' = now /\ UNCHANGED <<sessions, downlink>>
  BY <1>1, AwayKeeps DEF Away, sharedVars
<1>3. ClientP!IInv'
  BY <1>1, ReceiveSame, HandOverSame, ClientKeeps DEF SystemInv
<1>4. UNCHANGED <<phase, session, issued, callStage, request, response, wire>>
  BY <1>1 DEF Client!Receive, Client!HandOver, Client!clientVars, Client!numberVars,
     Client!callVars
<1>5. Delivered'
  <2>1. /\ held' \in downlink \cup {None}
        /\ \A c \in Callers : slot'[c] = slot[c] \/ (slot'[c] = held /\ held # None)
    BY <1>1, ClientFacts DEF Client!Receive, Client!HandOver, Client!slotVars, SystemInv
  <2> QED
    BY <1>2, <1>4, <2>1 DEF SystemInv, Links, Delivered
<1>6. RequestsMade' /\ Reported'
  BY <1>1, <1>2, <1>4, RequestsKept, ReportsKept
<1>7. SessionsMine' /\ Stamped' /\ phase' = "open"
  BY <1>1, <1>2, <1>4 DEF SystemInv, Links, SessionsMine, Stamped, ClientP!Rank
<1>8. WorkersServe' /\ CommitsLater' /\ AnswersGrounded' /\ now' <= MaxTime
  BY <1>1, <1>4, AwayServes
<1> QED
  BY <1>2, <1>3, <1>5, <1>6, <1>7, <1>8 DEF SystemInv, Links

\* Time passes on both sides at once.
LEMMA TickKeeps ==
  ASSUME SystemInv, SystemTick
  PROVE  SystemInv'
<1>1. /\ Tick /\ ServerStays /\ UNCHANGED linkVars
      /\ Client!Tick \/ UNCHANGED localVars
  BY DEF SystemTick, ServerTick
<1>2. ServerIInv' /\ HistoryKept
  <2>1. ServerNext
    BY DEF SystemTick, ServerNext
  <2> QED
    BY <2>1, NextServerIInv, HistoryGrows DEF SystemInv, ServerIInv
<1>3. ClientP!IInv'
  <2>1. CASE Client!Tick
    BY <2>1, TickSame, ClientKeeps DEF SystemInv
  <2>2. CASE UNCHANGED localVars
    <3>1. UNCHANGED ClientP!vars
      BY <2>2 DEF localVars, ClientP!vars, ClientP!clientVars, ClientP!numberVars,
         ClientP!callVars, ClientP!slotVars
    <3> QED
      BY <3>1, ClientKeeps DEF SystemInv
  <2> QED
    BY <1>1, <2>1, <2>2
<1>4. /\ UNCHANGED <<phase, session, issued, held, callStage, request, slot>>
      /\ UNCHANGED <<response, wire, downlink, stamp, result>>
  BY <1>1 DEF linkVars, localVars, Client!Tick, Client!clientVars,
     Client!numberVars, Client!slotVars
<1>5. /\ now \in Nat /\ now' = now + 1 /\ now' <= MaxTime
      /\ UNCHANGED <<stage, job, status, sessions, call, lastCommit>>
  BY <1>1, MaxTimeAssumption
     DEF Tick, ServerStays, workerVars, sharedVars, SystemInv, ServerIInv, IInv, TypeOK
<1>6. RequestsMade' /\ Reported'
  BY <1>2, <1>4, RequestsKept, ReportsKept
<1>7. Stamped' /\ phase' = "open"
  BY <1>4, <1>5 DEF SystemInv, Links, Stamped, ClientP!Rank
<1>8. WorkersServe'
  <2> SUFFICES ASSUME NEW w \in Workers
               PROVE  Serves(w)'
    BY DEF WorkersServe
  <2>1. Serves(w)
    BY DEF SystemInv, Links, WorkersServe
  <2>2. call[w] = "expired" => DeadlineReached(job[w])'
    <3>1. call[w] = "expired" => job[w] \in Packets
      BY DEF SystemInv, ServerIInv, WorkersInv, StageMatchesCall, InCache, ServerTypeOK
    <3> QED
      BY <1>5, <2>1, <3>1, PacketsAssumption DEF Serves, DeadlineReached, Deadline
  <2> QED
    BY <1>4, <1>5, <2>1, <2>2 DEF Serves, Datagram, HasTypedResponse
<1>9. SessionsMine' /\ CommitsLater' /\ Delivered'
  BY <1>4, <1>5 DEF SystemInv, Links, SessionsMine, CommitsLater, Delivered
<1>10. AnswersGrounded'
  <2>1. now' \in Nat /\ now' >= now
    BY <1>5
  <2> QED
    BY <1>2, <1>4, <2>1, AnswersKept
<1> QED
  BY <1>2, <1>3, <1>5, <1>6, <1>7, <1>8, <1>9, <1>10 DEF SystemInv, Links

LEMMA InitSystemInv == SystemInit => SystemInv
<1> SUFFICES ASSUME SystemInit
             PROVE  SystemInv
  OBVIOUS
<1>1. ServerIInv
  BY InitServerIInv DEF SystemInit
<1>2. ClientP!IInv
  BY ClientStarts DEF SystemInit
<1>3. Links
  BY MaxTimeAssumption
     DEF SystemInit, ServerInit, Init, Client!ClientInit, Links, RequestsMade, Stamped,
         WorkersServe, Serves, SessionsMine, CommitsLater, AnswersGrounded, Delivered,
         Reported, Client!InCall
<1> QED
  BY <1>1, <1>2, <1>3 DEF SystemInv

LEMMA NextSystemInv == SystemInv /\ [SystemNext]_systemVars => SystemInv'
<1> SUFFICES ASSUME SystemInv, [SystemNext]_systemVars
             PROVE  SystemInv'
  OBVIOUS
<1>1. CASE UNCHANGED systemVars
  <2>1. UNCHANGED <<allVars, localVars, linkVars>>
    BY <1>1 DEF systemVars
  <2>2. ServerIInv' /\ HistoryKept
    BY <2>1, NextServerIInv, HistoryGrows DEF SystemInv, ServerIInv
  <2>3. ClientP!IInv'
    <3>1. UNCHANGED ClientP!vars
      BY <2>1 DEF localVars, ClientP!vars, ClientP!clientVars, ClientP!numberVars,
         ClientP!callVars, ClientP!slotVars
    <3> QED
      BY <3>1, ClientKeeps DEF SystemInv
  <2>4. /\ UNCHANGED <<now, call, lastCommit, stage, job, status, sessions>>
        /\ UNCHANGED <<phase, session, issued, held, callStage, request, slot>>
        /\ UNCHANGED <<response, wire, downlink, stamp, result>>
    BY <2>1 DEF allVars, vars, serverVars, workerVars, sharedVars, localVars, linkVars
  <2>5. RequestsMade' /\ Reported'
    BY <2>2, <2>4, RequestsKept, ReportsKept
  <2>6. AnswersGrounded'
    <3>1. now' \in Nat /\ now' >= now
      BY <2>4 DEF SystemInv, ServerIInv, IInv, TypeOK
    <3> QED
      BY <2>2, <2>4, <3>1, AnswersKept
  <2>7. Stamped' /\ WorkersServe' /\ SessionsMine' /\ CommitsLater' /\ Delivered'
    BY <2>4 DEF SystemInv, Links, Stamped, ClientP!Rank, WorkersServe, Serves,
       Datagram, HasTypedResponse, DeadlineReached, SessionsMine, CommitsLater,
       Delivered
  <2> QED
    BY <2>2, <2>3, <2>4, <2>5, <2>6, <2>7 DEF SystemInv, Links
<1>2. ASSUME NEW w \in Workers,
             (\E q \in wire : Deliver(w, q)) \/ Serve(w) \/ ServeFails(w)
      PROVE  SystemInv'
  <2>1. ServerStep
    BY <1>2 DEF Deliver, Serve, ServeFails, ServerStep, WorkerStep
  <2> QED
    BY <2>1, ServerKeeps
<1> QED
  BY <1>1, <1>2, AskKeeps, AskOnceKeeps, ProceedKeeps, DeliveryKeeps, TickKeeps
     DEF SystemNext

-----------------------------------------------------------------------------
(* The refinement of AlertDelivery *)

OpenAlert(n) ==
  \E c \in Callers : Client!InCall(c) /\ request[c].sequence = n
                     /\ request[c].type = "CRITICAL_ALERT"
CallOf(n) ==
  IF n \in DOMAIN result THEN result[n] ELSE IF OpenAlert(n) THEN "open" ELSE "none"

LEMMA CallsAre ==
  /\ AlertCalls = [n \in Numbers |-> CallOf(n)]
  /\ AlertCalls' = [n \in Numbers |-> CallOf(n)']
BY DEF AlertCalls, CallOf, OpenAlert

\* A step that moves no call and makes no commit is a stutter.
LEMMA CallsStay ==
  ASSUME result' = result, lastCommit' = lastCommit,
         \A n \in Numbers : OpenAlert(n)' <=> OpenAlert(n)
  PROVE  UNCHANGED Delivery!vars
<1>1. \A n \in Numbers : CallOf(n)' = CallOf(n)
  BY DEF CallOf
<1>2. AlertCalls' = AlertCalls
  BY <1>1, CallsAre
<1>3. ProcessedAlerts' = ProcessedAlerts
  BY DEF ProcessedAlerts
<1> QED
  BY <1>2, <1>3 DEF Delivery!vars

\* A commit is the processing of an alert that was asked for.
LEMMA CommitMaps ==
  ASSUME SystemInv, NEW w \in Workers, FinishOk(w), ServerSends
  PROVE  [Delivery!Next]_(Delivery!vars)
<1>1. PICK q \in wire : job[w] = Datagram(q)
  BY WorksOnRequest DEF Work
<1>2. packet[w] = job[w] /\ packet[w].key = KeyOf(q) /\ KeyOf(q) \in Keys
  BY <1>1, KeyOfWire DEF FinishOk, SystemInv, ServerIInv, WorkersInv,
     StageMatchesCall, InCache, Datagram, DatagramAt, KeyOf
<1>3. /\ KeyOf(q)[3] = q.type /\ KeyOf(q)[4] = q.sequence
  BY DEF KeyOf
<1>4. /\ \A k \in Keys : lastCommit'[k] = IF k = KeyOf(q) THEN now ELSE lastCommit[k]
      /\ now # Never
  BY <1>2 DEF FinishOk, FinishMessage, SystemInv, ServerIInv, IInv, TypeOK, Never
<1>5. AlertCalls' = AlertCalls
  <2>1. UNCHANGED <<result, callStage, request>>
    BY DEF ServerSends, localVars
  <2> QED
    BY <2>1 DEF AlertCalls, Client!InCall
<1>6. CASE q.type # "CRITICAL_ALERT"
  <2>1. ProcessedAlerts' = ProcessedAlerts
    BY <1>3, <1>4, <1>6 DEF ProcessedAlerts, Alerts
  <2> QED
    BY <1>5, <2>1 DEF Delivery!vars
<1>7. CASE q.type = "CRITICAL_ALERT"
  <2> DEFINE n == q.sequence
  <2>1. KeyOf(q) \in Alerts /\ n \in Numbers
    BY <1>2, <1>3, <1>7 DEF Alerts, Numbers
  <2>2. ProcessedAlerts' = ProcessedAlerts \cup {n}
    <3> DEFINE done == {a \in Alerts : lastCommit[a] # Never}
    <3>1. {a \in Alerts : lastCommit'[a] # Never} = done \cup {KeyOf(q)}
      BY <1>4, <2>1 DEF Alerts
    <3> QED
      BY <1>3, <3>1 DEF ProcessedAlerts
  <2>3. n \in ProcessedAlerts \/ AlertCalls[n] \in {"open", "failure", "sent"}
    <3>1. CASE n \in DOMAIN result
      <4>1. AlertCalls[n] = result[n]
        BY <2>1, <3>1, CallsAre DEF CallOf
      <4> QED
        BY <1>7, <3>1, <4>1 DEF SystemInv, Links, Reported
    <3>2. CASE n \notin DOMAIN result
      <4>1. OpenAlert(n)
        BY <1>7, <3>2 DEF SystemInv, Links, Reported, OpenAlert
      <4> QED
        BY <2>1, <3>2, <4>1, CallsAre DEF CallOf
    <3> QED
      BY <3>1, <3>2
  <2>4. CASE n \in ProcessedAlerts
    BY <1>5, <2>2, <2>4 DEF Delivery!vars
  <2>5. CASE AlertCalls[n] \in {"open", "failure", "sent"}
    <3>1. Delivery!Process(n)
      BY <1>5, <2>2, <2>5 DEF Delivery!Process
    <3> QED
      BY <2>1, <3>1 DEF Delivery!Next
  <2> QED
    BY <2>3, <2>4, <2>5
<1> QED
  BY <1>6, <1>7

LEMMA ServerMaps ==
  ASSUME SystemInv, ServerStep
  PROVE  [Delivery!Next]_(Delivery!vars)
<1>1. ServerSends
  BY DEF ServerStep
<1>2. lastCommit' = lastCommit \/ \E w \in Workers : FinishOk(w)
  BY DEF ServerStep, WorkerStep, Receive, Stay, RejectEnvelope, RejectSession,
     RejectExpired, RejectPayload, AcceptRegister, Accept, Submit, Work, RegisterLate,
     RegisterInvalid, RegisterAgain, RegisterNew, ClaimStep, Claim, ClaimDuplicate,
     ClaimNew, ClaimExpired, ClaimWait, Answer, WaitTimeout, ReplyExpired,
     ReplyDuplicate, Return, Dispatch, DispatchFails, FinishFailed, FinishMessage,
     SendReply, vars
<1>3. CASE lastCommit' = lastCommit
  <2>1. UNCHANGED <<result, callStage, request>>
    BY <1>1 DEF ServerSends, localVars
  <2> QED
    BY <1>3, <2>1, CallsStay DEF OpenAlert, Client!InCall
<1> QED
  BY <1>1, <1>2, <1>3, CommitMaps

LEMMA AskMaps ==
  ASSUME SystemInv, NEW c \in Callers, NEW op \in Operations, Ask(c, op)
  PROVE  [Delivery!Next]_(Delivery!vars)
<1>1. /\ lastCommit' = lastCommit /\ result' = result /\ Client!Begin(c, op)
  BY DEF Ask, Away, vars
<1>2. /\ ~Client!InCall(c) /\ issued < MaxCalls
      /\ callStage' = [callStage EXCEPT ![c] = "attempt"]
      /\ request' = [request EXCEPT ![c] = request'[c]]
      /\ request'[c].type = op.type /\ request'[c].sequence = sequence
  BY <1>1, AskEffect
<1>3. /\ Client!InCall(c)'
      /\ \A d \in Callers : d # c => request'[d] = request[d]
                                     /\ (Client!InCall(d)' <=> Client!InCall(d))
  <2>1. /\ callStage \in [Callers -> Client!Stages]
        /\ request \in [Callers -> Client!Requests \cup {None}]
    BY ClientFacts DEF SystemInv
  <2> QED
    BY <1>2, <2>1 DEF Client!InCall
<1>4. PICK n : n = sequence
  OBVIOUS
<1>5. CallOf(n) = "none"
  <2>1. n \notin DOMAIN stamp
    BY <1>2, <1>4, NextIsFresh
  <2> QED
    BY <2>1 DEF CallOf, OpenAlert, SystemInv, Links, Reported, RequestsMade, Made
<1>6. \A m : m # n => (OpenAlert(m)' <=> OpenAlert(m))
  BY <1>2, <1>3, <1>4 DEF OpenAlert
<1>7. ProcessedAlerts' = ProcessedAlerts
  BY <1>1 DEF ProcessedAlerts
<1>8. CASE op.type = "CRITICAL_ALERT" /\ n \in Numbers
  <2>1. OpenAlert(n)'
    BY <1>2, <1>3, <1>4, <1>8 DEF OpenAlert
  <2>2. n \notin DOMAIN result
    BY <1>2, <1>4, NextIsFresh DEF SystemInv, Links, Reported
  <2>3. CallOf(n)' = "open" /\ \A m : m # n => CallOf(m)' = CallOf(m)
    BY <1>1, <1>6, <2>1, <2>2 DEF CallOf
  <2>4. AlertCalls' = [AlertCalls EXCEPT ![n] = "open"] /\ AlertCalls[n] = "none"
    BY <1>5, <1>8, <2>3, CallsAre
  <2>5. Delivery!Ask(n)
    BY <1>7, <2>4 DEF Delivery!Ask
  <2> QED
    BY <1>8, <2>5 DEF Delivery!Next
<1>9. CASE op.type # "CRITICAL_ALERT" \/ n \notin Numbers
  <2>1. \A m \in Numbers : OpenAlert(m)' <=> OpenAlert(m)
    BY <1>2, <1>3, <1>4, <1>6, <1>9 DEF OpenAlert
  <2> QED
    BY <1>1, <2>1, CallsStay
<1> QED
  BY <1>8, <1>9

\* An unreliable alert is asked for and reported in one step.
LEMMA AskOnceMaps ==
  ASSUME SystemInv, NEW c \in Callers, NEW op \in Operations, NEW leaves \in BOOLEAN,
         AskOnce(c, op, leaves)
  PROVE  [Delivery!Next]_(Delivery!vars)
<1>1. PICK n, outcome : n = sequence /\ outcome = IF leaves THEN "sent" ELSE "dropped"
  OBVIOUS
<1>2. lastCommit' = lastCommit /\ ProcessedAlerts' = ProcessedAlerts
  BY DEF AskOnce, Away, vars, ProcessedAlerts
<1>3. \A m : OpenAlert(m)' <=> OpenAlert(m)
  BY AskOnceEffect DEF OpenAlert, Client!InCall
<1>4. CASE op.type = "CRITICAL_ALERT" /\ n \in Numbers
  <2>1. n \notin DOMAIN stamp
    BY <1>1, AskOnceEffect, NextIsFresh
  <2>2. CallOf(n) = "none"
    BY <2>1 DEF CallOf, OpenAlert, SystemInv, Links, Reported, RequestsMade, Made
  <2>3. result' = With(result, n, outcome)
    BY <1>1, <1>4 DEF AskOnce
  <2>4. CallOf(n)' = outcome /\ \A m : m # n => CallOf(m)' = CallOf(m)
    BY <1>3, <2>3 DEF CallOf, With
  <2>5. AlertCalls' = [AlertCalls EXCEPT ![n] = outcome] /\ AlertCalls[n] = "none"
    BY <1>4, <2>2, <2>4, CallsAre
  <2>6. Delivery!SendUnreliable(n, outcome) /\ outcome \in {"sent", "dropped"}
    BY <1>1, <1>2, <2>5 DEF Delivery!SendUnreliable
  <2> QED
    BY <1>4, <2>6 DEF Delivery!Next
<1>5. CASE op.type # "CRITICAL_ALERT"
  <2>1. result' = result
    BY <1>5 DEF AskOnce
  <2> QED
    BY <1>2, <1>3, <2>1, CallsStay
<1>6. CASE op.type = "CRITICAL_ALERT" /\ n \notin Numbers
  <2>1. result' = With(result, n, outcome)
    BY <1>1, <1>6 DEF AskOnce
  <2>2. \A m : m # n => CallOf(m)' = CallOf(m)
    BY <1>3, <2>1 DEF CallOf, With
  <2>3. AlertCalls' = AlertCalls
    BY <1>6, <2>2, CallsAre
  <2> QED
    BY <1>2, <2>3 DEF Delivery!vars
<1> QED
  BY <1>4, <1>5, <1>6

LEMMA EndsMaps ==
  ASSUME SystemInv, NEW c \in Callers, Proceed(c), Ends(c)
  PROVE  [Delivery!Next]_(Delivery!vars)
<1>1. lastCommit' = lastCommit /\ ProcessedAlerts' = ProcessedAlerts
  BY DEF Proceed, Away, vars, ProcessedAlerts
<1>2. /\ Client!InCall(c) /\ ~Client!InCall(c)'
      /\ \A d \in Callers : d # c => request'[d] = request[d]
                                     /\ (Client!InCall(d)' <=> Client!InCall(d))
  BY ContinueEffect DEF Proceed, Ends, Client!InCall
<1>3. CASE request[c].type # "CRITICAL_ALERT"
  <2>1. result' = result
    BY <1>3 DEF Proceed, Returns
  <2>2. \A n \in Numbers : OpenAlert(n)' <=> OpenAlert(n)
    BY <1>2, <1>3 DEF OpenAlert
  <2> QED
    BY <1>1, <2>1, <2>2, CallsStay
<1>4. CASE request[c].type = "CRITICAL_ALERT"
  <2>1. PICK n : n = request[c].sequence
    OBVIOUS
  <2>2. /\ result'[n] = Outcome(c) /\ n \in DOMAIN result'
        /\ \A m : m # n => (m \in DOMAIN result' <=> m \in DOMAIN result)
                           /\ (m \in DOMAIN result => result'[m] = result[m])
    BY <1>4, <2>1 DEF Proceed, Returns, Ends, With
  <2>3. OpenAlert(n) /\ n \notin DOMAIN result
    BY <1>2, <1>4, <2>1 DEF OpenAlert, SystemInv, Links, Reported
  <2>4. \A m : m # n => (OpenAlert(m)' <=> OpenAlert(m))
    BY <1>2, <2>1 DEF OpenAlert
  <2>5. CallOf(n)' = Outcome(c) /\ \A m : m # n => CallOf(m)' = CallOf(m)
    BY <2>2, <2>4 DEF CallOf
  <2>6. CASE n \in Numbers
    <3>1. /\ AlertCalls' = [AlertCalls EXCEPT ![n] = Outcome(c)]
          /\ AlertCalls[n] = "open"
      BY <2>3, <2>5, <2>6, CallsAre DEF CallOf
    <3>2. Outcome(c) = "success" => n \in ProcessedAlerts
      BY <1>4, <2>1, SuccessIsProcessed DEF Outcome
    <3>3. Outcome(c) \in {"success", "failure"}
      BY DEF Outcome
    <3>4. Delivery!ReportSuccess(n) \/ Delivery!ReportFailure(n)
      BY <1>1, <3>1, <3>2, <3>3 DEF Delivery!ReportSuccess, Delivery!ReportFailure
    <3> QED
      BY <2>6, <3>4 DEF Delivery!Next
  <2>7. CASE n \notin Numbers
    <3>1. AlertCalls' = AlertCalls
      BY <2>5, <2>7, CallsAre
    <3> QED
      BY <1>1, <3>1 DEF Delivery!vars
  <2> QED
    BY <2>6, <2>7
<1> QED
  BY <1>3, <1>4

LEMMA ClientMaps ==
  ASSUME SystemInv,
         \/ \E c \in Callers :
              \/ Proceed(c)
              \/ \E op \in Operations :
                   Ask(c, op) \/ \E leaves \in BOOLEAN : AskOnce(c, op, leaves)
         \/ \E r \in downlink : Arrive(r)
         \/ HandOver \/ SystemTick
  PROVE  [Delivery!Next]_(Delivery!vars)
<1>1. ASSUME NEW c \in Callers, Proceed(c)
      PROVE  [Delivery!Next]_(Delivery!vars)
  <2>1. CASE Ends(c)
    BY <1>1, <2>1, EndsMaps
  <2>2. CASE GoesOn(c)
    <3>1. lastCommit' = lastCommit /\ result' = result
      BY <1>1, <2>2 DEF Proceed, Away, vars, Returns, GoesOn
    <3>2. \A n \in Numbers : OpenAlert(n)' <=> OpenAlert(n)
      BY <1>1, <2>2, ContinueEffect DEF OpenAlert, GoesOn, Proceed, Client!InCall
    <3> QED
      BY <3>1, <3>2, CallsStay
  <2> QED
    BY <1>1, <2>1, <2>2, ContinueEffect DEF Proceed
<1>2. CASE (\E r \in downlink : Arrive(r)) \/ HandOver \/ SystemTick
  <2>1. UNCHANGED <<lastCommit, result, callStage, request>>
    BY <1>2 DEF Arrive, HandOver, Away, vars, SystemTick, ServerTick, Tick, linkVars,
       localVars, Client!Receive, Client!HandOver, Client!Tick, Client!callVars
  <2> QED
    BY <2>1, CallsStay DEF OpenAlert, Client!InCall
<1> QED
  BY <1>1, <1>2, AskMaps, AskOnceMaps

LEMMA SystemInitMaps == SystemInit => Delivery!Init
<1> SUFFICES ASSUME SystemInit
             PROVE  Delivery!Init
  OBVIOUS
<1>1. AlertCalls = [n \in Numbers |-> "none"]
  BY CallsAre DEF SystemInit, Client!ClientInit, CallOf, OpenAlert, Client!InCall
<1>2. ProcessedAlerts = {}
  BY DEF SystemInit, ServerInit, Init, ProcessedAlerts, Alerts
<1> QED
  BY <1>1, <1>2 DEF Delivery!Init

LEMMA SystemStepMaps ==
  SystemInv /\ [SystemNext]_systemVars => [Delivery!Next]_(Delivery!vars)
<1> SUFFICES ASSUME SystemInv, [SystemNext]_systemVars
             PROVE  [Delivery!Next]_(Delivery!vars)
  OBVIOUS
<1>1. CASE UNCHANGED systemVars
  <2>1. UNCHANGED <<lastCommit, result, callStage, request>>
    BY <1>1 DEF systemVars, allVars, vars, localVars, linkVars
  <2> QED
    BY <2>1, CallsStay DEF OpenAlert, Client!InCall
<1>2. ASSUME NEW w \in Workers,
             (\E q \in wire : Deliver(w, q)) \/ Serve(w) \/ ServeFails(w)
      PROVE  [Delivery!Next]_(Delivery!vars)
  <2>1. ServerStep
    BY <1>2 DEF Deliver, Serve, ServeFails, ServerStep, WorkerStep
  <2> QED
    BY <2>1, ServerMaps
<1> QED
  BY <1>1, <1>2, ClientMaps DEF SystemNext
-----------------------------------------------------------------------------
(* Theorems *)

\* The inductive invariant, for any number of callers and workers, any network
\* delay, loss, repetition and reordering, and any deadlines and retention.
THEOREM SystemInvariance == SystemSpec => []SystemInv
BY InitSystemInv, NextSystemInv, PTL DEF SystemSpec

\* The client and the server keep the promise of AlertDelivery: a reliable call of
\* send_critical reports a success only for an alert that the server has processed;
\* the success of one with reliable=False says only that the alert was sent, and
\* its failure that it never will be processed; and the server processes only
\* alerts that were asked for.
THEOREM AlertsAreDelivered == SystemSpec => DeliversAlerts
<1>1. SystemSpec => Delivery!Spec
  BY SystemInitMaps, SystemStepMaps, SystemInvariance, PTL DEF SystemSpec, Delivery!Spec
<1> QED
  BY <1>1 DEF DeliversAlerts

\* No caller is told 408 before the deadline of its request has come.
THEOREM OnlyLateRefused == SystemSpec => []RefusedOnlyLate
<1>1. SystemInv => RefusedOnlyLate
  BY OwnAnswer DEF RefusedOnlyLate, Grounded
<1> QED
  BY <1>1, SystemInvariance, PTL

\* Once registered, the client keeps its session, and the server knows it.
THEOREM SessionStays == SystemSpec => SessionIsKept
<1> DEFINE Kept == /\ session # 0 => session' = session
                   /\ \A r \in sent' : r.status # "UNREGISTERED"
<1>1. ASSUME SystemInv, ServerStep
      PROVE  Kept
  <2>1. session' = session
    BY <1>1 DEF ServerStep, ServerSends, localVars
  <2>2. \E p : Answered(p)
    <3>1. ASSUME NEW w \in Workers, NEW q \in wire, Receive(w, Datagram(q))
          PROVE  Answered(Datagram(q))
      <4>1. /\ Datagram(q) \in Packets
            /\ Datagram(q).type # "REGISTER_REQ" => ValidSession(Datagram(q))
        BY <1>1, WireIsPacket DEF Datagram, DatagramAt
      <4> QED
        BY <1>1, <3>1, <4>1, ArrivalAnswered
    <3> QED
      BY <1>1, <3>1, WorkAnswered DEF ServerStep, WorkerStep
  <2> QED
    BY <2>1, <2>2 DEF Answered, IsAnswer
<1>2. ASSUME SystemInv, NEW c \in Callers, Proceed(c)
      PROVE  Kept
  <2>1. sent' = {}
    BY <1>2 DEF Proceed, Away
  <2>2. CASE session' = session
    BY <2>1, <2>2
  <2>3. CASE session' = response[c].session /\ Client!Succeeds(c)
             /\ request[c].type = "REGISTER_REQ"
    <3>1. PICK s \in sessions : s.id = session'
      BY <1>2, <2>3, SuccessHasSession
    <3>2. session # 0 => \E t \in sessions : t.id = session
      BY <1>2 DEF SystemInv, Links, SessionsMine
    <3>3. \A t \in sessions : t = s
      BY <1>2 DEF SystemInv, Links, SessionsMine, ServerIInv, SessionsDistinct
    <3> QED
      BY <2>1, <3>1, <3>2, <3>3
  <2> QED
    BY <1>2, <2>2, <2>3, ContinueEffect DEF Proceed, GoesOn, Ends, Client!NewSession
<1>3. ASSUME SystemInv, [SystemNext]_systemVars
      PROVE  Kept \/ UNCHANGED systemVars
  <2>1. CASE \E w \in Workers :
               (\E q \in wire : Deliver(w, q)) \/ Serve(w) \/ ServeFails(w)
    BY <1>1, <1>3, <2>1 DEF Deliver, Serve, ServeFails, ServerStep, WorkerStep
  <2>2. CASE \/ \E c \in Callers, op \in Operations :
                  Ask(c, op) \/ \E leaves \in BOOLEAN : AskOnce(c, op, leaves)
             \/ \E r \in downlink : Arrive(r)
             \/ HandOver \/ SystemTick
    <3>1. sent' = {} /\ session' = session
      BY <2>2 DEF Ask, AskOnce, Arrive, HandOver, Away, SystemTick, ServerTick,
         ServerStays, SendNothing, localVars, Client!Begin, Client!SendOnce,
         Client!Receive, Client!HandOver, Client!Tick, Client!clientVars
    <3> QED
      BY <3>1
  <2> HIDE DEF Kept
  <2> QED
    BY <1>2, <1>3, <2>1, <2>2 DEF SystemNext
<1>4. SystemSpec => [][Kept]_systemVars
  BY <1>3, SystemInvariance, PTL DEF SystemSpec
<1> QED
  BY <1>4 DEF SessionIsKept

\* A copy that is processed again before the deadline would have been built
\* before the first was committed, and committed within the retention.
THEOREM OnceInTime == SystemSpec => ProcessedOnceInTime
<1> DEFINE Once ==
      \A w \in Workers :
        /\ FinishMessage(w, TRUE)
        /\ 0 < packet[w].ttl_ms /\ packet[w].ttl_ms <= Retention
        /\ lastCommit[packet[w].key] # Never
        => now > Deadline(packet[w])
<1>1. SystemInv => Once
  <2> SUFFICES ASSUME SystemInv, NEW w \in Workers, FinishMessage(w, TRUE),
                      packet[w].ttl_ms <= Retention,
                      lastCommit[packet[w].key] # Never
               PROVE  now > Deadline(packet[w])
    OBVIOUS
  <2>1. call[w] = "owner" /\ IInv /\ StageMatchesCall(w) /\ ServerTypeOK
    BY DEF FinishMessage, SystemInv, ServerIInv, WorkersInv
  <2>2. packet[w] = job[w] /\ job[w] \in Packets
    BY <2>1 DEF StageMatchesCall, InCache, ServerTypeOK
  <2>3. PICK q \in wire : packet[w] = Datagram(q)
    BY <2>2, NoPacketAssumption DEF SystemInv, Links, WorkersServe, Serves
  <2>4. packet[w].key \in Keys /\ packet[w].key \in inflight
    BY <2>1, <2>2, PacketsAssumption DEF IInv, InflightIsOwned
  <2>5. now > lastCommit[packet[w].key] + Retention
    <3>1. packet[w].key \notin KeysIn(seen)
      BY <2>1, <2>4 DEF IInv, CacheInv, InflightUnseen
    <3> QED
      BY <2>1, <2>4, <3>1, RetentionAssumption
         DEF IInv, TypeOK, CacheInv, RecentRemembered
  <2>6. /\ packet[w].key[4] = q.sequence
        /\ packet[w].timestamp_ms = stamp[q.sequence]
    BY <2>3 DEF Datagram, DatagramAt
  <2>7. packet[w].timestamp_ms <= lastCommit[packet[w].key]
    BY <2>4, <2>6 DEF SystemInv, Links, CommitsLater
  <2>8. /\ now \in Nat /\ lastCommit[packet[w].key] \in Nat
        /\ packet[w].timestamp_ms \in Int /\ packet[w].ttl_ms \in Nat
    BY <2>1, <2>2, <2>4, PacketsAssumption DEF IInv, TypeOK
  <2> QED
    BY <2>5, <2>7, <2>8, RetentionAssumption DEF Deadline
<1>2. SystemSpec => [][Once]_systemVars
  BY <1>1, SystemInvariance, PTL DEF SystemSpec
<1> QED
  BY <1>2 DEF ProcessedOnceInTime
=============================================================================
