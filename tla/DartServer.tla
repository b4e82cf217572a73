----------------------------- MODULE DartServer -----------------------------
(***************************************************************************)
(* The request handling of DartServer (src/dart/server.py): what a worker  *)
(* does with a datagram from its decoding to its answer, and the sessions, *)
(* latest values and suppressed ACKs the workers share.                    *)
(*                                                                         *)
(* The steps are cut where the code takes and releases _state_lock, which  *)
(* _duplicate_condition shares: the checks made on arrival, each pass of   *)
(* _claim_message, _dispatch, _finish_message, and the sending of the      *)
(* answer.  Copies of any packet may arrive at any time and in any order.  *)
(***************************************************************************)
EXTENDS DuplicateCache, SequenceOrder

CONSTANTS SessionIds,             \* what _new_session_id may draw, without 0
          Sensors, Addresses,     \* sensor ids, source addresses
          Identities,             \* registration identities of client instances
          DropFirstCriticalAck,   \* drop_first_critical_ack
          AllowExperimental       \* allow_experimental_policies

VARIABLES stage,        \* where each worker is
          job,          \* the packet each worker is handling
          status,       \* the status _dispatch returned to each worker
          sessions,     \* _sessions_by_id and _registration_index
          latest,       \* _latest_sequences and _latest_values
          suppressed,   \* _dropped_first_ack_for
          sent          \* the answer that the last step sent, if any

sharedVars == <<sessions, latest>>
sendVars == <<suppressed, sent>>
workerVars == <<stage, job, status>>
serverVars == <<workerVars, sharedVars, sendVars>>
allVars == <<vars, serverVars>>

Stages == {"free", "register", "claiming", "dispatched", "failed", "reply",
           "replyError"}
Statuses == {"NONE", "OK", "REGISTERED", "ACCEPTED", "MALFORMED", "UNREGISTERED",
             "EXPIRED", "DUPLICATE", "INVALID_PAYLOAD", "INTERNAL_ERROR"}
RequestTypes == {"REGISTER_REQ", "DATA_BATCH", "LATEST_UPDATE", "CRITICAL_ALERT",
                 "CONFIG_REQ", "HEARTBEAT"}

\* The fields a request carries, and the identity _message_identity makes of
\* them.  Any session number but 0 is one the server may draw.
ASSUME RequestsAssumption ==
  /\ SessionIds \subseteq Nat \ {0}
  /\ \A p \in Packets :
       /\ p.type \in RequestTypes /\ p.session \in SessionIds \cup {0}
       /\ p.sensor \in Sensors /\ p.sequence \in Nat
       /\ p.address \in Addresses /\ p.identity \in Identities
       /\ p.key = <<p.session, p.sensor, p.type, p.sequence>>

ReplyTypes == {"REGISTER_RES", "ACK", "CONFIG_RES", "HEARTBEAT_ACK", "ERROR"}

Sessions == [id : SessionIds, sensor : Sensors, address : Addresses,
             identity : Identities]
\* request is the type of the request, which the client knows.
Replies == [type : ReplyTypes, status : Statuses, session : SessionIds \cup {0},
            sensor : Sensors, sequence : Nat, to : Addresses,
            request : RequestTypes]

ServerTypeOK ==
  /\ stage \in [Workers -> Stages]
  /\ job \in [Workers -> Packets \cup {NoPacket}]
  /\ \A w \in Workers : job[w] = NoPacket <=> stage[w] = "free"
  /\ status \in [Workers -> Statuses]
  /\ sessions \subseteq Sessions
  /\ \A k \in DOMAIN latest : latest[k].sequence \in Nat
  /\ suppressed \subseteq SessionIds \X Sensors
  /\ sent \subseteq Replies

ServerInit ==
  /\ Init
  /\ stage = [w \in Workers |-> "free"]
  /\ job = [w \in Workers |-> NoPacket]
  /\ status = [w \in Workers |-> "NONE"]
  /\ sessions = {}
  /\ latest = <<>>
  /\ suppressed = {}
  /\ sent = {}

-----------------------------------------------------------------------------
(* Checks *)

\* wellFormed stands for the tests of the delivery class, the status and the
\* flags, which no configuration relaxes.
ValidEnvelope(p) ==
  /\ p.wellFormed
  /\ p.type \in {"REGISTER_REQ", "CRITICAL_ALERT", "CONFIG_REQ", "HEARTBEAT"} =>
       p.ack \/ (AllowExperimental /\ p.type = "CRITICAL_ALERT")
  /\ p.type \in {"DATA_BATCH", "LATEST_UPDATE"} => ~p.ack \/ AllowExperimental
  /\ p.type = "REGISTER_REQ" => p.session = 0

\* Mutant of ValidSession: the address is not compared.
AnyAddress(p) == \E s \in sessions : s.id = p.session /\ s.sensor = p.sensor

ValidSession(p) ==
  \E s \in sessions :
    s.id = p.session /\ s.sensor = p.sensor /\ s.address = p.address

-----------------------------------------------------------------------------
(* Answers *)

Reply(p, type, stat) ==
  [type |-> type, status |-> stat, session |-> p.session, sensor |-> p.sensor,
   sequence |-> p.sequence, to |-> p.address, request |-> p.type]

Send(reply) == sent' = {reply} /\ UNCHANGED suppressed
SendNothing == sent' = {} /\ UNCHANGED suppressed
SendError(p, stat) == Send(Reply(p, "ERROR", stat))

Suppresses(p) ==
  /\ DropFirstCriticalAck
  /\ p.type = "CRITICAL_ALERT"
  /\ <<p.session, p.sensor>> \notin suppressed

SendAck(p, stat) ==
  IF Suppresses(p)
  THEN suppressed' = suppressed \cup {<<p.session, p.sensor>>} /\ sent' = {}
  ELSE Send(Reply(p, "ACK", stat))

SendExpired(p) ==
  IF p.type \in {"REGISTER_REQ", "CONFIG_REQ", "HEARTBEAT"}
  THEN SendError(p, "EXPIRED")
  ELSE IF p.ack THEN SendAck(p, "EXPIRED") ELSE SendNothing

\* Mutant of TypedResponse: a heartbeat is answered like a CONFIG_REQ.
ConfigResponse(p) == Reply(p, "CONFIG_RES", "OK")

TypedResponse(p) ==
  IF p.type = "CONFIG_REQ" THEN Reply(p, "CONFIG_RES", "OK")
  ELSE Reply(p, "HEARTBEAT_ACK", "OK")

HasTypedResponse(p) == p.type \in {"CONFIG_REQ", "HEARTBEAT"}

-----------------------------------------------------------------------------
(* Arrival: _process_datagram up to the claim.  Sessions are never removed, *)
(* so the session check and the checks after it are one step.  A datagram   *)
(* that does not decode, or is a response, is dropped without a step.       *)

Stay(w) == stage[w] = "free" /\ UNCHANGED <<vars, workerVars, sharedVars>>

Enter(w, p, where) ==
  /\ stage[w] = "free"
  /\ stage' = [stage EXCEPT ![w] = where]
  /\ job' = [job EXCEPT ![w] = p]
  /\ SendNothing
  /\ UNCHANGED <<status, sharedVars>>

RejectEnvelope(w, p) ==
  /\ ~ValidEnvelope(p)
  /\ SendError(p, "MALFORMED")
  /\ Stay(w)

RejectSession(w, p) ==
  /\ ValidEnvelope(p) /\ p.type # "REGISTER_REQ" /\ ~ValidSession(p)
  /\ SendError(p, "UNREGISTERED")
  /\ Stay(w)

RejectExpired(w, p) ==
  /\ ValidEnvelope(p) /\ (p.type = "REGISTER_REQ" \/ ValidSession(p))
  /\ IsExpired(p)
  /\ SendExpired(p)
  /\ Stay(w)

RejectPayload(w, p) ==
  /\ ValidEnvelope(p) /\ p.type # "REGISTER_REQ" /\ ValidSession(p)
  /\ ~IsExpired(p) /\ ~p.payloadOk
  /\ SendError(p, "INVALID_PAYLOAD")
  /\ Stay(w)

AcceptRegister(w, p) ==
  /\ ValidEnvelope(p) /\ p.type = "REGISTER_REQ" /\ ~IsExpired(p)
  /\ Enter(w, p, "register")
  /\ UNCHANGED vars

Accept(w, p) ==
  /\ ValidEnvelope(p) /\ p.type # "REGISTER_REQ" /\ ValidSession(p)
  /\ p.payloadOk
  /\ Enter(w, p, "claiming")
  /\ Submit(w, p)

-----------------------------------------------------------------------------
(* The work of one worker *)

\* Mutant of Go: a worker that is done keeps its packet.
GoWithJob(w, where) ==
  /\ stage' = [stage EXCEPT ![w] = where]
  /\ UNCHANGED <<job, status>>

\* The locals of a worker that is done are gone.
Go(w, where) ==
  /\ stage' = [stage EXCEPT ![w] = where]
  /\ IF where = "free"
     THEN job' = [job EXCEPT ![w] = NoPacket] /\ status' = [status EXCEPT ![w] = "NONE"]
     ELSE UNCHANGED <<job, status>>

\* Mutant of Existing: a retried registration does not find its session.
NoneExisting(p) == {}

Existing(p) ==
  {s \in sessions : /\ s.sensor = p.sensor /\ s.address = p.address
                    /\ s.identity = p.identity}

Registered(p, s) == [Reply(p, "REGISTER_RES", "REGISTERED") EXCEPT !.session = s.id]

\* _handle_register after its own deadline test, which drops a late request
\* without an answer.
RegisterLate(w) ==
  /\ stage[w] = "register" /\ IsExpired(job[w])
  /\ Go(w, "free")
  /\ SendNothing
  /\ UNCHANGED <<vars, sharedVars>>

RegisterInvalid(w) ==
  /\ stage[w] = "register" /\ ~IsExpired(job[w]) /\ ~job[w].payloadOk
  /\ Go(w, "free")
  /\ SendError(job[w], "INVALID_PAYLOAD")
  /\ UNCHANGED <<vars, sharedVars>>

RegisterAgain(w) ==
  /\ stage[w] = "register" /\ ~IsExpired(job[w]) /\ job[w].payloadOk
  /\ \E s \in Existing(job[w]) : Send(Registered(job[w], s))
  /\ Go(w, "free")
  /\ UNCHANGED <<vars, sharedVars>>

\* _new_session_id: any number that is neither 0 nor in use.
NewSessionIds == SessionIds \ {s.id : s \in sessions}

RegisterNew(w) ==
  /\ stage[w] = "register" /\ ~IsExpired(job[w]) /\ job[w].payloadOk
  /\ Existing(job[w]) = {}
  /\ \E id \in NewSessionIds :
       LET s == [id |-> id, sensor |-> job[w].sensor, address |-> job[w].address,
                 identity |-> job[w].identity]
       IN  sessions' = sessions \cup {s} /\ Send(Registered(job[w], s))
  /\ Go(w, "free")
  /\ UNCHANGED <<vars, latest>>

ServerStays == SendNothing /\ UNCHANGED <<workerVars, sharedVars>>

\* A pass of _claim_message by a worker, or the end of its wait.
ClaimStep(w) ==
  /\ Claim(w) \/ WaitTimeout(w)
  /\ ServerStays

ReplyExpired(w) ==
  /\ call[w] = "expired"
  /\ SendExpired(job[w])
  /\ Return(w)
  /\ Go(w, "free")
  /\ UNCHANGED sharedVars

\* Mutant of ReplyDuplicate: the answer to the first copy is thought to be enough.
DropDuplicate(w) ==
  /\ call[w] = "duplicate"
  /\ SendNothing
  /\ Return(w)
  /\ Go(w, "free")
  /\ UNCHANGED sharedVars

\* CONFIG_REQ and HEARTBEAT are dispatched again for their typed response.
ReplyDuplicate(w) ==
  /\ call[w] = "duplicate"
  /\ IF HasTypedResponse(job[w]) THEN Send(TypedResponse(job[w]))
     ELSE IF job[w].ack THEN SendAck(job[w], "DUPLICATE") ELSE SendNothing
  /\ Return(w)
  /\ Go(w, "free")
  /\ UNCHANGED sharedVars

LatestKey(p) == <<p.session, p.sensor, p.metric>>

StaleUpdate(p) ==
  /\ LatestKey(p) \in DOMAIN latest
  /\ ~IsNewer(p.sequence, latest[LatestKey(p)].sequence)

\* The part of _dispatch for a LATEST_UPDATE that holds _state_lock.
UpdateLatest(p) ==
  LET k == LatestKey(p)
      entry == [sequence |-> p.sequence, timestamp_ms |-> p.timestamp_ms]
  IN  latest' = [x \in DOMAIN latest \cup {k} |-> IF x = k THEN entry ELSE latest[x]]

Effect(p) ==
  /\ IF p.type = "LATEST_UPDATE" /\ ~StaleUpdate(p) THEN UpdateLatest(p)
     ELSE UNCHANGED latest
  /\ IF HasTypedResponse(p) THEN Send(TypedResponse(p)) ELSE SendNothing

ResultOf(p) ==
  IF HasTypedResponse(p) THEN "OK"
  ELSE IF p.type = "LATEST_UPDATE" /\ StaleUpdate(p) THEN "DUPLICATE"
  ELSE "ACCEPTED"

Dispatch(w) ==
  /\ stage[w] = "claiming" /\ call[w] = "owner"
  /\ Effect(job[w])
  /\ status' = [status EXCEPT ![w] = ResultOf(job[w])]
  /\ stage' = [stage EXCEPT ![w] = "dispatched"]
  /\ UNCHANGED <<vars, job, sessions>>

\* An exception in the handler, before or after its effect.
DispatchFails(w) ==
  /\ stage[w] = "claiming" /\ call[w] = "owner"
  /\ Effect(job[w]) \/ (SendNothing /\ UNCHANGED latest)
  /\ Go(w, "failed")
  /\ UNCHANGED <<vars, sessions>>

FinishOk(w) ==
  /\ stage[w] = "dispatched"
  /\ FinishMessage(w, TRUE)
  /\ Go(w, IF job[w].ack /\ ~HasTypedResponse(job[w]) THEN "reply" ELSE "free")
  /\ SendNothing
  /\ UNCHANGED sharedVars

FinishFailed(w) ==
  /\ stage[w] = "failed"
  /\ FinishMessage(w, FALSE)
  /\ Go(w, "replyError")
  /\ SendNothing
  /\ UNCHANGED sharedVars

SendReply(w) ==
  /\ \/ stage[w] = "reply" /\ SendAck(job[w], status[w])
     \/ stage[w] = "replyError" /\ SendError(job[w], "INTERNAL_ERROR")
  /\ Go(w, "free")
  /\ UNCHANGED <<vars, sharedVars>>

Receive(w, p) ==
  \/ RejectEnvelope(w, p) \/ RejectSession(w, p) \/ RejectExpired(w, p)
  \/ RejectPayload(w, p) \/ AcceptRegister(w, p) \/ Accept(w, p)

Work(w) ==
  \/ RegisterLate(w) \/ RegisterInvalid(w) \/ RegisterAgain(w) \/ RegisterNew(w)
  \/ ClaimStep(w) \/ ReplyExpired(w) \/ ReplyDuplicate(w)
  \/ Dispatch(w) \/ FinishOk(w) \/ FinishFailed(w) \/ SendReply(w)

ServerTick == Tick /\ ServerStays
ServerStopNotifies == StopNotifies /\ ServerStays

ServerNext ==
  \/ \E w \in Workers :
       \/ \E p \in Packets : Receive(w, p)
       \/ Work(w) \/ DispatchFails(w)
  \/ ServerStopNotifies \/ ServerTick

ServerSpec == ServerInit /\ [][ServerNext]_allVars

\* Each worker thread runs and time passes; datagrams need not arrive and
\* handlers need not fail.
ServerFairness == WF_allVars(ServerTick) /\ \A w \in Workers : WF_allVars(Work(w))
FairServerSpec == ServerSpec /\ ServerFairness
-----------------------------------------------------------------------------

\* A client that is told 202 or 409 may stop retrying: the message it asks
\* about has been processed and committed by then, not only started.
ReplyKey(r) == <<r.session, r.sensor, r.request, r.sequence>>
AckMeansProcessed ==
  \A r \in sent :
    r.type = "ACK" /\ r.status \in {"ACCEPTED", "DUPLICATE"}
    => lastCommit[ReplyKey(r)] # Never

\* Registration is idempotent per client instance, and no session is shared:
\* neither a retry nor two workers handling copies of one REGISTER_REQ make a
\* second session, and every REGISTER_RES names a session of its receiver.
OneSessionPerInstance ==
  /\ \A s, t \in sessions :
       s.id = t.id \/ (s.sensor = t.sensor /\ s.address = t.address
                       /\ s.identity = t.identity) => s = t
  /\ \A r \in sent :
       r.type = "REGISTER_RES" =>
         \E s \in sessions :
           s.id = r.session /\ s.sensor = r.sensor /\ s.address = r.to

\* State, commits and answers belong to registered sessions: no sensor changes the
\* latest value, or uses up the identity, of another; nothing is handled under a
\* session for a datagram that came from another address, and nothing but errors
\* goes to an address whose session it is not.
OpenedFor(id, sensor, address) ==
  \E s \in sessions : s.id = id /\ s.sensor = sensor /\ s.address = address
StateHasSession ==
  /\ \A k \in DOMAIN latest : \E s \in sessions : s.id = k[1] /\ s.sensor = k[2]
  /\ \A k \in Keys :
       lastCommit[k] # Never => \E s \in sessions : s.id = k[1] /\ s.sensor = k[2]
  /\ \A w \in Workers :
       call[w] = "owner" => OpenedFor(job[w].session, job[w].sensor, job[w].address)
  /\ \A r \in sent : r.type # "ERROR" => OpenedFor(r.session, r.sensor, r.to)

\* The answers a client accepts for each of its requests (src/dart/client.py,
\* the expected sets): every answer is one of them, duplicates included.
Expected(type) ==
  CASE type = "REGISTER_REQ" -> {"REGISTER_RES", "ERROR"}
    [] type = "CONFIG_REQ" -> {"CONFIG_RES", "ERROR"}
    [] type = "HEARTBEAT" -> {"HEARTBEAT_ACK", "ERROR"}
    [] OTHER -> {"ACK", "ERROR"}
RepliesExpected == \A r \in sent : r.type \in Expected(r.request)

\* A worker that has taken up a request with ACK_REQUIRED does not let go of it
\* without an answer, each time anew: when it is dispatched, repeated, expired in
\* the wait for another worker, or its handler failed.  Exceptions are the ACK
\* that drop_first_critical_ack suppresses, and a registration that is late.
AnsweredAtOnce == {"CONFIG_REQ", "HEARTBEAT"}
LetsGo(w) ==
  \/ /\ stage[w] # "free" /\ stage'[w] = "free"
     /\ ~(stage[w] = "dispatched" /\ job[w].type \in AnsweredAtOnce)
  \/ /\ stage[w] # "dispatched" /\ stage'[w] = "dispatched"
     /\ job[w].type \in AnsweredAtOnce
Answers(r, p) ==
  /\ r.request = p.type /\ r.sequence = p.sequence /\ r.sensor = p.sensor
  /\ r.to = p.address
RequestsAnswered ==
  [][\A w \in Workers :
       LetsGo(w) /\ job[w].ack =>
         \/ \E r \in sent' : Answers(r, job[w])
         \/ suppressed' # suppressed
         \/ job[w].type = "REGISTER_REQ" /\ IsExpired(job[w])]_allVars

\* If handlers stop failing at some time, no worker is stuck with a datagram,
\* neither in a wait for another worker nor before its answer.
HandlersFail == \E w \in Workers : DispatchFails(w)
WorkersReturn ==
  <>[][~HandlersFail]_allVars =>
    \A w \in Workers : stage[w] # "free" ~> stage[w] = "free"
=============================================================================
