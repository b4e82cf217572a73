-------------------------- MODULE DartServerProofs --------------------------
(***************************************************************************)
(* Proofs about the request handling of DartServer.  Every step of a       *)
(* worker is a step of the duplicate cache or leaves it alone, so the      *)
(* inductive invariant of the cache holds here too; ServerIInv adds what   *)
(* ties a worker's place in _process_datagram to its call of the cache, to *)
(* the session of its datagram and to the commits.                         *)
(***************************************************************************)
EXTENDS DartServer, DuplicateCacheProofs

InCache(w) == stage[w] \in {"claiming", "dispatched", "failed"}

\* A worker is inside _claim_message and _finish_message, with the datagram it
\* was handed, exactly between its arrival and its answer.
StageMatchesCall(w) ==
  /\ call[w] # "idle" <=> InCache(w)
  /\ stage[w] \in {"dispatched", "failed"} => call[w] = "owner"
  /\ InCache(w) => packet[w] = job[w]

\* Only registrations are handled without a session, and nothing else is
\* answered as a registration.
JobHasSession(w) ==
  /\ stage[w] = "register" => job[w].type = "REGISTER_REQ"
  /\ InCache(w) \/ stage[w] \in {"reply", "replyError"} =>
       job[w].type # "REGISTER_REQ" /\ ValidSession(job[w])

\* A worker that is about to answer 202 or 409 knows of a commit.
AnswerIsCommitted(w) ==
  /\ call[w] = "duplicate" \/ stage[w] = "reply" =>
       lastCommit[job[w].key] # Never
  /\ stage[w] = "reply" => ~HasTypedResponse(job[w])

WorkersInv ==
  \A w \in Workers :
    StageMatchesCall(w) /\ JobHasSession(w) /\ AnswerIsCommitted(w)

\* What the last step sent: the answers are typed, expected, and what they say
\* of commits and sessions is so.
AnswersHaveSession ==
  \A r \in sent : r.type # "ERROR" => OpenedFor(r.session, r.sensor, r.to)
SentInv ==
  sent \subseteq Replies /\ AckMeansProcessed /\ RepliesExpected /\ AnswersHaveSession

\* The part of StateHasSession about latest values and commits.
StateOwned ==
  /\ \A k \in DOMAIN latest : \E s \in sessions : s.id = k[1] /\ s.sensor = k[2]
  /\ \A k \in Keys :
       lastCommit[k] # Never => \E s \in sessions : s.id = k[1] /\ s.sensor = k[2]

SessionsDistinct ==
  \A s, t \in sessions :
    s.id = t.id \/ (s.sensor = t.sensor /\ s.address = t.address
                    /\ s.identity = t.identity) => s = t

\* The inductive invariant.
ServerIInv ==
  /\ IInv /\ ServerTypeOK /\ WorkersInv
  /\ SentInv /\ SessionsDistinct /\ StateOwned

-----------------------------------------------------------------------------
(* The cache inside the server *)

\* Every step of the server is a step of the duplicate cache or leaves the cache
\* as it is.
LEMMA StepOfCache == [ServerNext]_allVars => [Next]_vars
<1> SUFFICES ASSUME [ServerNext]_allVars
             PROVE  [Next]_vars
  OBVIOUS
<1> USE DEF vars, cacheVars
<1>1. ASSUME NEW w \in Workers, NEW p \in Packets, Receive(w, p)
      PROVE  Submit(w, p) \/ UNCHANGED vars
  BY <1>1 DEF Receive, Stay, RejectEnvelope, RejectSession, RejectExpired,
     RejectPayload, AcceptRegister, Accept
<1>2. ASSUME NEW w \in Workers, Work(w) \/ DispatchFails(w)
      PROVE  \/ Claim(w) \/ WaitTimeout(w) \/ Finish(w) \/ Return(w)
             \/ UNCHANGED vars
  BY <1>2 DEF Work, RegisterLate, RegisterInvalid, RegisterAgain, RegisterNew,
     ClaimStep, ReplyExpired, ReplyDuplicate, Dispatch, DispatchFails, FinishOk,
     FinishFailed, SendReply, Finish
<1>3. CASE ServerStopNotifies \/ ServerTick
  BY <1>3 DEF ServerStopNotifies, ServerTick, Next
<1>4. CASE UNCHANGED allVars
  BY <1>4 DEF allVars
<1> QED
  BY <1>1, <1>2, <1>3, <1>4 DEF ServerNext, Next

\* Sessions are never removed and a commit is never forgotten.
HistoryKept ==
  /\ sessions \subseteq sessions'
  /\ \A k \in Keys : lastCommit[k] # Never => lastCommit'[k] # Never

LEMMA HistoryGrows ==
  ASSUME IInv, [ServerNext]_allVars
  PROVE  HistoryKept
<1>1. sessions \subseteq sessions'
  BY DEF allVars, serverVars, sharedVars, workerVars, ServerNext, Receive, Stay,
     Enter, RejectEnvelope, RejectSession, RejectExpired, RejectPayload,
     AcceptRegister, Accept, Work, RegisterLate, RegisterInvalid, RegisterAgain,
     RegisterNew, ClaimStep, ServerStays, ReplyExpired, ReplyDuplicate, Dispatch,
     DispatchFails, FinishOk, FinishFailed, SendReply, ServerTick,
     ServerStopNotifies
<1>2. ASSUME NEW k \in Keys, lastCommit[k] # Never
      PROVE  lastCommit'[k] # Never
  <2>1. CASE UNCHANGED vars
    BY <1>2, <2>1 DEF vars
  <2>2. CASE \E w \in Workers, success \in BOOLEAN : FinishMessage(w, success)
    BY <1>2, <2>2 DEF IInv, TypeOK, FinishMessage, Never
  <2>3. CASE UNCHANGED lastCommit
    BY <1>2, <2>3
  <2> QED
    BY <2>1, <2>2, <2>3, StepOfCache
       DEF Next, Submit, Claim, ClaimDuplicate, ClaimNew, ClaimExpired, ClaimWait,
           Answer, WaitTimeout, Finish, Return, StopNotifies, Tick
<1> QED
  BY <1>1, <1>2 DEF HistoryKept
-----------------------------------------------------------------------------
(* Answers *)

\* The session of a datagram that passed _session_address_is_valid was drawn by
\* _new_session_id.
LEMMA ValidSessionDrawn ==
  ASSUME ServerTypeOK, NEW p \in Packets, ValidSession(p)
  PROVE  p.session \in SessionIds
BY DEF ServerTypeOK, Sessions, ValidSession

\* Any answer made of a request is typed; all but errors need a session.
LEMMA SentIsRight ==
  ASSUME NEW p \in Packets, NEW type \in ReplyTypes, NEW stat \in Statuses,
         NEW id \in SessionIds \cup {0},
         sent' \subseteq {[Reply(p, type, stat) EXCEPT !.session = id]},
         type \in Expected(p.type),
         type = "ACK" =>
           id = p.session /\ (stat \in {"ACCEPTED", "DUPLICATE"}
                              => lastCommit'[p.key] # Never),
         type # "ERROR" =>
           \E s \in sessions' :
             s.id = id /\ s.sensor = p.sensor /\ s.address = p.address
  PROVE  SentInv'
<1> DEFINE r == [Reply(p, type, stat) EXCEPT !.session = id]
<1>1. /\ r \in Replies
      /\ r.type = type /\ r.status = stat /\ r.session = id
      /\ r.sensor = p.sensor /\ r.to = p.address /\ r.request = p.type
      /\ r.sequence = p.sequence
  BY RequestsAssumption DEF Reply, Replies
<1>2. id = p.session => ReplyKey(r) = p.key
  BY <1>1, RequestsAssumption DEF ReplyKey
<1> HIDE DEF r
<1>3. sent' \subseteq {r}
  BY DEF r
<1>4. \A x \in sent' : x = r
  BY <1>3
<1> QED
  BY <1>1, <1>2, <1>3, <1>4
     DEF SentInv, AckMeansProcessed, RepliesExpected, AnswersHaveSession, OpenedFor

LEMMA NothingIsRight ==
  ASSUME sent' = {}
  PROVE  SentInv'
BY DEF SentInv, AckMeansProcessed, RepliesExpected, AnswersHaveSession

LEMMA ReplyAsIs ==
  ASSUME NEW p \in Packets, NEW type, NEW stat
  PROVE  Reply(p, type, stat) = [Reply(p, type, stat) EXCEPT !.session = p.session]
BY DEF Reply

\* _send_error; a registration or a request that asks for no ACK may be answered
\* with an error as well.
LEMMA ErrorIsRight ==
  ASSUME NEW p \in Packets, NEW stat \in Statuses, SendError(p, stat)
  PROVE  SentInv' /\ suppressed' = suppressed
<1>1. "ERROR" \in Expected(p.type) /\ p.session \in SessionIds \cup {0}
  BY RequestsAssumption DEF Expected
<1>2. sent' = {[Reply(p, "ERROR", stat) EXCEPT !.session = p.session]}
  BY ReplyAsIs DEF SendError, Send
<1>3. SentInv'
  BY <1>1, <1>2, SentIsRight DEF ReplyTypes
<1> QED
  BY <1>3 DEF SendError, Send

\* _send_ack, for a request that is no registration and has no typed response.
LEMMA AckIsRight ==
  ASSUME ServerTypeOK, NEW p \in Packets, NEW stat \in Statuses,
         SendAck(p, stat), ValidSession(p), sessions \subseteq sessions',
         p.type # "REGISTER_REQ", ~HasTypedResponse(p),
         stat \in {"ACCEPTED", "DUPLICATE"} => lastCommit'[p.key] # Never
  PROVE  SentInv' /\ suppressed' \subseteq SessionIds \X Sensors
<1>1. "ACK" \in Expected(p.type) /\ p.session \in SessionIds \cup {0}
  BY RequestsAssumption DEF Expected, HasTypedResponse
<1>2. sent' \subseteq {[Reply(p, "ACK", stat) EXCEPT !.session = p.session]}
  BY ReplyAsIs DEF SendAck, Send
<1>3. SentInv'
  BY <1>1, <1>2, SentIsRight DEF ReplyTypes, ValidSession
<1>4. suppressed' \subseteq SessionIds \X Sensors
  BY ValidSessionDrawn, RequestsAssumption DEF SendAck, Send, ServerTypeOK
<1> QED
  BY <1>3, <1>4

\* The typed response of _dispatch.
LEMMA TypedIsRight ==
  ASSUME NEW p \in Packets, HasTypedResponse(p), Send(TypedResponse(p)),
         ValidSession(p), sessions \subseteq sessions'
  PROVE  SentInv' /\ suppressed' = suppressed
<1>1. PICK type \in {"CONFIG_RES", "HEARTBEAT_ACK"} :
        TypedResponse(p) = Reply(p, type, "OK") /\ type \in Expected(p.type)
  BY DEF TypedResponse, HasTypedResponse, Expected
<1>2. p.session \in SessionIds \cup {0}
  BY RequestsAssumption
<1>3. sent' = {[Reply(p, type, "OK") EXCEPT !.session = p.session]}
  BY <1>1, ReplyAsIs DEF Send
<1>4. SentInv'
  BY <1>1, <1>2, <1>3, SentIsRight DEF ReplyTypes, Statuses, ValidSession
<1> QED
  BY <1>4 DEF Send

\* _send_expired for a datagram that has a session, or is a registration.
LEMMA ExpiredIsRight ==
  ASSUME ServerTypeOK, NEW p \in Packets, SendExpired(p),
         sessions \subseteq sessions',
         p.type = "REGISTER_REQ" \/ ValidSession(p)
  PROVE  SentInv' /\ suppressed' \subseteq SessionIds \X Sensors
<1>1. "EXPIRED" \in Statuses \ {"ACCEPTED", "DUPLICATE"}
  BY DEF Statuses
<1>2. CASE SendError(p, "EXPIRED")
  BY <1>1, <1>2, ErrorIsRight DEF ServerTypeOK
<1>3. CASE SendAck(p, "EXPIRED") /\ ~HasTypedResponse(p)
           /\ p.type # "REGISTER_REQ"
  BY <1>1, <1>3, AckIsRight
<1>4. CASE SendNothing
  BY <1>4, NothingIsRight DEF SendNothing, ServerTypeOK
<1> QED
  BY <1>2, <1>3, <1>4 DEF SendExpired, HasTypedResponse

\* A REGISTER_RES for a session of the sensor and the address it goes to.
LEMMA RegisteredIsRight ==
  ASSUME NEW p \in Packets, p.type = "REGISTER_REQ",
         NEW s \in sessions', s.id \in SessionIds,
         s.sensor = p.sensor, s.address = p.address, Send(Registered(p, s))
  PROVE  SentInv' /\ suppressed' = suppressed
<1>1. "REGISTER_RES" \in Expected(p.type)
  BY DEF Expected
<1>2. sent' = {[Reply(p, "REGISTER_RES", "REGISTERED") EXCEPT !.session = s.id]}
  BY DEF Send, Registered
<1>3. SentInv'
  BY <1>1, <1>2, SentIsRight DEF ReplyTypes, Statuses
<1> QED
  BY <1>3 DEF Send
-----------------------------------------------------------------------------
(* The workers *)

WorkersTyped ==
  /\ stage \in [Workers -> Stages]
  /\ job \in [Workers -> Packets \cup {NoPacket}]
  /\ \A w \in Workers : job[w] = NoPacket <=> stage[w] = "free"
  /\ status \in [Workers -> Statuses]

\* A step of w leaves the others where they are, or wakes them.
OthersStay(w) ==
  \A v \in Workers \ {w} :
    /\ stage'[v] = stage[v] /\ job'[v] = job[v] /\ packet'[v] = packet[v]
    /\ call'[v] = call[v] \/ (call[v] = "wait" /\ call'[v] = "woken")

LEMMA BusyHasJob ==
  ASSUME ServerTypeOK, NEW w \in Workers, stage[w] # "free"
  PROVE  job[w] \in Packets /\ job[w].key \in Keys
BY PacketsAssumption DEF ServerTypeOK

\* What holds of a worker still holds after a step of another.
LEMMA OthersKeep ==
  ASSUME ServerIInv, HistoryKept, NEW w \in Workers, OthersStay(w),
         StageMatchesCall(w)', JobHasSession(w)', AnswerIsCommitted(w)'
  PROVE  WorkersInv'
<1> SUFFICES ASSUME NEW v \in Workers, v # w
             PROVE  (StageMatchesCall(v) /\ JobHasSession(v)
                     /\ AnswerIsCommitted(v))'
  BY DEF WorkersInv
<1>1. /\ stage'[v] = stage[v] /\ job'[v] = job[v] /\ packet'[v] = packet[v]
      /\ call'[v] = call[v] \/ (call[v] = "wait" /\ call'[v] = "woken")
  BY DEF OthersStay
<1>2. StageMatchesCall(v) /\ JobHasSession(v) /\ AnswerIsCommitted(v)
  BY DEF ServerIInv, WorkersInv
<1>3. StageMatchesCall(v)'
  BY <1>1, <1>2 DEF StageMatchesCall, InCache
<1>4. JobHasSession(v)'
  BY <1>1, <1>2 DEF JobHasSession, InCache, ValidSession, HistoryKept
<1>5. stage[v] # "free" => job[v].key \in Keys
  BY BusyHasJob DEF ServerIInv
<1>6. call[v] = "duplicate" => stage[v] # "free"
  BY <1>2 DEF StageMatchesCall, InCache
<1>7. AnswerIsCommitted(v)'
  BY <1>1, <1>2, <1>5, <1>6 DEF AnswerIsCommitted, HasTypedResponse, HistoryKept
<1> QED
  BY <1>3, <1>4, <1>7

LEMMA GoIsTyped ==
  ASSUME WorkersTyped, NEW w \in Workers, stage[w] # "free",
         NEW where \in Stages, Go(w, where)
  PROVE  WorkersTyped'
<1>1. CASE where = "free"
  BY <1>1 DEF WorkersTyped, Go, Statuses
<1>2. CASE where # "free"
  BY <1>2 DEF WorkersTyped, Go
<1> QED
  BY <1>1, <1>2

\* A worker that is done has nothing left to say.
LEMMA LeavingKeeps ==
  ASSUME ServerIInv, HistoryKept, NEW w \in Workers, stage[w] # "free",
         Go(w, "free"), call'[w] = "idle",
         \A v \in Workers \ {w} :
           /\ packet'[v] = packet[v]
           /\ call'[v] = call[v] \/ (call[v] = "wait" /\ call'[v] = "woken")
  PROVE  WorkersInv' /\ WorkersTyped'
<1>1. WorkersTyped
  BY DEF ServerIInv, ServerTypeOK, WorkersTyped
<1>2. WorkersTyped'
  BY <1>1, GoIsTyped DEF Stages
<1>3. OthersStay(w) /\ stage'[w] = "free"
  BY <1>1 DEF OthersStay, Go, WorkersTyped
<1>4. StageMatchesCall(w)' /\ JobHasSession(w)' /\ AnswerIsCommitted(w)'
  BY <1>3 DEF StageMatchesCall, JobHasSession, AnswerIsCommitted, InCache
<1> QED
  BY <1>2, <1>3, <1>4, OthersKeep

\* Steps that touch neither sessions nor latest values nor commits.
LEMMA StateKeeps ==
  ASSUME ServerIInv, UNCHANGED <<sharedVars, lastCommit>>
  PROVE  /\ StateOwned' /\ SessionsDistinct' /\ sessions' \subseteq Sessions
         /\ \A k \in DOMAIN latest' : latest'[k].sequence \in Nat
BY DEF ServerIInv, ServerTypeOK, StateOwned, SessionsDistinct, sharedVars

LEMMA Assemble ==
  ASSUME IInv', WorkersTyped', WorkersInv', SentInv', SessionsDistinct',
         StateOwned', sessions' \subseteq Sessions,
         \A k \in DOMAIN latest' : latest'[k].sequence \in Nat,
         suppressed' \subseteq SessionIds \X Sensors
  PROVE  ServerIInv'
BY DEF ServerIInv, ServerTypeOK, WorkersTyped, SentInv
-----------------------------------------------------------------------------
(* One lemma for each group of steps *)

LEMMA RejectKeeps ==
  ASSUME ServerIInv, IInv', HistoryKept, NEW w \in Workers, NEW p \in Packets,
         \/ RejectEnvelope(w, p) \/ RejectSession(w, p) \/ RejectExpired(w, p)
         \/ RejectPayload(w, p)
  PROVE  ServerIInv'
<1>1. UNCHANGED <<vars, workerVars, sharedVars>>
  BY DEF RejectEnvelope, RejectSession, RejectExpired, RejectPayload, Stay
<1>2. ServerTypeOK
  BY DEF ServerIInv
<1>3. SentInv' /\ suppressed' \subseteq SessionIds \X Sensors
  <2>1. CASE \E stat \in Statuses : SendError(p, stat)
    BY <1>2, <2>1, ErrorIsRight DEF ServerTypeOK
  <2>2. CASE RejectExpired(w, p)
    BY <1>2, <2>2, ExpiredIsRight DEF RejectExpired, HistoryKept
  <2> QED
    BY <2>1, <2>2
       DEF RejectEnvelope, RejectSession, RejectPayload, Statuses
<1>4. WorkersTyped'
  BY <1>1, <1>2 DEF ServerTypeOK, WorkersTyped, workerVars
<1>5. WorkersInv'
  BY <1>1 DEF ServerIInv, WorkersInv, StageMatchesCall, JobHasSession,
     AnswerIsCommitted, InCache, ValidSession, HasTypedResponse, vars, workerVars,
     sharedVars
<1> QED
  BY <1>1, <1>3, <1>4, <1>5, StateKeeps, Assemble DEF vars

LEMMA EnterKeeps ==
  ASSUME ServerIInv, IInv', HistoryKept, NEW w \in Workers, NEW p \in Packets,
         AcceptRegister(w, p) \/ Accept(w, p)
  PROVE  ServerIInv'
<1>1. PICK where \in {"register", "claiming"} : Enter(w, p, where)
  BY DEF AcceptRegister, Accept
<1>2. /\ ServerTypeOK /\ IInv /\ StageMatchesCall(w)
      /\ call \in [Workers -> CallStates] /\ packet \in [Workers -> Packets \cup {NoPacket}]
  BY DEF ServerIInv, WorkersInv, IInv, TypeOK
<1>3. WorkersTyped'
  BY <1>1, <1>2, NoPacketAssumption DEF ServerTypeOK, WorkersTyped, Enter, Stages
<1>4. OthersStay(w) /\ stage'[w] = where /\ job'[w] = p
  BY <1>1, <1>2
     DEF ServerTypeOK, OthersStay, AcceptRegister, Accept, Enter, Submit, vars
<1>5. ASSUME AcceptRegister(w, p)
      PROVE  WorkersInv'
  <2>1. call'[w] = "idle" /\ stage'[w] = "register" /\ p.type = "REGISTER_REQ"
    BY <1>2, <1>5
       DEF ServerTypeOK, AcceptRegister, Enter, StageMatchesCall, InCache, vars
  <2>2. StageMatchesCall(w)' /\ JobHasSession(w)' /\ AnswerIsCommitted(w)'
    BY <1>4, <2>1 DEF StageMatchesCall, JobHasSession, AnswerIsCommitted, InCache
  <2> QED
    BY <1>4, <2>2, OthersKeep
<1>6. ASSUME Accept(w, p)
      PROVE  WorkersInv'
  <2>1. /\ call'[w] = "claim" /\ packet'[w] = p /\ stage'[w] = "claiming"
        /\ p.type # "REGISTER_REQ" /\ ValidSession(p)
    BY <1>2, <1>6 DEF ServerTypeOK, Accept, Enter, Submit
  <2>2. StageMatchesCall(w)' /\ AnswerIsCommitted(w)'
    BY <1>4, <2>1 DEF StageMatchesCall, AnswerIsCommitted, InCache
  <2>3. JobHasSession(w)'
    BY <1>4, <2>1 DEF JobHasSession, InCache, ValidSession, HistoryKept
  <2> QED
    BY <1>4, <2>2, <2>3, OthersKeep
<1>7. SentInv' /\ suppressed' \subseteq SessionIds \X Sensors
  BY <1>1, <1>2, NothingIsRight DEF Enter, SendNothing, ServerTypeOK
<1>8. UNCHANGED <<sharedVars, lastCommit>>
  BY <1>1 DEF Enter, AcceptRegister, Accept, Submit, vars
<1> QED
  BY <1>3, <1>5, <1>6, <1>7, <1>8, StateKeeps, Assemble

LEMMA RegisterKeeps ==
  ASSUME ServerIInv, IInv', HistoryKept, NEW w \in Workers,
         RegisterLate(w) \/ RegisterInvalid(w) \/ RegisterAgain(w)
  PROVE  ServerIInv'
<1>1. /\ stage[w] = "register" /\ Go(w, "free")
      /\ UNCHANGED <<vars, sharedVars>>
  BY DEF RegisterLate, RegisterInvalid, RegisterAgain
<1>2. ServerTypeOK /\ StageMatchesCall(w) /\ JobHasSession(w)
  BY DEF ServerIInv, WorkersInv
<1>3. job[w] \in Packets /\ job[w].type = "REGISTER_REQ"
  BY <1>1, <1>2, BusyHasJob DEF JobHasSession
<1>4. WorkersInv' /\ WorkersTyped'
  BY <1>1, <1>2, LeavingKeeps DEF StageMatchesCall, InCache, vars
<1>5. SentInv' /\ suppressed' \subseteq SessionIds \X Sensors
  <2>1. CASE RegisterLate(w)
    BY <1>2, <2>1, NothingIsRight DEF RegisterLate, SendNothing, ServerTypeOK
  <2>2. CASE RegisterInvalid(w)
    BY <1>2, <1>3, <2>2, ErrorIsRight DEF RegisterInvalid, ServerTypeOK, Statuses
  <2>3. CASE RegisterAgain(w)
    <3>1. PICK s \in Existing(job[w]) : Send(Registered(job[w], s))
      BY <2>3 DEF RegisterAgain
    <3>2. /\ s \in sessions' /\ s.id \in SessionIds
          /\ s.sensor = job[w].sensor /\ s.address = job[w].address
      BY <1>1, <1>2 DEF Existing, ServerTypeOK, Sessions, sharedVars
    <3> QED
      BY <1>2, <1>3, <3>1, <3>2, RegisteredIsRight DEF ServerTypeOK
  <2> QED
    BY <2>1, <2>2, <2>3
<1> QED
  BY <1>1, <1>4, <1>5, StateKeeps, Assemble DEF vars

LEMMA RegisterNewKeeps ==
  ASSUME ServerIInv, IInv', HistoryKept, NEW w \in Workers, RegisterNew(w)
  PROVE  ServerIInv'
<1>1. /\ stage[w] = "register" /\ Go(w, "free") /\ Existing(job[w]) = {}
      /\ UNCHANGED <<vars, latest>>
  BY DEF RegisterNew
<1>2. ServerTypeOK /\ StageMatchesCall(w) /\ JobHasSession(w)
  BY DEF ServerIInv, WorkersInv
<1>3. job[w] \in Packets /\ job[w].type = "REGISTER_REQ"
  BY <1>1, <1>2, BusyHasJob DEF JobHasSession
<1>4. WorkersInv' /\ WorkersTyped'
  BY <1>1, <1>2, LeavingKeeps DEF StageMatchesCall, InCache, vars
<1>5. PICK id \in NewSessionIds :
        LET s == [id |-> id, sensor |-> job[w].sensor, address |-> job[w].address,
                  identity |-> job[w].identity]
        IN  sessions' = sessions \cup {s} /\ Send(Registered(job[w], s))
  BY DEF RegisterNew
<1> DEFINE new == [id |-> id, sensor |-> job[w].sensor,
                   address |-> job[w].address, identity |-> job[w].identity]
<1>6. /\ new \in Sessions /\ sessions' = sessions \cup {new}
      /\ Send(Registered(job[w], new))
  BY <1>3, <1>5, RequestsAssumption DEF Sessions, NewSessionIds
<1>7. \A s \in sessions :
        /\ s.id # id
        /\ ~(/\ s.sensor = job[w].sensor /\ s.address = job[w].address
             /\ s.identity = job[w].identity)
  BY <1>1 DEF Existing, NewSessionIds
<1>8. SessionsDistinct' /\ sessions' \subseteq Sessions
  BY <1>2, <1>6, <1>7 DEF ServerIInv, SessionsDistinct, ServerTypeOK
<1>9. SentInv' /\ suppressed' \subseteq SessionIds \X Sensors
  <2>1. /\ new \in sessions' /\ new.id \in SessionIds
        /\ new.sensor = job[w].sensor /\ new.address = job[w].address
    BY <1>6 DEF Sessions
  <2> HIDE DEF new
  <2> QED
    BY <1>2, <1>3, <1>6, <2>1, RegisteredIsRight DEF ServerTypeOK
<1>10. /\ StateOwned'
       /\ \A k \in DOMAIN latest' : latest'[k].sequence \in Nat
  BY <1>1, <1>2, <1>6 DEF ServerIInv, StateOwned, ServerTypeOK, vars
<1> QED
  BY <1>4, <1>8, <1>9, <1>10, Assemble

LEMMA ClaimKeeps ==
  ASSUME ServerIInv, IInv', HistoryKept, NEW w \in Workers, ClaimStep(w)
  PROVE  ServerIInv'
<1>1. /\ Claim(w) \/ WaitTimeout(w)
      /\ sent' = {} /\ UNCHANGED <<workerVars, sharedVars, suppressed>>
  BY DEF ClaimStep, ServerStays, SendNothing
<1>2. /\ ServerTypeOK /\ TypeOK /\ CacheInv
      /\ StageMatchesCall(w) /\ JobHasSession(w) /\ AnswerIsCommitted(w)
  BY DEF ServerIInv, WorkersInv, IInv
<1>3. /\ call[w] # "idle" /\ call[w] # "owner" /\ call'[w] # "idle"
      /\ \A v \in Workers \ {w} : call'[v] = call[v]
      /\ UNCHANGED <<packet, lastCommit>>
  BY <1>1, <1>2 DEF TypeOK, Claim, ClaimDuplicate, ClaimNew, ClaimExpired,
     ClaimBlocked, ClaimWait, WaitTimeout, Answer, Claiming
<1>4. stage[w] = "claiming" /\ packet[w] = job[w] /\ job[w].key \in Keys
  BY <1>2, <1>3, BusyHasJob DEF StageMatchesCall, InCache
<1>5. ASSUME call'[w] = "duplicate"
      PROVE  lastCommit[job[w].key] # Never
  <2>1. ClaimDuplicate(w)
    BY <1>1, <1>2, <1>5 DEF TypeOK, Claim, ClaimNew, ClaimExpired, ClaimWait,
       WaitTimeout, Answer
  <2>2. packet[w].key \in KeysIn(seen)
    BY <1>2, <2>1, PruneKeeps DEF ClaimDuplicate, Answer
  <2>3. PICK i \in DOMAIN seen : seen[i].key = packet[w].key
    BY <2>2 DEF KeysIn
  <2>4. seen[i] \in Entries
    BY <1>2 DEF TypeOK
  <2> QED
    BY <1>2, <1>4, <2>3, <2>4 DEF CacheInv, SeenInOrder, Entries, Never
<1>6. WorkersInv'
  <2>1. OthersStay(w)
    BY <1>1, <1>3 DEF OthersStay, workerVars
  <2>2. StageMatchesCall(w)'
    BY <1>1, <1>3, <1>4 DEF StageMatchesCall, InCache, workerVars
  <2>3. JobHasSession(w)'
    BY <1>1, <1>2 DEF JobHasSession, InCache, ValidSession, workerVars, sharedVars
  <2>4. AnswerIsCommitted(w)'
    BY <1>1, <1>3, <1>4, <1>5 DEF AnswerIsCommitted, workerVars
  <2> QED
    BY <2>1, <2>2, <2>3, <2>4, OthersKeep
<1>7. WorkersTyped' /\ suppressed' \subseteq SessionIds \X Sensors
  BY <1>1, <1>2 DEF ServerTypeOK, WorkersTyped, workerVars
<1> QED
  BY <1>1, <1>3, <1>6, <1>7, NothingIsRight, StateKeeps, Assemble

LEMMA ReplyKeeps ==
  ASSUME ServerIInv, IInv', HistoryKept, NEW w \in Workers,
         ReplyExpired(w) \/ ReplyDuplicate(w) \/ SendReply(w)
  PROVE  ServerIInv'
<1>1. /\ Go(w, "free") /\ UNCHANGED <<sharedVars, lastCommit>>
  BY DEF ReplyExpired, ReplyDuplicate, SendReply, Return, vars
<1>2. /\ ServerTypeOK /\ TypeOK
      /\ StageMatchesCall(w) /\ JobHasSession(w) /\ AnswerIsCommitted(w)
  BY DEF ServerIInv, WorkersInv, IInv
<1>3. /\ stage[w] \in {"claiming", "reply", "replyError"}
      /\ call'[w] = "idle"
      /\ \A v \in Workers \ {w} : packet'[v] = packet[v] /\ call'[v] = call[v]
  BY <1>2 DEF TypeOK, ReplyExpired, ReplyDuplicate, SendReply, Return,
     StageMatchesCall, InCache, vars
<1>4. /\ job[w] \in Packets
      /\ job[w].type # "REGISTER_REQ" /\ ValidSession(job[w])
  BY <1>2, <1>3, BusyHasJob DEF JobHasSession, InCache
<1>5. WorkersInv' /\ WorkersTyped'
  BY <1>1, <1>3, LeavingKeeps
<1>6. SentInv' /\ suppressed' \subseteq SessionIds \X Sensors
  <2>1. CASE ReplyExpired(w)
    BY <1>2, <1>4, <2>1, ExpiredIsRight DEF ReplyExpired, HistoryKept
  <2>2. CASE ReplyDuplicate(w)
    <3>1. lastCommit'[job[w].key] # Never
      BY <1>1, <1>2, <2>2 DEF ReplyDuplicate, AnswerIsCommitted
    <3>2. CASE SendAck(job[w], "DUPLICATE") /\ ~HasTypedResponse(job[w])
      BY <1>2, <1>4, <3>1, <3>2, AckIsRight DEF Statuses, HistoryKept
    <3>3. CASE HasTypedResponse(job[w]) /\ Send(TypedResponse(job[w]))
      BY <1>2, <1>4, <3>3, TypedIsRight DEF ServerTypeOK, HistoryKept
    <3>4. CASE SendNothing
      BY <1>2, <3>4, NothingIsRight DEF SendNothing, ServerTypeOK
    <3> QED
      BY <2>2, <3>2, <3>3, <3>4 DEF ReplyDuplicate
  <2>3. CASE stage[w] = "reply" /\ SendAck(job[w], status[w])
    <3>1. status[w] \in Statuses /\ ~HasTypedResponse(job[w])
      BY <1>2, <2>3 DEF ServerTypeOK, AnswerIsCommitted
    <3>2. lastCommit'[job[w].key] # Never
      BY <1>1, <1>2, <2>3 DEF AnswerIsCommitted
    <3> QED
      BY <1>2, <1>4, <2>3, <3>1, <3>2, AckIsRight DEF HistoryKept
  <2>4. CASE SendError(job[w], "INTERNAL_ERROR")
    BY <1>2, <1>4, <2>4, ErrorIsRight DEF ServerTypeOK, Statuses
  <2> QED
    BY <2>1, <2>2, <2>3, <2>4 DEF SendReply
<1> QED
  BY <1>1, <1>5, <1>6, StateKeeps, Assemble

\* What the handler does to the latest values and sends, for a datagram whose
\* session is valid.
LEMMA EffectIsRight ==
  ASSUME ServerIInv, NEW p \in Packets, ValidSession(p),
         Effect(p) \/ (SendNothing /\ UNCHANGED latest),
         UNCHANGED <<sessions, lastCommit>>
  PROVE  /\ SentInv' /\ suppressed' \subseteq SessionIds \X Sensors
         /\ StateOwned'
         /\ \A k \in DOMAIN latest' : latest'[k].sequence \in Nat
<1>1. ServerTypeOK /\ StateOwned
  BY DEF ServerIInv
<1>2. SentInv' /\ suppressed' = suppressed
  <2>1. CASE HasTypedResponse(p) /\ Send(TypedResponse(p))
    BY <2>1, TypedIsRight
  <2>2. CASE SendNothing
    BY <2>2, NothingIsRight DEF SendNothing
  <2> QED
    BY <2>1, <2>2 DEF Effect
<1>3. CASE UpdateLatest(p)
  <2> DEFINE key == LatestKey(p)
  <2>1. /\ DOMAIN latest' = DOMAIN latest \cup {key}
        /\ \A k \in DOMAIN latest \ {key} : latest'[k] = latest[k]
        /\ latest'[key].sequence = p.sequence
    BY <1>3 DEF UpdateLatest
  <2>2. \E s \in sessions : s.id = key[1] /\ s.sensor = key[2]
    BY DEF ValidSession, LatestKey
  <2>3. \A k \in DOMAIN latest' :
          k = key \/ (k \in DOMAIN latest /\ k # key)
    BY <2>1
  <2> HIDE DEF key
  <2>4. StateOwned'
    BY <1>1, <2>2, <2>3 DEF StateOwned
  <2>5. \A k \in DOMAIN latest' : latest'[k].sequence \in Nat
    BY <1>1, <2>1, <2>3, RequestsAssumption DEF ServerTypeOK
  <2> QED
    BY <1>1, <1>2, <2>4, <2>5 DEF ServerTypeOK
<1>4. CASE UNCHANGED latest
  BY <1>1, <1>2, <1>4 DEF ServerTypeOK, StateOwned
<1> QED
  BY <1>3, <1>4 DEF Effect

LEMMA DispatchKeeps ==
  ASSUME ServerIInv, IInv', HistoryKept, NEW w \in Workers,
         Dispatch(w) \/ DispatchFails(w)
  PROVE  ServerIInv'
<1>1. /\ stage[w] = "claiming" /\ call[w] = "owner"
      /\ Effect(job[w]) \/ (SendNothing /\ UNCHANGED latest)
      /\ UNCHANGED <<vars, job, sessions>>
  BY DEF Dispatch, DispatchFails, Go
<1>2. ServerTypeOK /\ StageMatchesCall(w) /\ JobHasSession(w)
  BY DEF ServerIInv, WorkersInv
<1>3. PICK where \in {"dispatched", "failed"} :
        stage' = [stage EXCEPT ![w] = where]
  BY DEF Dispatch, DispatchFails, Go
<1>4. /\ job[w] \in Packets
      /\ job[w].type # "REGISTER_REQ" /\ ValidSession(job[w])
  BY <1>1, <1>2, BusyHasJob DEF JobHasSession, InCache
<1>5. WorkersTyped'
  <2>1. ResultOf(job[w]) \in Statuses
    BY DEF ResultOf, Statuses
  <2>2. status' \in [Workers -> Statuses]
    BY <1>2, <2>1 DEF ServerTypeOK, Dispatch, DispatchFails, Go
  <2> QED
    BY <1>1, <1>2, <1>3, <2>2 DEF ServerTypeOK, WorkersTyped, Stages
<1>6. WorkersInv'
  <2>1. OthersStay(w) /\ stage'[w] = where
    BY <1>1, <1>2, <1>3 DEF OthersStay, ServerTypeOK, vars
  <2>2. StageMatchesCall(w)' /\ AnswerIsCommitted(w)'
    BY <1>1, <1>2, <2>1 DEF StageMatchesCall, AnswerIsCommitted, InCache, vars
  <2>3. JobHasSession(w)'
    BY <1>1, <1>4, <2>1 DEF JobHasSession, InCache, ValidSession
  <2> QED
    BY <2>1, <2>2, <2>3, OthersKeep
<1>7. SessionsDistinct' /\ sessions' \subseteq Sessions
  BY <1>1, <1>2 DEF ServerIInv, SessionsDistinct, ServerTypeOK
<1> QED
  BY <1>1, <1>4, <1>5, <1>6, <1>7, EffectIsRight, Assemble DEF vars

LEMMA FinishKeeps ==
  ASSUME ServerIInv, IInv', HistoryKept, NEW w \in Workers,
         FinishOk(w) \/ FinishFailed(w)
  PROVE  ServerIInv'
<1>1. PICK success \in BOOLEAN :
        /\ FinishMessage(w, success)
        /\ IF success THEN FinishOk(w) ELSE FinishFailed(w)
  BY DEF FinishOk, FinishFailed
<1>2. /\ ServerTypeOK /\ TypeOK /\ StageMatchesCall(w) /\ JobHasSession(w)
      /\ StateOwned
  BY DEF ServerIInv, WorkersInv, IInv
<1>3. /\ stage[w] \in {"dispatched", "failed"} /\ sent' = {}
      /\ UNCHANGED <<sessions, latest, suppressed>>
  BY <1>1 DEF FinishOk, FinishFailed, SendNothing, sharedVars
<1>4. /\ job[w] \in Packets /\ job[w].key \in Keys /\ packet[w] = job[w]
      /\ job[w].type # "REGISTER_REQ" /\ ValidSession(job[w])
  BY <1>2, <1>3, BusyHasJob DEF StageMatchesCall, JobHasSession, InCache
<1>5. /\ call'[w] = "idle"
      /\ \A v \in Workers \ {w} :
           /\ packet'[v] = packet[v]
           /\ call'[v] = call[v] \/ (call[v] = "wait" /\ call'[v] = "woken")
  BY <1>1, <1>2 DEF TypeOK, FinishMessage, NotifyAll
<1>6. PICK where \in {"free", "reply", "replyError"} :
        /\ Go(w, where)
        /\ where = "reply" => success /\ ~HasTypedResponse(job[w])
  BY <1>1 DEF FinishOk, FinishFailed
<1>7. WorkersTyped'
  BY <1>2, <1>3, <1>6, GoIsTyped DEF ServerTypeOK, WorkersTyped, Stages
<1>8. ASSUME success
      PROVE  lastCommit'[job[w].key] # Never
  BY <1>1, <1>2, <1>4, <1>8 DEF FinishMessage, TypeOK, Never
<1>9. ASSUME where # "free"
      PROVE  WorkersInv'
  <2>1. OthersStay(w) /\ stage'[w] = where /\ job'[w] = job[w]
    BY <1>2, <1>5, <1>6, <1>9 DEF OthersStay, Go, ServerTypeOK
  <2>2. StageMatchesCall(w)'
    BY <1>5, <1>9, <2>1 DEF StageMatchesCall, InCache
  <2>3. JobHasSession(w)'
    BY <1>3, <1>4, <1>9, <2>1 DEF JobHasSession, InCache, ValidSession
  <2>4. AnswerIsCommitted(w)'
    BY <1>5, <1>6, <1>8, <2>1 DEF AnswerIsCommitted, HasTypedResponse
  <2> QED
    BY <2>1, <2>2, <2>3, <2>4, OthersKeep
<1>10. ASSUME where = "free"
       PROVE  WorkersInv'
  BY <1>3, <1>5, <1>6, <1>10, LeavingKeeps
<1>11. StateOwned'
  <2>1. \A k \in Keys \ {job[w].key} : lastCommit'[k] = lastCommit[k]
    BY <1>1, <1>2, <1>4 DEF FinishMessage, TypeOK
  <2>2. \E s \in sessions : s.id = job[w].key[1] /\ s.sensor = job[w].key[2]
    BY <1>4, RequestsAssumption DEF ValidSession
  <2> QED
    BY <1>2, <1>3, <2>1, <2>2 DEF StateOwned
<1>12. /\ SessionsDistinct' /\ sessions' \subseteq Sessions
       /\ suppressed' \subseteq SessionIds \X Sensors
       /\ \A k \in DOMAIN latest' : latest'[k].sequence \in Nat
  BY <1>2, <1>3 DEF ServerIInv, SessionsDistinct, ServerTypeOK
<1> QED
  BY <1>3, <1>7, <1>9, <1>10, <1>11, <1>12, NothingIsRight, Assemble

\* Time, and the notification of stop, which wakes workers and nothing else.
LEMMA OtherStepsKeep ==
  ASSUME ServerIInv, IInv', HistoryKept, ServerStopNotifies \/ ServerTick
  PROVE  ServerIInv'
<1>1. /\ sent' = {} /\ UNCHANGED <<workerVars, sharedVars, suppressed>>
      /\ StopNotifies \/ Tick
  BY DEF ServerStopNotifies, ServerTick, ServerStays, SendNothing
<1>2. ServerTypeOK /\ TypeOK /\ WorkersInv
  BY DEF ServerIInv, IInv
<1>3. /\ UNCHANGED <<packet, lastCommit>>
      /\ \A v \in Workers :
           call'[v] = call[v] \/ (call[v] = "wait" /\ call'[v] = "woken")
  BY <1>1, <1>2 DEF StopNotifies, Tick, TypeOK, NotifyAll
<1>4. WorkersInv'
  BY <1>1, <1>2, <1>3 DEF WorkersInv, StageMatchesCall, JobHasSession,
     AnswerIsCommitted, InCache, ValidSession, HasTypedResponse, workerVars,
     sharedVars
<1>5. WorkersTyped' /\ suppressed' \subseteq SessionIds \X Sensors
  BY <1>1, <1>2 DEF ServerTypeOK, WorkersTyped, workerVars
<1> QED
  BY <1>1, <1>3, <1>4, <1>5, NothingIsRight, StateKeeps, Assemble

LEMMA InitServerIInv == ServerInit => ServerIInv
<1> SUFFICES ASSUME ServerInit
             PROVE  ServerIInv
  OBVIOUS
<1>1. IInv
  BY InitIInv DEF ServerInit
<1>2. ServerTypeOK
  BY DEF ServerInit, ServerTypeOK, Stages, Statuses
<1>3. WorkersInv
  BY DEF ServerInit, Init, WorkersInv, StageMatchesCall, JobHasSession,
     AnswerIsCommitted, InCache
<1>4. SentInv /\ SessionsDistinct
  BY DEF ServerInit, SentInv, AckMeansProcessed, RepliesExpected,
     AnswersHaveSession, SessionsDistinct
<1>5. StateOwned
  BY DEF ServerInit, Init, StateOwned
<1> QED
  BY <1>1, <1>2, <1>3, <1>4, <1>5 DEF ServerIInv

LEMMA NextServerIInv == ServerIInv /\ [ServerNext]_allVars => ServerIInv'
<1> SUFFICES ASSUME ServerIInv, [ServerNext]_allVars
             PROVE  ServerIInv'
  OBVIOUS
<1>1. IInv' /\ HistoryKept
  BY StepOfCache, NextIInv, HistoryGrows DEF ServerIInv
<1>2. CASE UNCHANGED allVars
  <2>1. UNCHANGED <<vars, workerVars, sharedVars, sendVars>>
    BY <1>2 DEF allVars, serverVars
  <2>2. WorkersTyped' /\ suppressed' \subseteq SessionIds \X Sensors
    BY <2>1 DEF ServerIInv, ServerTypeOK, WorkersTyped, workerVars, sendVars
  <2>3. WorkersInv'
    BY <2>1 DEF ServerIInv, WorkersInv, StageMatchesCall, JobHasSession,
       AnswerIsCommitted, InCache, ValidSession, HasTypedResponse, vars,
       workerVars, sharedVars
  <2>4. SentInv'
    BY <2>1 DEF ServerIInv, SentInv, AckMeansProcessed, RepliesExpected,
       AnswersHaveSession, OpenedFor, vars, sharedVars, sendVars
  <2> QED
    BY <1>1, <2>1, <2>2, <2>3, <2>4, StateKeeps, Assemble DEF vars
<1>3. ASSUME NEW w \in Workers, NEW p \in Packets, Receive(w, p)
      PROVE  ServerIInv'
  BY <1>1, <1>3, RejectKeeps, EnterKeeps DEF Receive
<1>4. ASSUME NEW w \in Workers, Work(w) \/ DispatchFails(w)
      PROVE  ServerIInv'
  BY <1>1, <1>4, RegisterKeeps, RegisterNewKeeps, ClaimKeeps, ReplyKeeps,
     DispatchKeeps, FinishKeeps DEF Work
<1>5. CASE ServerStopNotifies \/ ServerTick
  BY <1>1, <1>5, OtherStepsKeep
<1> QED
  BY <1>2, <1>3, <1>4, <1>5 DEF ServerNext
-----------------------------------------------------------------------------
(* Theorems *)

\* The workers of the server use the duplicate cache as its specification says:
\* every behaviour of the server is, for the cache, one of DuplicateCache.
THEOREM ServerUsesCache == ServerSpec => Spec
<1>1. ServerInit => Init
  BY DEF ServerInit
<1> QED
  BY <1>1, StepOfCache, PTL DEF ServerSpec, Spec

\* So the whole server keeps the promise of ProcessOnce, whatever the workers
\* do between two calls of the cache.
THEOREM ServerProcessesOnce == ServerSpec => ProcessesOnce
BY ServerUsesCache, Refinement, PTL

\* The inductive invariant, for any number of workers, any set of requests and
\* any arrival order of their copies.
THEOREM ServerInvariance == ServerSpec => []ServerIInv
BY InitServerIInv, NextServerIInv, PTL DEF ServerSpec

\* Type correctness of what the workers share and send.
THEOREM ServerTypeCorrect == ServerSpec => []ServerTypeOK
<1>1. ServerIInv => ServerTypeOK
  BY DEF ServerIInv
<1> QED
  BY <1>1, ServerInvariance, PTL

\* An ACK that says 202 or 409 is sent only for a committed identity: not for a
\* message that another worker is still handling, nor after a failed handler.
THEOREM AckIsTruthful == ServerSpec => []AckMeansProcessed
<1>1. ServerIInv => AckMeansProcessed
  BY DEF ServerIInv, SentInv
<1> QED
  BY <1>1, ServerInvariance, PTL

\* However many workers handle copies of one REGISTER_REQ, a client instance
\* has one session, and a session one instance.
THEOREM RegistrationIdempotent == ServerSpec => []OneSessionPerInstance
<1>1. ServerIInv => OneSessionPerInstance
  BY DEF ServerIInv, SentInv, AnswersHaveSession, SessionsDistinct,
     OpenedFor, OneSessionPerInstance
<1> QED
  BY <1>1, ServerInvariance, PTL

\* Latest values, commits and answers belong to the sessions of the sensors they
\* name, and what is handled or answered came from the address of its session.
THEOREM StateIsOwned == ServerSpec => []StateHasSession
<1>1. ServerIInv => StateHasSession
  <2> SUFFICES ASSUME ServerIInv
               PROVE  StateHasSession
    OBVIOUS
  <2>1. ASSUME NEW w \in Workers, call[w] = "owner"
        PROVE  OpenedFor(job[w].session, job[w].sensor, job[w].address)
    BY <2>1 DEF ServerIInv, WorkersInv, StageMatchesCall, JobHasSession,
       ValidSession, OpenedFor
  <2> QED
    BY <2>1 DEF ServerIInv, SentInv, StateOwned, AnswersHaveSession, StateHasSession
<1> QED
  BY <1>1, ServerInvariance, PTL

\* Every answer of the server, duplicates and errors included, is one the client
\* waits for.
THEOREM AnswersAreExpected == ServerSpec => []RepliesExpected
<1>1. ServerIInv => RepliesExpected
  BY DEF ServerIInv, SentInv
<1> QED
  BY <1>1, ServerInvariance, PTL

\* No request with ACK_REQUIRED is let go without an answer, however its handling
\* ends and however often it is repeated (RequestsAnswered).
THEOREM AnsweredAgain == ServerSpec => RequestsAnswered
<1> DEFINE Answered(w) ==
      \/ \E r \in sent' : Answers(r, job[w])
      \/ suppressed' # suppressed
      \/ job[w].type = "REGISTER_REQ" /\ IsExpired(job[w])
<1>1. ASSUME ServerIInv, [ServerNext]_allVars, NEW w \in Workers, LetsGo(w),
             job[w].ack
      PROVE  Answered(w)
  <2> USE <1>1
  <2>1. ASSUME NEW type, NEW stat, Send(Reply(job[w], type, stat))
        PROVE  Answered(w)
    BY <2>1 DEF Send, Reply, Answers
  <2>2. ASSUME NEW s, Send(Registered(job[w], s))
        PROVE  Answered(w)
    BY <2>2 DEF Send, Registered, Reply, Answers
  <2>3. ASSUME Send(TypedResponse(job[w]))
        PROVE  Answered(w)
    BY <2>1, <2>3 DEF TypedResponse
  <2>4. ASSUME NEW stat, SendAck(job[w], stat)
        PROVE  Answered(w)
    <3>1. CASE Suppresses(job[w])
      BY <2>4, <3>1 DEF SendAck, Suppresses
    <3> QED
      BY <2>1, <2>4, <3>1 DEF SendAck
  <2>5. stage' # stage
    BY DEF LetsGo
  <2>6. CASE \E p \in Packets : Receive(w, p)
    <3>1. /\ stage[w] = "free"
          /\ \/ stage' = stage
             \/ \E where \in {"register", "claiming"} :
                  stage' = [stage EXCEPT ![w] = where]
      BY <2>6 DEF Receive, Stay, Enter, workerVars, RejectEnvelope, RejectSession,
         RejectExpired, RejectPayload, AcceptRegister, Accept
    <3> QED
      BY <2>5, <3>1 DEF LetsGo, ServerIInv, ServerTypeOK
  <2>7. CASE RegisterLate(w) \/ RegisterInvalid(w) \/ RegisterAgain(w)
    <3>1. CASE RegisterLate(w)
      BY <3>1 DEF RegisterLate, ServerIInv, WorkersInv, JobHasSession
    <3> QED
      BY <2>1, <2>2, <2>7, <3>1 DEF RegisterInvalid, RegisterAgain, SendError
  <2>8. CASE RegisterNew(w)
    BY <2>2, <2>8 DEF RegisterNew
  <2>9. CASE ReplyExpired(w)
    BY <2>1, <2>4, <2>9 DEF ReplyExpired, SendExpired, SendError
  <2>10. CASE ReplyDuplicate(w)
    BY <2>3, <2>4, <2>10 DEF ReplyDuplicate
  <2>11. CASE Dispatch(w)
    <3>1. job[w].type \in AnsweredAtOnce
      BY <2>11 DEF LetsGo, Dispatch, ServerIInv, ServerTypeOK
    <3> QED
      BY <2>3, <2>11, <3>1 DEF Dispatch, Effect, HasTypedResponse, AnsweredAtOnce
  <2>12. CASE DispatchFails(w) \/ FinishFailed(w)
    BY <2>12 DEF LetsGo, DispatchFails, FinishFailed, Go, ServerIInv, ServerTypeOK
  <2>13. CASE FinishOk(w)
    BY <2>13 DEF LetsGo, FinishOk, Go, HasTypedResponse, AnsweredAtOnce, ServerIInv,
       ServerTypeOK
  <2>14. CASE SendReply(w)
    BY <2>1, <2>4, <2>14 DEF SendReply, SendError
  <2>15. CASE ClaimStep(w) \/ ServerStopNotifies \/ ServerTick \/ UNCHANGED allVars
    BY <2>5, <2>15 DEF ClaimStep, ServerStopNotifies, ServerTick, ServerStays,
       workerVars, allVars, serverVars
  <2>16. ASSUME NEW v \in Workers \ {w},
                (\E p \in Packets : Receive(v, p)) \/ Work(v) \/ DispatchFails(v)
         PROVE  stage'[w] = stage[w]
    BY <2>16 DEF ServerIInv, ServerTypeOK, Receive, Stay, Enter, workerVars,
       RejectEnvelope, RejectSession, RejectExpired, RejectPayload, AcceptRegister,
       Accept, Work, RegisterLate, RegisterInvalid, RegisterAgain, RegisterNew,
       ClaimStep, ServerStays, ReplyExpired, ReplyDuplicate, Dispatch,
       DispatchFails, FinishOk, FinishFailed, SendReply, Go
  <2>17. stage'[w] # stage[w]
    BY DEF LetsGo
  <2> HIDE DEF Answered
  <2> QED
    BY <2>6, <2>7, <2>8, <2>9, <2>10, <2>11, <2>12, <2>13, <2>14, <2>15, <2>16,
       <2>17 DEF ServerNext, Work
<1>2. ServerIInv /\ [ServerNext]_allVars =>
        [\A w \in Workers :
           LetsGo(w) /\ job[w].ack =>
             \/ \E r \in sent' : Answers(r, job[w])
             \/ suppressed' # suppressed
             \/ job[w].type = "REGISTER_REQ" /\ IsExpired(job[w])]_allVars
  BY <1>1
<1> QED
  BY <1>2, ServerInvariance, PTL DEF ServerSpec, RequestsAnswered
=============================================================================
