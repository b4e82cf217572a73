-------------------------- MODULE DartClientHistory --------------------------
(***************************************************************************)
(* What a reliable call may believe.  DartClient with two history          *)
(* variables, which its steps set and do not read: they say to which       *)
(* sessions a response may belong.                                         *)
(***************************************************************************)
EXTENDS DartClient

VARIABLES granted,      \* the sessions this client has had
          early         \* the response that the receiver had taken, and not yet
                        \* handed over, when the client got its first session

historyVars == <<vars, granted, early>>

HistoryInit == ClientInit /\ granted = {} /\ early = None

HistoryStep ==
  /\ granted' = granted \cup ({session'} \ {0})
  /\ early' = IF session = 0 /\ session' # 0 THEN held ELSE early

HistoryNext == ClientNext /\ HistoryStep

HistorySpec == HistoryInit /\ [][HistoryNext]_historyVars
FairHistorySpec == HistorySpec /\ ClientFairness
-----------------------------------------------------------------------------

\* A reliable call (_send_reliable) succeeds only if its request left the client
\* and the server answered this very request with a success.  The exceptions are
\* what the receiver cannot tell from an answer among the responses to an earlier
\* client: a REGISTER_RES, whose session is not looked at; a response with a
\* session that this client, too, has had; and the one response, at most, that it
\* had in hand when it registered.  No other session is ever believed.
SuccessIsAnswered ==
  [][\A c \in Callers :
       Finish(c) /\ Succeeds(c) =>
         /\ response[c].status \in SuccessCodes
         /\ \/ request[c] \in wire /\ response[c] \in AnswersTo(request[c])
            \/ /\ response[c] \in Strays
               /\ \/ request[c].type = "REGISTER_REQ"
                  \/ response[c].session \in granted
                  \/ response[c] = early]_historyVars
=============================================================================
