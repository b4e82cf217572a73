--------------------------- MODULE AlertDelivery ---------------------------
(***************************************************************************)
(* What a caller of send_critical is promised, without messages, retries,  *)
(* caches and deadlines.  An alert is processed only if it was asked for,  *)
(* and every call gets one result.  A reliable call reports a success only *)
(* for an alert that has been processed; its failure leaves open whether   *)
(* it was, or will be.  An unreliable call (reliable=False) promises less: *)
(* "sent" leaves that open, too, and "dropped" means that it never will.   *)
(***************************************************************************)
CONSTANTS Numbers         \* the sequence numbers of the requests

VARIABLES calls,          \* the calls that are made: "none", "open", or the result
          processed       \* the alerts the server has processed

vars == <<calls, processed>>

Init == calls = [n \in Numbers |-> "none"] /\ processed = {}

Ask(n) ==
  /\ calls[n] = "none"
  /\ calls' = [calls EXCEPT ![n] = "open"]
  /\ UNCHANGED processed

\* Also when the caller has already been told of a failure, or only that it left.
Process(n) ==
  /\ calls[n] \in {"open", "failure", "sent"}
  /\ processed' = processed \cup {n}
  /\ UNCHANGED calls

ReportSuccess(n) ==
  /\ calls[n] = "open" /\ n \in processed
  /\ calls' = [calls EXCEPT ![n] = "success"]
  /\ UNCHANGED processed

ReportFailure(n) ==
  /\ calls[n] = "open"
  /\ calls' = [calls EXCEPT ![n] = "failure"]
  /\ UNCHANGED processed

\* The call of an unreliable send is over as soon as it is made.
SendUnreliable(n, outcome) ==
  /\ calls[n] = "none"
  /\ calls' = [calls EXCEPT ![n] = outcome]
  /\ UNCHANGED processed

Next ==
  \E n \in Numbers :
    \/ Ask(n) \/ Process(n) \/ ReportSuccess(n) \/ ReportFailure(n)
    \/ \E outcome \in {"sent", "dropped"} : SendUnreliable(n, outcome)

Spec == Init /\ [][Next]_vars
=============================================================================
