---------------------------- MODULE MCDartServer ----------------------------
EXTENDS DartServer

CONSTANTS a, b          \* the addresses of two clients
CONSTANTS i, j          \* the identities of their registrations

\* Packets are built from a request with every field in order.
Request == [type |-> "HEARTBEAT", session |-> 1, sensor |-> 1, sequence |-> 1,
            address |-> a, identity |-> i, metric |-> 1, ack |-> TRUE,
            wellFormed |-> TRUE, payloadOk |-> TRUE,
            timestamp_ms |-> 0, ttl_ms |-> 1]
KeyOf(p) == <<p.session, p.sensor, p.type, p.sequence>>
Keyed(requests) ==
  {[f \in DOMAIN Request \cup {"key"} |-> IF f = "key" THEN KeyOf(p) ELSE p[f]]
     : p \in requests}

Register == [Request EXCEPT !.type = "REGISTER_REQ", !.session = 0]
Alert == [Request EXCEPT !.type = "CRITICAL_ALERT"]
Latest(n) == [Request EXCEPT !.type = "LATEST_UPDATE", !.ack = FALSE,
                             !.sequence = n, !.ttl_ms = 0]

\* Two clients that use one sensor id: heartbeats, updates that arrive in any
\* order across the wrap of the sequence numbers, one of them with an ACK as in
\* the experimental policies, an update of a sensor without a session, and bad
\* registrations, payloads and envelopes.  One registration was sent a moment before
\* the clock starts, so that its deadline passes here.
TwoClients ==
  Keyed({[Register EXCEPT !.timestamp_ms = -1],
         [Register EXCEPT !.address = b, !.identity = j],
         Request, [Latest(7) EXCEPT !.ack = TRUE], Latest(1),
         [Latest(1) EXCEPT !.sensor = 2, !.address = b],
         [Register EXCEPT !.payloadOk = FALSE], [Alert EXCEPT !.payloadOk = FALSE],
         [Alert EXCEPT !.wellFormed = FALSE]})
TwoClientKeys == {p.key : p \in TwoClients}
=============================================================================
