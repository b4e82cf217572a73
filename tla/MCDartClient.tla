---------------------------- MODULE MCDartClient ----------------------------
EXTENDS DartClientHistory, TLC

Request(type, ttl, reliable) == [type |-> type, ttl |-> ttl, reliable |-> reliable]
SomeRequests == {Request("REGISTER_REQ", 1, TRUE), Request("CRITICAL_ALERT", 2, TRUE),
                 Request("DATA_BATCH", 0, TRUE), Request("DATA_BATCH", 0, FALSE)}

\* A response to an earlier client with the number of the second request: an ACK of
\* another session, which is of a type nobody waits for if that is a REGISTER_REQ.
OldAck == {[type |-> "ACK", status |-> "ACCEPTED", session |-> 9,
            sequence |-> Successor(FirstNumber)]}
=============================================================================
