---------------------------- MODULE MCDartSystem ----------------------------
EXTENDS DartSystem, TLC

RequestOf(type, reliable) == [type |-> type, ttl |-> 1, reliable |-> reliable]
SomeRequests == {RequestOf("REGISTER_REQ", TRUE), RequestOf("CRITICAL_ALERT", TRUE),
                 RequestOf("CRITICAL_ALERT", FALSE)}

ClientKeys == {p.key : p \in ClientDatagrams}
Symmetry == Permutations(Workers)
=============================================================================
