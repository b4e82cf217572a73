-------------------------- MODULE MCDuplicateCache --------------------------
EXTENDS DuplicateCache, TLC

CONSTANTS k1, k2

\* Copies of an alert with a deadline, of a message without one, and of a
\* second identity: two of them share an identity, as after a wrapped sequence
\* number or a client restart.
MCPackets ==
  { [key |-> k1, timestamp_ms |-> 0, ttl_ms |-> 2],
    [key |-> k1, timestamp_ms |-> 0, ttl_ms |-> 0],
    [key |-> k2, timestamp_ms |-> 1, ttl_ms |-> 3] }
MCKeys == {k1, k2}
Symmetry == Permutations(Workers)
=============================================================================
