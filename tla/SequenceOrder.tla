--------------------------- MODULE SequenceOrder ---------------------------
(***************************************************************************)
(* Sequence numbers of DART: unsigned 32-bit counters that skip 0 when     *)
(* they wrap (src/dart/client.py, _next_sequence) and are compared within  *)
(* half of their range (src/dart/server.py, _sequence_is_newer).           *)
(***************************************************************************)
EXTENDS Integers

CONSTANT Half           \* half of the range, 0x80000000 in the code

ASSUME HalfAssumption == Half \in Nat /\ Half >= 2

Modulus == 2 * Half
Sequences0 == 0..(Modulus - 1)      \* what the header can carry
Sequences1 == 1..(Modulus - 1)      \* what a client sends

\* (c - p) & 0xFFFFFFFF, for two numbers of the range.
Distance(c, p) == IF c >= p THEN c - p ELSE c - p + Modulus

\* Mutant of IsNewer: the numbers are compared as they are.
IsGreater(candidate, previous) == candidate > previous

IsNewer(candidate, previous) ==
  0 < Distance(candidate, previous) /\ Distance(candidate, previous) < Half

\* Mutants of Successor: the counter stops at its end, or goes through 0.
SuccessorSaturates(s) == IF s + 1 = Modulus THEN s ELSE s + 1
SuccessorWraps(s) == (s + 1) % Modulus

\* (s + 1) & 0xFFFFFFFF, with 1 in place of 0.
Successor(s) == IF s + 1 = Modulus THEN 1 ELSE s + 1
=============================================================================
