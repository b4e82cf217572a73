---------------------------- MODULE LatestState ----------------------------
(***************************************************************************)
(* The latest value of one metric of one sensor: a client numbers its      *)
(* messages, the network loses, repeats and reorders them, and the server  *)
(* replaces the value it keeps when an update is newer, under its state    *)
(* lock (src/dart/server.py, _dispatch of a LATEST_UPDATE).  The duplicate *)
(* cache is left out: here every datagram may be dispatched many times.    *)
(***************************************************************************)
EXTENDS SequenceOrder

CONSTANTS NoUpdate,     \* the server keeps no value yet
          MaxSpread,    \* how many messages apart two compared ones may be
          MaxIssued     \* bound on the messages of the client

\* A client does not send half of the sequence numbers within the time an
\* update may travel or a value stays the latest; the 0 left out at the wrap
\* costs one more.
ASSUME SpreadAssumption == MaxSpread \in Nat /\ MaxSpread + 1 < Half
ASSUME MaxIssuedAssumption == MaxIssued \in Nat

Updates == [position : Nat, sequence : Sequences1]
ASSUME NoUpdateAssumption == NoUpdate \notin Updates

VARIABLES sequence,     \* _sequence of the client: the next number
          issued,       \* history: how many numbers the client has used
          network,      \* updates on their way
          latest        \* _latest_sequences and _latest_values of the metric

vars == <<sequence, issued, network, latest>>

\* position is the place of an update in the order in which it was sent, which
\* the program does not see.
Known == network \cup ({latest} \ {NoUpdate})

TypeOK ==
  /\ sequence \in Sequences1
  /\ issued \in Nat
  /\ network \subseteq Updates
  /\ latest \in Updates \cup {NoUpdate}

\* The first number is random.
Init ==
  /\ sequence \in 1..(Modulus - 2)
  /\ issued = 0
  /\ network = {}
  /\ latest = NoUpdate

WithinSpread ==
  /\ issued < MaxIssued
  /\ \A u \in Known : issued - u.position <= MaxSpread

UseNumber ==
  /\ WithinSpread
  /\ sequence' = Successor(sequence)
  /\ issued' = issued + 1
  /\ UNCHANGED latest

SendLatest ==
  /\ UseNumber
  /\ network' = network \cup {[position |-> issued, sequence |-> sequence]}

\* Messages of the other types, and of other metrics, use numbers too.
SendOther ==
  /\ UseNumber
  /\ UNCHANGED network

\* Mutant of IsStale: the server does not look at the sequence numbers.
NeverStale(u) == FALSE

IsStale(u) == latest # NoUpdate /\ ~IsNewer(u.sequence, latest.sequence)

Replace(u) ==
  /\ u \in network
  /\ ~IsStale(u)
  /\ latest' = u
  /\ UNCHANGED <<sequence, issued, network>>

\* Lost, or past its deadline, or no longer repeated.
Vanish(u) ==
  /\ u \in network
  /\ network' = network \ {u}
  /\ UNCHANGED <<sequence, issued, latest>>

Next ==
  \/ SendLatest \/ SendOther
  \/ \E u \in network : Replace(u) \/ Vanish(u)

Spec == Init /\ [][Next]_vars

-----------------------------------------------------------------------------

\* The server's answer to "is it newer" is the order in which the client sent
\* the updates, also across the wrap: none is discarded as stale unless the
\* server already keeps one sent later or the same.
StaleIsOlder ==
  \A u \in network :
    latest # NoUpdate => (IsStale(u) <=> u.position <= latest.position)

\* The latest value is never replaced by one that was sent before it.
LatestMonotone ==
  [][latest # NoUpdate /\ latest' # latest
       => latest'.position > latest.position]_vars

\* Two updates on their way carry the same number only if they are the same.
NumbersIdentify ==
  \A u, v \in Known : u.sequence = v.sequence => u = v
=============================================================================
