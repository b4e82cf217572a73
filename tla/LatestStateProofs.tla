------------------------- MODULE LatestStateProofs -------------------------
(***************************************************************************)
(* Proofs about LatestState: half-range comparison agrees with the order   *)
(* of sending, for every size of the range.                                *)
(***************************************************************************)
EXTENDS LatestState, TLAPS

\* Update u is far messages older than the number s: s is far steps after the
\* number of u, or one period (the range without 0) less when it has wrapped.
Behind(u, s, far) ==
  \/ s = u.sequence + far
  \/ s = u.sequence + far - (Modulus - 1)

\* The inductive invariant: the client's next number is as many steps after the
\* number of each known update as messages were sent since, and these are few.
IInv ==
  /\ TypeOK
  /\ \A u \in Known : /\ u.position < issued
                      /\ issued - u.position <= MaxSpread + 1
                      /\ Behind(u, sequence, issued - u.position)

USE HalfAssumption, SpreadAssumption DEF Modulus, Sequences1

-----------------------------------------------------------------------------

\* Two known updates: the later one is newer, and not the other way round.
LEMMA HalfRangeAgrees ==
  ASSUME IInv, NEW u \in Known, NEW v \in Known
  PROVE  IsNewer(u.sequence, v.sequence) <=> u.position > v.position
<1>1. /\ u \in Updates /\ v \in Updates
      /\ sequence \in Sequences1 /\ issued \in Nat
  BY DEF IInv, TypeOK, Known
<1>2. /\ u.position \in Nat /\ u.sequence \in 1..(2 * Half - 1)
      /\ v.position \in Nat /\ v.sequence \in 1..(2 * Half - 1)
  BY <1>1 DEF Updates
<1>3. /\ u.position < issued /\ issued - u.position <= MaxSpread + 1
      /\ v.position < issued /\ issued - v.position <= MaxSpread + 1
      /\ Behind(u, sequence, issued - u.position)
      /\ Behind(v, sequence, issued - v.position)
  BY DEF IInv
<1>4. \/ u.sequence - v.sequence = u.position - v.position
      \/ u.sequence - v.sequence = u.position - v.position - (2 * Half - 1)
      \/ u.sequence - v.sequence = u.position - v.position + (2 * Half - 1)
  BY <1>1, <1>2, <1>3 DEF Behind
<1>5. /\ u.position - v.position <= MaxSpread
      /\ v.position - u.position <= MaxSpread
  BY <1>1, <1>2, <1>3
<1> QED
  BY <1>2, <1>4, <1>5 DEF IsNewer, Distance

\* Two known updates with the same number were sent at the same place.
LEMMA SameNumber ==
  ASSUME IInv, NEW u \in Known, NEW v \in Known, u.sequence = v.sequence
  PROVE  u = v
<1>1. u \in Updates /\ v \in Updates
  BY DEF IInv, TypeOK, Known
<1>2. ~(u.position > v.position) /\ ~(v.position > u.position)
  BY <1>1, HalfRangeAgrees DEF IsNewer, Distance, Updates
<1>3. u.position = v.position
  BY <1>1, <1>2 DEF Updates
<1> QED
  BY <1>1, <1>3 DEF Updates

LEMMA InitIInv == Init => IInv
BY DEF Init, IInv, TypeOK, Known

\* The next number is one step further behind every known update, whether or
\* not it wraps, and the update just sent is one step behind.
LEMMA UseNumberKeeps ==
  ASSUME IInv, UseNumber
  PROVE  /\ sequence' \in Sequences1 /\ issued' \in Nat
         /\ \A u \in Known \cup {[position |-> issued, sequence |-> sequence]} :
              /\ u.position < issued'
              /\ issued' - u.position <= MaxSpread + 1
              /\ Behind(u, sequence', issued' - u.position)
<1>1. sequence \in 1..(2 * Half - 1) /\ issued \in Nat
  BY DEF IInv, TypeOK
<1>2. issued' = issued + 1 /\ sequence' = Successor(sequence)
  BY DEF UseNumber
<1>3. ASSUME NEW u \in Known
      PROVE  /\ u.position < issued'
             /\ issued' - u.position <= MaxSpread + 1
             /\ Behind(u, sequence', issued' - u.position)
  <2>1. u.position \in Nat /\ u.sequence \in 1..(2 * Half - 1)
    BY DEF IInv, TypeOK, Known, Updates
  <2>2. /\ u.position < issued /\ Behind(u, sequence, issued - u.position)
    BY DEF IInv
  <2>3. issued - u.position <= MaxSpread
    BY DEF UseNumber, WithinSpread
  <2> QED
    BY <1>1, <1>2, <2>1, <2>2, <2>3 DEF Behind, Successor
<1>4. LET u == [position |-> issued, sequence |-> sequence]
      IN  /\ u.position < issued'
          /\ issued' - u.position <= MaxSpread + 1
          /\ Behind(u, sequence', issued' - u.position)
  BY <1>1, <1>2 DEF Behind, Successor
<1> QED
  BY <1>1, <1>2, <1>3, <1>4 DEF Successor

LEMMA NextIInv == IInv /\ [Next]_vars => IInv'
<1> SUFFICES ASSUME IInv, [Next]_vars
             PROVE  IInv'
  OBVIOUS
<1>1. CASE SendLatest
  <2>1. [position |-> issued, sequence |-> sequence] \in Updates
    BY DEF IInv, TypeOK, Updates
  <2>2. Known' = Known \cup {[position |-> issued, sequence |-> sequence]}
    BY <1>1, <2>1, NoUpdateAssumption DEF SendLatest, UseNumber, Known
  <2>3. UseNumber
    BY <1>1 DEF SendLatest
  <2>4. TypeOK'
    BY <1>1, <2>1, <2>3, UseNumberKeeps DEF SendLatest, UseNumber, IInv, TypeOK
  <2> QED
    BY <2>2, <2>3, <2>4, UseNumberKeeps DEF IInv
<1>2. CASE SendOther
  <2>1. Known' = Known /\ UseNumber
    BY <1>2 DEF SendOther, UseNumber, Known
  <2>2. TypeOK'
    BY <1>2, <2>1, UseNumberKeeps DEF SendOther, UseNumber, IInv, TypeOK
  <2> QED
    BY <2>1, <2>2, UseNumberKeeps DEF IInv
<1>3. ASSUME NEW u \in network, Replace(u)
      PROVE  IInv'
  <2>1. Known' \subseteq Known
    BY <1>3 DEF Replace, Known
  <2>2. TypeOK'
    BY <1>3 DEF Replace, IInv, TypeOK
  <2> QED
    BY <1>3, <2>1, <2>2 DEF Replace, IInv, Behind
<1>4. ASSUME NEW u \in network, Vanish(u)
      PROVE  IInv'
  <2>1. Known' \subseteq Known
    BY <1>4 DEF Vanish, Known
  <2>2. TypeOK'
    BY <1>4 DEF Vanish, IInv, TypeOK
  <2> QED
    BY <1>4, <2>1, <2>2 DEF Vanish, IInv, Behind
<1>5. CASE UNCHANGED vars
  BY <1>5 DEF vars, IInv, TypeOK, Known, Behind
<1> QED
  BY <1>1, <1>2, <1>3, <1>4, <1>5 DEF Next

\* What is known stays within the spread and in step with the client's counter.
THEOREM Invariance == Spec => []IInv
BY InitIInv, NextIInv, PTL DEF Spec

\* The server calls an update stale exactly when it keeps one that the client
\* sent later or the same, for every range of sequence numbers.
THEOREM StaleAgrees == Spec => []StaleIsOlder
<1>1. IInv => StaleIsOlder
  <2> SUFFICES ASSUME IInv, NEW u \in network, latest # NoUpdate
               PROVE  IsStale(u) <=> u.position <= latest.position
    BY DEF StaleIsOlder
  <2>1. u \in Known /\ latest \in Known
    BY DEF Known
  <2>2. u.position \in Nat /\ latest.position \in Nat
    BY DEF IInv, TypeOK, Updates
  <2> QED
    BY <2>1, <2>2, HalfRangeAgrees DEF IsStale
<1> QED
  BY <1>1, Invariance, PTL

\* No two updates that the server may compare carry the same number.
THEOREM Identified == Spec => []NumbersIdentify
<1>1. IInv => NumbersIdentify
  BY SameNumber DEF NumbersIdentify
<1> QED
  BY <1>1, Invariance, PTL

\* A kept value is only ever replaced by one that the client sent later.
THEOREM Monotone == Spec => LatestMonotone
<1> DEFINE Later == latest # NoUpdate /\ latest' # latest
                      => latest'.position > latest.position
<1>1. IInv /\ [Next]_vars => Later
  <2> SUFFICES ASSUME IInv, [Next]_vars, latest # NoUpdate, latest' # latest
               PROVE  latest'.position > latest.position
    OBVIOUS
  <2>1. PICK u \in network : Replace(u)
    BY DEF Next, vars, SendLatest, SendOther, UseNumber, Vanish
  <2>2. u \in Known /\ latest \in Known
    BY DEF Known
  <2> QED
    BY <2>1, <2>2, HalfRangeAgrees DEF Replace, IsStale
<1>2. Spec => [][Later]_vars
  BY <1>1, Invariance, PTL DEF Spec
<1> QED
  BY <1>2 DEF LatestMonotone
=============================================================================
