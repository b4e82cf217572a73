------------------------ MODULE DuplicateCacheProofs ------------------------
(***************************************************************************)
(* Proofs about the duplicate cache: the inductive invariant IInv, and the *)
(* refinement of ProcessOnce that follows from it.                         *)
(***************************************************************************)
EXTENDS DuplicateCache, TLAPS

\* The inductive invariant: every waiting worker's identity is in _inflight,
\* _inflight is what the owners own, and the cache agrees with the history.
IInv == TypeOK /\ WaitersHaveOwner /\ InflightIsOwned /\ CacheInv

USE DEF Never, Release

-----------------------------------------------------------------------------

\* _prune_seen_locked: the entries kept are a tail of _seen, every one of them
\* is within the retention, and no identity within the retention is lost.
LEMMA PruneKeeps ==
  ASSUME TypeOK, CacheInv, Prune, UNCHANGED <<now, lastCommit>>
  PROVE  /\ seen' \in Seq(Entries)
         /\ KeysIn(seen') \subseteq KeysIn(seen)
         /\ SeenInOrder' /\ RecentRemembered'
         /\ \A i \in DOMAIN seen' : ~Stale(seen'[i])
<1> USE RetentionAssumption
<1>1. PICK n \in 0..Len(seen) :
        PruneStopsAt(n) /\ seen' = SubSeq(seen, n + 1, Len(seen))
  BY DEF Prune
<1>2. /\ seen \in Seq(Entries) /\ Len(seen) \in Nat /\ now \in Nat
      /\ lastCommit \in [Keys -> Nat \cup {Never}]
  BY DEF TypeOK
<1>3. /\ n \in Nat /\ n <= Len(seen)
      /\ seen' \in Seq(Entries)
      /\ Len(seen') = Len(seen) - n
      /\ \A i \in 1..Len(seen') : seen'[i] = seen[i + n]
  BY <1>1, <1>2
<1>4. DOMAIN seen = 1..Len(seen) /\ DOMAIN seen' = 1..Len(seen')
  BY <1>2, <1>3
<1>5. KeysIn(seen') \subseteq KeysIn(seen)
  <2> SUFFICES ASSUME NEW i \in DOMAIN seen'
               PROVE  seen'[i].key \in KeysIn(seen)
    BY DEF KeysIn
  <2>1. i + n \in DOMAIN seen /\ seen'[i] = seen[i + n]
    BY <1>2, <1>3, <1>4
  <2> QED
    BY <2>1 DEF KeysIn
<1>6. \A i \in DOMAIN seen : seen[i].at \in Nat /\ seen[i].key \in Keys
  <2>1. \A i \in DOMAIN seen : seen[i] \in Entries
    BY <1>2, <1>4
  <2> QED
    BY <2>1 DEF Entries
<1>7. SeenInOrder'
  <2>1. \A i \in DOMAIN seen' : i + n \in DOMAIN seen /\ seen'[i] = seen[i + n]
    BY <1>2, <1>3, <1>4
  <2>2. \A i, j \in DOMAIN seen' : i < j => i + n < j + n
    BY <1>2, <1>3, <1>4
  <2> QED
    BY <2>1, <2>2 DEF CacheInv, SeenInOrder
<1>8. \A i \in DOMAIN seen' : ~Stale(seen'[i])
  <2> SUFFICES ASSUME NEW i \in 1..Len(seen')
               PROVE  ~Stale(seen'[i])
    BY <1>4
  <2>1. n < Len(seen) /\ ~Stale(seen[n + 1])
    BY <1>1, <1>2, <1>3 DEF PruneStopsAt
  <2>2. n + 1 \in DOMAIN seen /\ i + n \in DOMAIN seen /\ n + 1 <= i + n
    BY <1>2, <1>3, <1>4, <2>1
  <2>3. seen[n + 1].at <= seen[i + n].at
    BY <1>2, <1>6, <2>2 DEF CacheInv, SeenInOrder
  <2>4. seen'[i] = seen[i + n]
    BY <1>3
  <2>5. ~Stale(seen[i + n])
    BY <1>2, <1>6, <2>1, <2>2, <2>3 DEF Stale
  <2> QED
    BY <2>4, <2>5
<1>9. RecentRemembered'
  <2> SUFFICES ASSUME NEW k \in Keys, lastCommit[k] # Never,
                      now <= lastCommit[k] + Retention
               PROVE  k \in KeysIn(seen')
    BY DEF RecentRemembered
  <2>1. PICK i \in DOMAIN seen : seen[i].key = k
    BY DEF CacheInv, RecentRemembered, KeysIn
  <2>2. ~Stale(seen[i])
    BY <1>2, <1>6, <2>1 DEF CacheInv, SeenInOrder, Stale
  <2>3. i > n
    <3>1. i \notin 1..n
      BY <1>1, <2>2 DEF PruneStopsAt
    <3> QED
      BY <1>2, <1>3, <1>4, <3>1
  <2>4. i - n \in 1..Len(seen') /\ (i - n) + n = i
    BY <1>2, <1>3, <1>4, <2>3
  <2>5. seen'[i - n] = seen[(i - n) + n]
    BY <1>3, <2>4
  <2> QED
    BY <1>4, <2>1, <2>4, <2>5 DEF KeysIn
<1> QED
  BY <1>3, <1>5, <1>7, <1>8, <1>9

\* _finish_message after a success: the new entry is the last one, and the
\* cache still agrees with the history, which now records this commit.
LEMMA CommitKeeps ==
  ASSUME TypeOK, CacheInv, NEW k \in Keys, k \in inflight,
         seen' = Remember(k), inflight' = inflight \ {k},
         lastCommit' = [lastCommit EXCEPT ![k] = now], now' = now
  PROVE  seen' \in Seq(Entries) /\ CacheInv'
<1>1. /\ seen \in Seq(Entries) /\ Len(seen) \in Nat /\ now \in Nat
      /\ lastCommit \in [Keys -> Nat \cup {Never}]
  BY DEF TypeOK
<1> DEFINE entry == [key |-> k, at |-> now]
<1>2. k \notin KeysIn(seen)
  BY DEF CacheInv, InflightUnseen
<1>3. seen' = Append(seen, entry) /\ entry \in Entries
  BY <1>1, <1>2 DEF Remember, Entries
<1>4. /\ seen' \in Seq(Entries)
      /\ Len(seen') = Len(seen) + 1
      /\ seen'[Len(seen) + 1] = entry
      /\ \A i \in 1..Len(seen) : seen'[i] = seen[i]
  BY <1>1, <1>3
<1>5. DOMAIN seen = 1..Len(seen) /\ DOMAIN seen' = 1..(Len(seen) + 1)
  BY <1>1, <1>4
<1>6. \A i \in 1..Len(seen) : /\ seen[i].at \in Nat /\ seen[i].key \in Keys
                              /\ seen[i].key # k
  <2>1. \A i \in 1..Len(seen) : seen[i] \in Entries
    BY <1>1
  <2>2. \A i \in 1..Len(seen) : seen[i].key \in KeysIn(seen)
    BY <1>5 DEF KeysIn
  <2> QED
    BY <1>2, <2>1, <2>2 DEF Entries
<1>7. \A i \in 1..Len(seen) : seen[i].at <= now
  BY <1>1, <1>5, <1>6 DEF CacheInv, SeenInOrder, CommitsInPast
<1>8. SeenInOrder'
  <2>1. \A i \in DOMAIN seen' : seen'[i].at = lastCommit'[seen'[i].key]
    BY <1>1, <1>4, <1>5, <1>6 DEF CacheInv, SeenInOrder
  <2>2. \A i, j \in DOMAIN seen' : i < j => seen'[i].at <= seen'[j].at
    BY <1>1, <1>4, <1>5, <1>7 DEF CacheInv, SeenInOrder
  <2> QED
    BY <2>1, <2>2 DEF SeenInOrder
<1>9. KeysIn(seen') = KeysIn(seen) \cup {k}
  BY <1>1, <1>4, <1>5 DEF KeysIn
<1>10. RecentRemembered'
  BY <1>1, <1>9 DEF CacheInv, RecentRemembered
<1>11. InflightUnseen'
  BY <1>9 DEF CacheInv, InflightUnseen
<1>12. CommitsInPast'
  BY <1>1 DEF CacheInv, CommitsInPast
<1> QED
  BY <1>4, <1>8, <1>10, <1>11, <1>12 DEF CacheInv
-----------------------------------------------------------------------------

\* A worker inside a call holds one of the packets, so its key is an identity.
LEMMA BusyHasPacket ==
  ASSUME TypeOK, NEW w \in Workers, call[w] # "idle"
  PROVE  packet[w] \in Packets /\ packet[w].key \in Keys
BY PacketsAssumption DEF TypeOK

LEMMA InitIInv == Init => IInv
<1> SUFFICES ASSUME Init
             PROVE  IInv
  OBVIOUS
<1>1. TypeOK
  BY NoPacketAssumption DEF Init, TypeOK, CallStates
<1>2. WaitersHaveOwner /\ InflightIsOwned
  BY DEF Init, WaitersHaveOwner, InflightIsOwned
<1>3. CacheInv
  BY DEF Init, CacheInv, SeenInOrder, RecentRemembered, InflightUnseen,
         CommitsInPast, KeysIn
<1> QED
  BY <1>1, <1>2, <1>3 DEF IInv

\* Each action preserves the invariant, conjunct by conjunct.
LEMMA SubmitIInv ==
  ASSUME IInv, NEW w \in Workers, NEW p \in Packets, Submit(w, p)
  PROVE  IInv'
<1> USE DEF IInv
<1>1. TypeOK'
  BY NoPacketAssumption DEF TypeOK, Submit, cacheVars, CallStates
<1>2. WaitersHaveOwner'
  BY DEF TypeOK, Submit, WaitersHaveOwner
<1>3. InflightIsOwned'
  BY DEF TypeOK, Submit, cacheVars, InflightIsOwned
<1>4. CacheInv'
  BY DEF Submit, cacheVars, CacheInv, SeenInOrder, RecentRemembered,
         InflightUnseen, CommitsInPast, KeysIn
<1> QED
  BY <1>1, <1>2, <1>3, <1>4

LEMMA ClaimDuplicateIInv ==
  ASSUME IInv, NEW w \in Workers, ClaimDuplicate(w)
  PROVE  IInv'
<1> USE DEF IInv
<1>1. /\ seen' \in Seq(Entries) /\ KeysIn(seen') \subseteq KeysIn(seen)
      /\ SeenInOrder' /\ RecentRemembered'
  BY PruneKeeps DEF ClaimDuplicate, Answer
<1>2. TypeOK'
  BY <1>1 DEF TypeOK, ClaimDuplicate, Answer, CallStates, Claiming
<1>3. WaitersHaveOwner'
  BY DEF TypeOK, ClaimDuplicate, Answer, WaitersHaveOwner, Claiming
<1>4. InflightIsOwned'
  BY DEF TypeOK, ClaimDuplicate, Answer, InflightIsOwned, Claiming
<1>5. CacheInv'
  BY <1>1 DEF ClaimDuplicate, Answer, CacheInv, InflightUnseen, CommitsInPast
<1> QED
  BY <1>2, <1>3, <1>4, <1>5

LEMMA ClaimNewIInv ==
  ASSUME IInv, NEW w \in Workers, ClaimNew(w)
  PROVE  IInv'
<1> USE DEF IInv
<1>1. /\ seen' \in Seq(Entries) /\ KeysIn(seen') \subseteq KeysIn(seen)
      /\ SeenInOrder' /\ RecentRemembered'
  BY PruneKeeps DEF ClaimNew, Answer
<1>2. packet[w].key \in Keys
  BY BusyHasPacket DEF ClaimNew, Claiming
<1>3. TypeOK'
  BY <1>1, <1>2 DEF TypeOK, ClaimNew, Answer, CallStates, Claiming
<1>4. WaitersHaveOwner'
  BY DEF TypeOK, ClaimNew, Answer, WaitersHaveOwner, Claiming
<1>5. InflightIsOwned'
  BY DEF TypeOK, ClaimNew, Answer, InflightIsOwned, Claiming
<1>6. CacheInv'
  BY <1>1 DEF ClaimNew, Answer, CacheInv, InflightUnseen, CommitsInPast
<1> QED
  BY <1>3, <1>4, <1>5, <1>6

LEMMA ClaimExpiredIInv ==
  ASSUME IInv, NEW w \in Workers, ClaimExpired(w)
  PROVE  IInv'
<1> USE DEF IInv, ClaimExpired, ClaimBlocked
<1>1. /\ seen' \in Seq(Entries) /\ KeysIn(seen') \subseteq KeysIn(seen)
      /\ SeenInOrder' /\ RecentRemembered'
  BY PruneKeeps DEF Answer
<1>2. TypeOK'
  BY <1>1 DEF TypeOK, Answer, CallStates, Claiming
<1>3. WaitersHaveOwner'
  BY DEF TypeOK, Answer, WaitersHaveOwner, Claiming
<1>4. InflightIsOwned'
  BY DEF TypeOK, Answer, InflightIsOwned, Claiming
<1>5. CacheInv'
  BY <1>1 DEF Answer, CacheInv, InflightUnseen, CommitsInPast
<1> QED
  BY <1>2, <1>3, <1>4, <1>5

LEMMA ClaimWaitIInv ==
  ASSUME IInv, NEW w \in Workers, ClaimWait(w)
  PROVE  IInv'
<1> USE DEF IInv, ClaimWait, ClaimBlocked
<1>1. /\ seen' \in Seq(Entries) /\ KeysIn(seen') \subseteq KeysIn(seen)
      /\ SeenInOrder' /\ RecentRemembered'
  BY PruneKeeps
<1>2. packet[w] \in Packets
  BY BusyHasPacket DEF Claiming
<1>3. now + WaitTime(packet[w]) \in Nat
  <2>1. /\ packet[w].timestamp_ms \in Int /\ packet[w].ttl_ms \in Nat
        /\ now \in Nat /\ Poll \in Nat
    BY <1>2, PacketsAssumption, PollAssumption DEF TypeOK
  <2> QED
    BY <2>1 DEF WaitTime, DeadlineReached, Deadline
<1>4. TypeOK'
  BY <1>1, <1>3 DEF TypeOK, CallStates, Claiming
<1>5. WaitersHaveOwner'
  <2>1. \E o \in Workers : call[o] = "owner" /\ packet[o].key = packet[w].key
    BY DEF InflightIsOwned
  <2> QED
    BY <2>1 DEF TypeOK, WaitersHaveOwner, Claiming
<1>6. InflightIsOwned'
  BY DEF TypeOK, InflightIsOwned, Claiming
<1>7. CacheInv'
  BY <1>1 DEF CacheInv, InflightUnseen, CommitsInPast
<1> QED
  BY <1>4, <1>5, <1>6, <1>7

LEMMA WaitTimeoutIInv ==
  ASSUME IInv, NEW w \in Workers, WaitTimeout(w)
  PROVE  IInv'
<1> USE DEF IInv
<1>1. TypeOK'
  BY DEF TypeOK, WaitTimeout, cacheVars, CallStates
<1>2. WaitersHaveOwner'
  BY DEF TypeOK, WaitTimeout, WaitersHaveOwner
<1>3. InflightIsOwned'
  BY DEF TypeOK, WaitTimeout, cacheVars, InflightIsOwned
<1>4. CacheInv'
  BY DEF WaitTimeout, cacheVars, CacheInv, SeenInOrder, RecentRemembered,
         InflightUnseen, CommitsInPast, KeysIn
<1> QED
  BY <1>1, <1>2, <1>3, <1>4

LEMMA FinishIInv ==
  ASSUME IInv, NEW w \in Workers, NEW success \in BOOLEAN,
         FinishMessage(w, success)
  PROVE  IInv'
<1> USE DEF IInv
<1>1. packet[w].key \in Keys /\ packet[w].key \in inflight
  BY BusyHasPacket DEF FinishMessage, InflightIsOwned
<1>2. seen' \in Seq(Entries) /\ CacheInv'
  <2>1. CASE success
    BY <1>1, <2>1, CommitKeeps DEF FinishMessage
  <2>2. CASE ~success
    BY <2>2 DEF FinishMessage, TypeOK, CacheInv, SeenInOrder,
            RecentRemembered, InflightUnseen, CommitsInPast, KeysIn
  <2> QED
    BY <2>1, <2>2
<1>3. TypeOK'
  <2>1. lastCommit' \in [Keys -> Nat \cup {Never}]
    BY <1>1 DEF TypeOK, FinishMessage
  <2> QED
    BY <1>2, <2>1, NoPacketAssumption
       DEF TypeOK, FinishMessage, NotifyAll, NoTimers, CallStates
<1>4. \A v \in Workers : call'[v] # "wait"
  BY DEF TypeOK, FinishMessage, NotifyAll
<1>5. WaitersHaveOwner'
  BY <1>4 DEF WaitersHaveOwner
<1>6. InflightIsOwned'
  <2>1. \A v \in Workers :
          /\ call'[v] = "owner" <=> call[v] = "owner" /\ v # w
          /\ v # w => packet'[v] = packet[v]
    BY DEF TypeOK, FinishMessage, NotifyAll
  <2>2. \A v \in Workers \ {w} :
          call[v] = "owner" => packet[v].key # packet[w].key
    BY DEF FinishMessage, InflightIsOwned
  <2> DEFINE owners == {v \in Workers : call[v] = "owner"}
             ownersAfter == {v \in Workers : call'[v] = "owner"}
  <2>3. ownersAfter = owners \ {w} /\ w \in owners
    BY <2>1 DEF FinishMessage
  <2>4. {packet'[v].key : v \in ownersAfter}
          = {packet[v].key : v \in owners} \ {packet[w].key}
    <3> HIDE DEF owners, ownersAfter
    <3>1. \A v \in owners \ {w} : /\ packet'[v].key = packet[v].key
                                  /\ packet[v].key # packet[w].key
      BY <2>1, <2>2 DEF owners
    <3> QED
      BY <2>3, <3>1
  <2> QED
    BY <2>1, <2>4 DEF FinishMessage, InflightIsOwned
<1> QED
  BY <1>2, <1>3, <1>5, <1>6

LEMMA StopNotifiesIInv ==
  ASSUME IInv, StopNotifies
  PROVE  IInv'
<1> USE DEF IInv
<1>1. TypeOK'
  BY DEF TypeOK, StopNotifies, NotifyAll, NoTimers, cacheVars, CallStates
<1>2. \A v \in Workers : /\ call'[v] # "wait"
                         /\ call'[v] = "owner" <=> call[v] = "owner"
  BY DEF TypeOK, StopNotifies, NotifyAll
<1>3. WaitersHaveOwner' /\ InflightIsOwned'
  BY <1>2 DEF StopNotifies, cacheVars, WaitersHaveOwner, InflightIsOwned
<1>4. CacheInv'
  BY DEF StopNotifies, cacheVars, CacheInv, SeenInOrder, RecentRemembered,
         InflightUnseen, CommitsInPast, KeysIn
<1> QED
  BY <1>1, <1>3, <1>4

LEMMA ReturnIInv ==
  ASSUME IInv, NEW w \in Workers, Return(w)
  PROVE  IInv'
<1> USE DEF IInv
<1>1. TypeOK'
  BY NoPacketAssumption DEF TypeOK, Return, cacheVars, CallStates
<1>2. \A v \in Workers :
        /\ call'[v] = "owner" => call[v] = "owner" /\ packet'[v] = packet[v]
        /\ call[v] = "owner" => call'[v] = "owner" /\ packet'[v] = packet[v]
        /\ call'[v] = "wait" => call[v] = "wait" /\ packet'[v] = packet[v]
  BY DEF TypeOK, Return
<1>3. WaitersHaveOwner' /\ InflightIsOwned'
  BY <1>2 DEF Return, cacheVars, WaitersHaveOwner, InflightIsOwned
<1>4. CacheInv'
  BY DEF Return, cacheVars, CacheInv, SeenInOrder, RecentRemembered,
         InflightUnseen, CommitsInPast, KeysIn
<1> QED
  BY <1>1, <1>3, <1>4

LEMMA TickIInv ==
  ASSUME IInv, Tick
  PROVE  IInv'
<1> USE DEF IInv
<1>1. TypeOK'
  BY DEF TypeOK, Tick, cacheVars
<1>2. WaitersHaveOwner' /\ InflightIsOwned'
  BY DEF Tick, cacheVars, WaitersHaveOwner, InflightIsOwned
<1>3. CacheInv'
  BY RetentionAssumption
     DEF TypeOK, Tick, cacheVars, CacheInv, SeenInOrder, RecentRemembered,
         InflightUnseen, CommitsInPast, KeysIn
<1> QED
  BY <1>1, <1>2, <1>3

LEMMA NextIInv == IInv /\ [Next]_vars => IInv'
<1> SUFFICES ASSUME IInv, [Next]_vars
             PROVE  IInv'
  OBVIOUS
<1>1. CASE UNCHANGED vars
  BY <1>1 DEF vars, IInv, TypeOK, WaitersHaveOwner, InflightIsOwned, CacheInv,
          SeenInOrder, RecentRemembered, InflightUnseen, CommitsInPast, KeysIn
<1>2. CASE Next
  BY <1>2, SubmitIInv, ClaimDuplicateIInv, ClaimNewIInv, ClaimExpiredIInv,
     ClaimWaitIInv, WaitTimeoutIInv, FinishIInv, StopNotifiesIInv, ReturnIInv,
     TickIInv
     DEF Next, Claim, Finish
<1> QED
  BY <1>1, <1>2
-----------------------------------------------------------------------------

\* The cache is well typed, no waiting worker is forgotten, every identity in
\* _inflight has exactly one owner, and _seen agrees with the history of the
\* commits, in every reachable state and for any number of workers, identities
\* and copies, any retention and any wait.
THEOREM Invariance == Spec => []IInv
BY InitIInv, NextIInv, PTL DEF Spec

\* Type correctness of the cache's state.
THEOREM TypeCorrect == Spec => []TypeOK
<1>1. IInv => TypeOK
  BY DEF IInv
<1> QED
  BY <1>1, Invariance, PTL

\* No lost wakeup in _claim_message: while a worker waits, a worker still owns
\* the identity it waits for, and _finish_message will notify it.
THEOREM NoLostWakeup == Spec => []WaitersHaveOwner
<1>1. IInv => WaitersHaveOwner
  BY DEF IInv
<1> QED
  BY <1>1, Invariance, PTL

\* _inflight is exactly what the owners own, and no identity has two owners.
THEOREM OneOwner == Spec => []InflightIsOwned
<1>1. IInv => InflightIsOwned
  BY DEF IInv
<1> QED
  BY <1>1, Invariance, PTL

\* _seen is in commit order and holds every identity committed within the
\* retention, so no copy of it can be taken for a new message.
THEOREM CacheAgrees == Spec => []CacheInv
<1>1. IInv => CacheInv
  BY DEF IInv
<1> QED
  BY <1>1, Invariance, PTL

\* No handler commits an identity within the retention of its last commit.
THEOREM OncePerWindow == Spec => ProcessedOncePerWindow
<1> DEFINE Once ==
      \A w \in Workers :
        FinishMessage(w, TRUE) =>
          \/ lastCommit[packet[w].key] = Never
          \/ now > lastCommit[packet[w].key] + Retention
<1>1. IInv => Once
  <2> SUFFICES ASSUME IInv, NEW w \in Workers, FinishMessage(w, TRUE),
                      lastCommit[packet[w].key] # Never
               PROVE  now > lastCommit[packet[w].key] + Retention
    OBVIOUS
  <2>1. packet[w].key \in Keys /\ packet[w].key \in inflight
    BY BusyHasPacket DEF IInv, FinishMessage, InflightIsOwned
  <2>2. packet[w].key \notin KeysIn(seen)
    BY <2>1 DEF IInv, CacheInv, InflightUnseen
  <2> QED
    BY <2>1, <2>2, RetentionAssumption
       DEF IInv, TypeOK, CacheInv, RecentRemembered
<1>2. Spec => [][Once]_vars
  BY <1>1, Invariance, PTL DEF Spec
<1> QED
  BY <1>2 DEF ProcessedOncePerWindow
-----------------------------------------------------------------------------

\* An entry kept by the pruning is a commit within the retention, and the
\* other way round.
LEMMA KeptIsInWindow ==
  ASSUME IInv, Prune, UNCHANGED <<now, lastCommit>>, NEW k \in Keys
  PROVE  k \in KeysIn(seen') <=> Promise!InWindow(k)
<1>1. /\ seen' \in Seq(Entries) /\ SeenInOrder' /\ RecentRemembered'
      /\ \A i \in DOMAIN seen' : ~Stale(seen'[i])
  BY PruneKeeps DEF IInv
<1>2. now \in Nat /\ lastCommit \in [Keys -> Nat \cup {Never}]
  BY DEF IInv, TypeOK
<1>3. ASSUME NEW i \in DOMAIN seen', seen'[i].key = k
      PROVE  Promise!InWindow(k)
  <2>1. seen'[i] \in Entries
    BY <1>1
  <2>2. seen'[i].at \in Nat /\ lastCommit[k] = seen'[i].at
    BY <1>1, <1>3, <2>1 DEF SeenInOrder, Entries
  <2> QED
    BY <1>1, <1>2, <2>2, RetentionAssumption
       DEF Stale, Promise!InWindow, Promise!Never
<1>4. Promise!InWindow(k) => k \in KeysIn(seen')
  BY <1>1 DEF RecentRemembered, Promise!InWindow, Promise!Never
<1> QED
  BY <1>3, <1>4 DEF KeysIn

\* A pass of the loop that ends the call answers the abstract pending call.
LEMMA AnswerMaps ==
  ASSUME IInv, NEW w \in Workers, call[w] \in Claiming,
         NEW a \in {"owner", "duplicate", "expired"}, Answer(w, a)
  PROVE  Promise!Answer(w, a)
<1>1. Abstract[w] = "pending" /\ Abstract' = [Abstract EXCEPT ![w] = a]
  BY DEF IInv, TypeOK, Abstract, Answer, Claiming
<1> QED
  BY <1>1 DEF Answer, Promise!Answer

\* Steps inside the loop and notifications are invisible to the promise.
LEMMA AbstractStutter ==
  ASSUME IInv, call' \in [Workers -> CallStates],
         \A v \in Workers : \/ call'[v] = call[v]
                            \/ /\ call[v] \in Claiming \cup {"wait"}
                               /\ call'[v] \in Claiming \cup {"wait"}
  PROVE  Abstract' = Abstract
BY DEF IInv, TypeOK, Abstract, Claiming

\* When w leaves and the others are notified, only w's call ends.
LEMMA AbstractLeave ==
  ASSUME IInv, NEW w \in Workers,
         \/ call' = [call EXCEPT ![w] = "idle"]
         \/ call' = NotifyAll([call EXCEPT ![w] = "idle"])
  PROVE  Abstract' = [Abstract EXCEPT ![w] = "idle"]
BY DEF IInv, TypeOK, Abstract, Claiming, NotifyAll

LEMMA OwnedIsInflight ==
  ASSUME IInv, NEW k
  PROVE  Promise!Owned(k) <=> k \in inflight
<1>1. \A v \in Workers : Abstract[v] = "owner" <=> call[v] = "owner"
  BY DEF IInv, TypeOK, Abstract, Claiming
<1> QED
  BY <1>1 DEF IInv, InflightIsOwned, Promise!Owned

LEMMA InitMaps == Init => Promise!Init
BY DEF Init, Promise!Init, Promise!Never, Abstract, Claiming

\* Every step of the cache is a step of the promise or leaves it unchanged.
LEMMA StepMaps ==
  ASSUME IInv, [Next]_vars
  PROVE  [Promise!Next]_(Promise!vars)
<1> USE DEF Promise!vars
<1>0. IInv'
  BY NextIInv
<1>1. ASSUME NEW w \in Workers, NEW p \in Packets, Submit(w, p)
      PROVE  Promise!Submit(w, p)
  BY <1>1 DEF IInv, TypeOK, Submit, Promise!Submit, Abstract, Claiming
<1>2. ASSUME NEW w \in Workers, ClaimDuplicate(w)
      PROVE  Promise!ReportDuplicate(w)
  <2>1. packet[w].key \in Keys
    BY <1>2, BusyHasPacket DEF IInv, ClaimDuplicate, Claiming
  <2>2. Promise!InWindow(packet[w].key)
    BY <1>2, <2>1, KeptIsInWindow DEF ClaimDuplicate, Answer
  <2> QED
    BY <1>2, <2>2, AnswerMaps DEF ClaimDuplicate, Promise!ReportDuplicate
<1>3. ASSUME NEW w \in Workers, ClaimNew(w)
      PROVE  Promise!Begin(w)
  <2>1. packet[w].key \in Keys
    BY <1>3, BusyHasPacket DEF IInv, ClaimNew, Claiming
  <2>2. ~Promise!InWindow(packet[w].key)
    BY <1>3, <2>1, KeptIsInWindow DEF ClaimNew, Answer
  <2>3. ~Promise!Owned(packet[w].key)
    BY <1>3, OwnedIsInflight DEF ClaimNew
  <2> QED
    BY <1>3, <2>2, <2>3, AnswerMaps DEF ClaimNew, Promise!Begin
<1>4. ASSUME NEW w \in Workers, ClaimExpired(w)
      PROVE  Promise!ReportExpired(w)
  BY <1>4, AnswerMaps DEF ClaimExpired, ClaimBlocked, DeadlineReached, Deadline,
     Promise!ReportExpired
<1>5. ASSUME NEW w \in Workers, ClaimWait(w) \/ WaitTimeout(w)
      PROVE  UNCHANGED Promise!vars
  <2>1. Abstract' = Abstract
    BY <1>0, <1>5, AbstractStutter
       DEF IInv, TypeOK, ClaimWait, ClaimBlocked, WaitTimeout, Claiming
  <2> QED
    BY <1>5, <2>1 DEF ClaimWait, WaitTimeout
<1>6. ASSUME NEW w \in Workers, FinishMessage(w, TRUE)
      PROVE  Promise!Commit(w)
  BY <1>6, AbstractLeave
     DEF IInv, TypeOK, FinishMessage, Promise!Commit, Promise!Leave, Abstract,
         Claiming
<1>7. ASSUME NEW w \in Workers, FinishMessage(w, FALSE)
      PROVE  Promise!Abort(w)
  BY <1>7, AbstractLeave
     DEF IInv, TypeOK, FinishMessage, Promise!Abort, Promise!Leave, Abstract,
         Claiming
<1>8. ASSUME StopNotifies
      PROVE  UNCHANGED Promise!vars
  <2>1. Abstract' = Abstract
    BY <1>0, <1>8, AbstractStutter
       DEF IInv, TypeOK, StopNotifies, NotifyAll, Claiming
  <2> QED
    BY <1>8, <2>1 DEF StopNotifies
<1>9. ASSUME NEW w \in Workers, Return(w)
      PROVE  Promise!Return(w)
  BY <1>9, AbstractLeave
     DEF IInv, TypeOK, Return, Promise!Return, Promise!Leave, Abstract, Claiming
<1>10. ASSUME Tick
       PROVE  Promise!Tick
  BY <1>10 DEF Tick, Promise!Tick, Abstract
<1>11. CASE UNCHANGED vars
  BY <1>11 DEF vars, Abstract
<1>12. CASE Next
  <2>1. ASSUME NEW w \in Workers, Finish(w)
        PROVE  Promise!Commit(w) \/ Promise!Abort(w)
    BY <1>6, <1>7, <2>1 DEF Finish
  <2> QED
    BY <1>1, <1>2, <1>3, <1>4, <1>5, <2>1, <1>8, <1>9, <1>10, <1>12
       DEF Next, Claim, Promise!Next
<1> QED
  BY <1>11, <1>12

\* The cache keeps the promise of ProcessOnce: a copy is answered "duplicate"
\* only within the retention of a commit, becomes the owner only outside it and
\* while no other worker owns the identity, and "expired" only past its
\* deadline.
THEOREM Refinement == Spec => ProcessesOnce
<1>1. IInv /\ [Next]_vars => [Promise!Next]_(Promise!vars)
  BY StepMaps
<1> QED
  BY InitMaps, Invariance, <1>1, PTL DEF Spec, ProcessesOnce, Promise!Spec
=============================================================================
