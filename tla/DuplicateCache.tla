--------------------------- MODULE DuplicateCache ---------------------------
(***************************************************************************)
(* The duplicate cache of DartServer (src/dart/server.py): _claim_message, *)
(* _finish_message and _prune_seen_locked, called concurrently by the      *)
(* worker threads of the executor under the condition                      *)
(* _duplicate_condition.                                                   *)
(*                                                                         *)
(* One pass of the loop of _claim_message runs under the condition's lock  *)
(* and is one action; Condition.wait releases the lock, so a call that     *)
(* waits takes part again only after notify_all or its timeout.  The two   *)
(* clocks the code reads, now_ms and time.monotonic, are one clock here.   *)
(***************************************************************************)
EXTENDS Integers, Sequences, FiniteSets

CONSTANTS Workers,      \* worker threads of the server's executor
          Keys,         \* message identities, see _message_identity
          Packets,      \* validated copies the workers may be handed
          NoPacket,     \* what an idle worker holds
          Retention,    \* duplicate_retention_s
          Poll,         \* the longest single wait, 0.1 s in the code
          MaxTime       \* bound on the clock

ASSUME RetentionAssumption == Retention \in Nat
ASSUME PollAssumption == Poll \in Nat \ {0}
ASSUME MaxTimeAssumption == MaxTime \in Nat
\* A packet may have been sent before the clock starts.
ASSUME PacketsAssumption ==
  \A p \in Packets :
    p.key \in Keys /\ p.timestamp_ms \in Int /\ p.ttl_ms \in Nat
ASSUME NoPacketAssumption == NoPacket \notin Packets

VARIABLES now,          \* the clock
          seen,         \* _seen: processed identities, oldest entry first
          inflight,     \* _inflight: identities being processed
          call,         \* where each worker is in its call
          packet,       \* the copy each worker is handling
          wakeAt,       \* when the timeout of a waiting worker ends
          lastCommit    \* history: when each identity was last processed

cacheVars == <<seen, inflight>>
vars == <<now, seen, inflight, call, packet, wakeAt, lastCommit>>

-----------------------------------------------------------------------------

Never == -1

\* "claim": before the first pass of the loop; "wait": inside Condition.wait;
\* "woken": wait has returned, the next pass is due; "owner", "duplicate" and
\* "expired": the three answers, "owner" standing for "new".
CallStates ==
  {"idle", "claim", "wait", "woken", "owner", "duplicate", "expired"}
Claiming == {"claim", "woken"}

Entries == [key : Keys, at : Nat]
KeysIn(entries) == {entries[i].key : i \in DOMAIN entries}

Deadline(p) == p.timestamp_ms + p.ttl_ms
IsExpired(p) == p.ttl_ms # 0 /\ now > Deadline(p)

\* Mutant of Stale: an entry exactly as old as the retention is dropped.
StaleAtRetention(entry) == entry.at <= now - Retention

Stale(entry) == entry.at < now - Retention

TypeOK ==
  /\ now \in Nat
  /\ seen \in Seq(Entries)
  /\ inflight \subseteq Keys
  /\ call \in [Workers -> CallStates]
  /\ packet \in [Workers -> Packets \cup {NoPacket}]
  /\ \A w \in Workers : packet[w] = NoPacket <=> call[w] = "idle"
  /\ wakeAt \in [Workers -> Nat]
  /\ lastCommit \in [Keys -> Nat \cup {Never}]

Init ==
  /\ now = 0
  /\ seen = <<>>
  /\ inflight = {}
  /\ call = [w \in Workers |-> "idle"]
  /\ packet = [w \in Workers |-> NoPacket]
  /\ wakeAt = [w \in Workers |-> 0]
  /\ lastCommit = [k \in Keys |-> Never]

-----------------------------------------------------------------------------

\* Mutant of PruneStopsAt: the loop pops an entry before it looks at its age.
PopsBeforeTest(n) ==
  /\ \A i \in 2..n : Stale(seen[i])
  /\ Len(seen) > 0 => n >= 1
  /\ n < Len(seen) => ~Stale(seen[n + 1])

\* The loop of _prune_seen_locked drops entries from the front and stops at
\* the first one that is still in the retention window.
PruneStopsAt(n) ==
  /\ \A i \in 1..n : Stale(seen[i])
  /\ n < Len(seen) => ~Stale(seen[n + 1])

Prune ==
  \E n \in 0..Len(seen) :
    /\ PruneStopsAt(n)
    /\ seen' = SubSeq(seen, n + 1, Len(seen))

\* A worker is handed a copy that passed the deadline check made on arrival.
Submit(w, p) ==
  /\ call[w] = "idle"
  /\ ~IsExpired(p)
  /\ call' = [call EXCEPT ![w] = "claim"]
  /\ packet' = [packet EXCEPT ![w] = p]
  /\ UNCHANGED <<now, cacheVars, wakeAt, lastCommit>>

Answer(w, answer) ==
  /\ call' = [call EXCEPT ![w] = answer]
  /\ UNCHANGED <<now, packet, wakeAt, lastCommit>>

\* Mutants of ClaimDuplicate: a copy of a message in progress is answered at
\* once; a hit moves the entry to the end, as in an LRU cache.
DuplicateOfInflight(w) ==
  /\ call[w] \in Claiming
  /\ Prune
  /\ packet[w].key \in KeysIn(seen') \cup inflight
  /\ Answer(w, "duplicate")
  /\ UNCHANGED inflight
TouchOnHit(w) ==
  /\ call[w] \in Claiming
  /\ \E i \in DOMAIN seen :
       /\ seen[i].key = packet[w].key
       /\ seen' = Append(SelectSeq(seen, LAMBDA e : e # seen[i]), seen[i])
  /\ Answer(w, "duplicate")
  /\ UNCHANGED inflight

ClaimDuplicate(w) ==
  /\ call[w] \in Claiming
  /\ Prune
  /\ packet[w].key \in KeysIn(seen')
  /\ Answer(w, "duplicate")
  /\ UNCHANGED inflight

ClaimNew(w) ==
  /\ call[w] \in Claiming
  /\ Prune
  /\ packet[w].key \notin KeysIn(seen')
  /\ packet[w].key \notin inflight
  /\ inflight' = inflight \cup {packet[w].key}
  /\ Answer(w, "owner")

\* Mutant of DeadlineReached: no wait is begun that may last until the deadline.
DeadlineNear(p) == p.ttl_ms # 0 /\ now + Poll >= Deadline(p)

\* Another worker owns the identity.  Both tests of the deadline, is_expired
\* and the remaining time that must be positive, answer "expired".
DeadlineReached(p) == p.ttl_ms # 0 /\ now >= Deadline(p)

ClaimBlocked(w) ==
  /\ call[w] \in Claiming
  /\ Prune
  /\ packet[w].key \notin KeysIn(seen')
  /\ packet[w].key \in inflight
  /\ UNCHANGED inflight

ClaimExpired(w) ==
  /\ ClaimBlocked(w)
  /\ DeadlineReached(packet[w])
  /\ Answer(w, "expired")

WaitTime(p) ==
  IF p.ttl_ms # 0 /\ Deadline(p) - now < Poll THEN Deadline(p) - now ELSE Poll

ClaimWait(w) ==
  /\ ClaimBlocked(w)
  /\ ~DeadlineReached(packet[w])
  /\ call' = [call EXCEPT ![w] = "wait"]
  /\ wakeAt' = [wakeAt EXCEPT ![w] = now + WaitTime(packet[w])]
  /\ UNCHANGED <<now, packet, lastCommit>>

WaitTimeout(w) ==
  /\ call[w] = "wait"
  /\ now >= wakeAt[w]
  /\ call' = [call EXCEPT ![w] = "woken"]
  /\ wakeAt' = [wakeAt EXCEPT ![w] = 0]
  /\ UNCHANGED <<now, cacheVars, packet, lastCommit>>

-----------------------------------------------------------------------------

\* The assignment to _seen and move_to_end: the entry of k is now the last one.
Remember(k) ==
  LET entry == [key |-> k, at |-> now]
  IN  IF k \in KeysIn(seen)
      THEN Append(SelectSeq(seen, LAMBDA e : e.key # k), entry)
      ELSE Append(seen, entry)

\* Mutant of NotifyAll: notify, which wakes one waiting worker.
NotifyOne(calls) ==
  IF \A v \in Workers : calls[v] # "wait" THEN calls
  ELSE [calls EXCEPT ![CHOOSE v \in Workers : calls[v] = "wait"] = "woken"]

\* notify_all ends the wait of every waiting worker, whatever its identity.
NotifyAll(calls) ==
  [v \in Workers |-> IF calls[v] = "wait" THEN "woken" ELSE calls[v]]
NoTimers == wakeAt' = [v \in Workers |-> 0]

\* Mutant of Release: the claim of the finished message is kept.
KeepClaim(k) == inflight

Release(k) == inflight \ {k}

FinishMessage(w, success) ==
  /\ call[w] = "owner"
  /\ inflight' = Release(packet[w].key)
  /\ IF success
     THEN /\ seen' = Remember(packet[w].key)
          /\ lastCommit' = [lastCommit EXCEPT ![packet[w].key] = now]
     ELSE UNCHANGED <<seen, lastCommit>>
  /\ call' = NotifyAll([call EXCEPT ![w] = "idle"])
  /\ packet' = [packet EXCEPT ![w] = NoPacket]
  /\ NoTimers
  /\ UNCHANGED now

\* stop() wakes the waiting workers as well; they make one more pass.
StopNotifies ==
  /\ \E w \in Workers : call[w] = "wait"
  /\ call' = NotifyAll(call)
  /\ NoTimers
  /\ UNCHANGED <<now, cacheVars, packet, lastCommit>>

\* The worker has sent its answer and returns to the executor's queue.
Return(w) ==
  /\ call[w] \in {"duplicate", "expired"}
  /\ call' = [call EXCEPT ![w] = "idle"]
  /\ packet' = [packet EXCEPT ![w] = NoPacket]
  /\ UNCHANGED <<now, cacheVars, wakeAt, lastCommit>>

Tick ==
  /\ now < MaxTime
  /\ now' = now + 1
  /\ UNCHANGED <<cacheVars, call, packet, wakeAt, lastCommit>>

Claim(w) ==
  ClaimDuplicate(w) \/ ClaimNew(w) \/ ClaimExpired(w) \/ ClaimWait(w)

Finish(w) == \E success \in BOOLEAN : FinishMessage(w, success)

Next ==
  \/ \E w \in Workers :
       \/ \E p \in Packets : Submit(w, p)
       \/ Claim(w) \/ WaitTimeout(w) \/ Finish(w) \/ Return(w)
  \/ StopNotifies
  \/ Tick

Spec == Init /\ [][Next]_vars

\* Threads run: a call that can go on goes on, a handler returns, time passes.
Fairness ==
  /\ \A w \in Workers :
       /\ WF_vars(Claim(w))
       /\ WF_vars(WaitTimeout(w))
       /\ WF_vars(Finish(w))
       /\ WF_vars(Return(w))
  /\ WF_vars(Tick)

FairSpec == Spec /\ Fairness

-----------------------------------------------------------------------------

\* Nothing inside _claim_message is a lost wakeup: while a worker waits, some
\* worker still owns the identity it waits for and owes it a notify_all.
WaitersHaveOwner ==
  \A w \in Workers :
    call[w] = "wait" =>
      \E o \in Workers : call[o] = "owner" /\ packet[o].key = packet[w].key

\* _inflight holds the identities owned by a worker and no other: a handler
\* that fails leaves no identity reserved, and no two handlers share one.
InflightIsOwned ==
  /\ inflight = {packet[w].key : w \in {v \in Workers : call[v] = "owner"}}
  /\ \A v, w \in Workers :
       /\ call[v] = "owner" /\ call[w] = "owner"
       /\ packet[v].key = packet[w].key
       => v = w

\* The cache agrees with the history of the commits: the order of _seen is the
\* order of the commits, which is what lets the pruning loop stop at the first
\* young entry; an identity committed within the retention has an entry, so its
\* next copy cannot be taken for new; an identity being processed has none.
SeenInOrder ==
  /\ \A i \in DOMAIN seen : seen[i].at = lastCommit[seen[i].key]
  /\ \A i, j \in DOMAIN seen : i < j => seen[i].at <= seen[j].at
RecentRemembered ==
  \A k \in Keys :
    lastCommit[k] # Never /\ now <= lastCommit[k] + Retention
    => k \in KeysIn(seen)
InflightUnseen == inflight \cap KeysIn(seen) = {}
CommitsInPast == \A k \in Keys : lastCommit[k] <= now
CacheInv == SeenInOrder /\ RecentRemembered /\ InflightUnseen /\ CommitsInPast

\* "Process once within the cache window": a handler that commits does so more
\* than the retention after the last commit of the same identity.
ProcessedOncePerWindow ==
  [][\A w \in Workers :
       FinishMessage(w, TRUE) =>
         \/ lastCommit[packet[w].key] = Never
         \/ now > lastCommit[packet[w].key] + Retention]_vars

\* The cache implements the promise of ProcessOnce: a worker inside
\* _claim_message is a pending call of the abstract specification.
Abstract ==
  [w \in Workers |->
     IF call[w] \in Claiming \cup {"wait"} THEN "pending" ELSE call[w]]
Promise == INSTANCE ProcessOnce WITH call <- Abstract
ProcessesOnce == Promise!Spec

\* If handlers stop failing at some time, every call of _claim_message returns.
NoFailure == [][\A w \in Workers : ~FinishMessage(w, FALSE)]_vars
Inside(w) == call[w] \in Claiming \cup {"wait"}
EveryCallAnswered ==
  <>NoFailure => \A w \in Workers : Inside(w) ~> ~Inside(w)

\* What docs/PROTOCOL_SPEC.md says of deadlines: a message past its deadline is
\* answered 408 and not processed.  Here for a copy that waited for another.
NoStaleTakeover ==
  [][\A w \in Workers :
       call[w] = "woken" /\ call'[w] = "owner" => ~IsExpired(packet[w])]_vars
=============================================================================
