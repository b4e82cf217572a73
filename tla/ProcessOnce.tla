---------------------------- MODULE ProcessOnce ----------------------------
(***************************************************************************)
(* What DartServer's duplicate cache promises, without the cache: copies   *)
(* of a message are handed to workers, each call is answered once, one     *)
(* worker at a time owns a message identity, and an identity processed     *)
(* successfully is not processed again before the retention has passed.    *)
(***************************************************************************)
EXTENDS Integers

CONSTANTS Workers,      \* the server's worker threads
          Keys,         \* message identities
          Packets,      \* received copies: records with a key and a deadline
          NoPacket,     \* what an idle worker holds
          Retention,    \* how long a processed identity is remembered
          MaxTime       \* bound on the clock

VARIABLES now,          \* the clock
          call,         \* the state of each worker's call
          packet,       \* the copy each worker was handed
          lastCommit    \* when each identity was last processed successfully

vars == <<now, call, packet, lastCommit>>

Never == -1

InWindow(k) == lastCommit[k] # Never /\ now <= lastCommit[k] + Retention
Owned(k) == \E w \in Workers : call[w] = "owner" /\ packet[w].key = k

Init ==
  /\ now = 0
  /\ call = [w \in Workers |-> "idle"]
  /\ packet = [w \in Workers |-> NoPacket]
  /\ lastCommit = [k \in Keys |-> Never]

Submit(w, p) ==
  /\ call[w] = "idle"
  /\ call' = [call EXCEPT ![w] = "pending"]
  /\ packet' = [packet EXCEPT ![w] = p]
  /\ UNCHANGED <<now, lastCommit>>

Answer(w, answer) ==
  /\ call[w] = "pending"
  /\ call' = [call EXCEPT ![w] = answer]
  /\ UNCHANGED <<now, packet, lastCommit>>

Begin(w) ==
  /\ Answer(w, "owner")
  /\ ~Owned(packet[w].key)
  /\ ~InWindow(packet[w].key)

ReportDuplicate(w) ==
  /\ Answer(w, "duplicate")
  /\ InWindow(packet[w].key)

ReportExpired(w) ==
  /\ Answer(w, "expired")
  /\ packet[w].ttl_ms # 0
  /\ now >= packet[w].timestamp_ms + packet[w].ttl_ms

Leave(w) ==
  /\ call' = [call EXCEPT ![w] = "idle"]
  /\ packet' = [packet EXCEPT ![w] = NoPacket]
  /\ UNCHANGED now

Commit(w) ==
  /\ call[w] = "owner"
  /\ lastCommit' = [lastCommit EXCEPT ![packet[w].key] = now]
  /\ Leave(w)

Abort(w) ==
  /\ call[w] = "owner"
  /\ Leave(w)
  /\ UNCHANGED lastCommit

Return(w) ==
  /\ call[w] \in {"duplicate", "expired"}
  /\ Leave(w)
  /\ UNCHANGED lastCommit

Tick ==
  /\ now < MaxTime
  /\ now' = now + 1
  /\ UNCHANGED <<call, packet, lastCommit>>

Next ==
  \/ \E w \in Workers :
       \/ \E p \in Packets : Submit(w, p)
       \/ Begin(w) \/ ReportDuplicate(w) \/ ReportExpired(w)
       \/ Commit(w) \/ Abort(w) \/ Return(w)
  \/ Tick

Spec == Init /\ [][Next]_vars
============================================================================
