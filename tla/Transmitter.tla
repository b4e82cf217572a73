---------------------------- MODULE Transmitter ----------------------------
(***************************************************************************)
(* ImpairedTransmitter of src/dart/network.py, which the threads of a      *)
(* client or of a server share, the socket below it, the network behind,   *)
(* and the receiver at the other end as far as the decoding of datagrams.  *)
(* sendto is three steps: the draw under the lock, the write to the socket *)
(* without it, and the count under the lock again.                         *)
(*                                                                         *)
(* The packets here are batches of readings of any size that               *)
(* encode_readings takes.  The byte counts of the statistics are left out. *)
(***************************************************************************)
EXTENDS Codec, FiniteSets

CONSTANTS Threads,        \* the threads that share the transmitter
          NoDatagram,     \* what a thread outside sendto holds
          MaxSends,       \* bound on the calls of sendto
          MaxErrors       \* bound on the decode errors of the receiver

ASSUME TransmitterAssumption ==
  /\ IsFiniteSet(Threads)
  /\ NoDatagram \notin Datagrams
  /\ {MaxSends, MaxErrors} \subseteq Nat

VARIABLES attempted, sent, dropped, corrupted,   \* stats
          stage,       \* where each thread is in sendto
          raw,         \* the datagram each thread sends
          open,        \* is the socket open?
          network,     \* the datagrams that were written
          offered,     \* history: the packets sendto was called with
          writes,      \* history: how often the socket's sendto returned
          raised,      \* history: how often it raised
          decodeErrors, checksumErrors,   \* the receiver's metrics
          accepted     \* the packets the receiver has decoded

statVars == <<attempted, sent, dropped, corrupted>>
callVars == <<stage, raw, offered>>
netVars == <<open, network, writes, raised>>
receiverVars == <<decodeErrors, checksumErrors, accepted>>
vars == <<statVars, callVars, netVars, receiverVars>>

At(where) == {t \in Threads : stage[t] = where}

TypeOK ==
  /\ {attempted, sent, dropped, corrupted, writes, raised} \subseteq Nat
  /\ stage \in [Threads -> {"idle", "drawn", "written"}]
  /\ raw \in [Threads -> Datagrams \cup {NoDatagram}]
  /\ \A t \in Threads : stage[t] = "idle" <=> raw[t] = NoDatagram
  /\ open \in BOOLEAN
  /\ network \subseteq Datagrams
  /\ offered \subseteq Packets /\ accepted \subseteq Packets
  /\ {decodeErrors, checksumErrors} \subseteq Nat

Init ==
  /\ attempted = 0 /\ sent = 0 /\ dropped = 0 /\ corrupted = 0
  /\ stage = [t \in Threads |-> "idle"]
  /\ raw = [t \in Threads |-> NoDatagram]
  /\ open = TRUE /\ network = {}
  /\ offered = {} /\ writes = 0 /\ raised = 0
  /\ decodeErrors = 0 /\ checksumErrors = 0 /\ accepted = {}

Batches ==
  {p \in {[fields |-> f, payload |-> EncodeReadings(n)] :
            f \in KnownFields, n \in 1..MaxBatchReadings} : Encodable(p)}

-----------------------------------------------------------------------------
(* sendto *)

Enter(t, p) ==
  /\ stage[t] = "idle" /\ attempted < MaxSends
  /\ attempted' = attempted + 1
  /\ offered' = offered \cup {p}
  /\ UNCHANGED <<sent, netVars, receiverVars>>

\* The call ends here.
DrawDrop(t, p) ==
  /\ Enter(t, p)
  /\ dropped' = dropped + 1
  /\ UNCHANGED <<corrupted, stage, raw>>

\* Mutant of Draw: the damage is not counted.
DrawUncounted(t, p) ==
  /\ Enter(t, p)
  /\ stage' = [stage EXCEPT ![t] = "drawn"]
  /\ \E datagram \in {Encode(p)} \cup Flips(Encode(p)) :
       raw' = [raw EXCEPT ![t] = datagram]
  /\ UNCHANGED <<dropped, corrupted>>

Draw(t, p) ==
  /\ Enter(t, p)
  /\ stage' = [stage EXCEPT ![t] = "drawn"]
  /\ \/ /\ raw' = [raw EXCEPT ![t] = Encode(p)]
        /\ UNCHANGED corrupted
     \/ /\ \E flipped \in Flips(Encode(p)) : raw' = [raw EXCEPT ![t] = flipped]
        /\ corrupted' = corrupted + 1
  /\ UNCHANGED dropped

Write(t) ==
  /\ stage[t] = "drawn" /\ open
  /\ stage' = [stage EXCEPT ![t] = "written"]
  /\ network' = network \cup {raw[t]}
  /\ writes' = writes + 1
  /\ UNCHANGED <<statVars, raw, offered, open, raised, receiverVars>>

Leave(t) ==
  /\ stage' = [stage EXCEPT ![t] = "idle"]
  /\ raw' = [raw EXCEPT ![t] = NoDatagram]
  /\ UNCHANGED <<attempted, dropped, corrupted, offered, receiverVars>>

\* Mutant of WriteRaises: sent_packets is counted before the write.
RaisesCounted(t) ==
  /\ stage[t] = "drawn" /\ ~open
  /\ Leave(t)
  /\ raised' = raised + 1
  /\ sent' = sent + 1
  /\ UNCHANGED <<open, network, writes>>

\* The socket was closed in the meantime: the attempt is neither sent nor dropped.
WriteRaises(t) ==
  /\ stage[t] = "drawn" /\ ~open
  /\ Leave(t)
  /\ raised' = raised + 1
  /\ UNCHANGED <<sent, open, network, writes>>

Count(t) ==
  /\ stage[t] = "written"
  /\ Leave(t)
  /\ sent' = sent + 1
  /\ UNCHANGED netVars

-----------------------------------------------------------------------------

CloseSocket ==
  /\ open
  /\ open' = FALSE
  /\ UNCHANGED <<statVars, callVars, network, writes, raised, receiverVars>>

\* The receiver takes a datagram; the network may deliver it again, or never.
Receive(datagram) ==
  /\ IF Accepted(datagram)
     THEN /\ accepted' = accepted \cup {Decode(datagram)}
          /\ UNCHANGED <<decodeErrors, checksumErrors>>
     ELSE /\ decodeErrors < MaxErrors
          /\ decodeErrors' = decodeErrors + 1
          /\ checksumErrors' = checksumErrors + IF ChecksumError(datagram) THEN 1 ELSE 0
          /\ UNCHANGED accepted
  /\ UNCHANGED <<statVars, callVars, netVars>>

Next ==
  \/ \E t \in Threads :
       \/ \E p \in Batches : DrawDrop(t, p) \/ Draw(t, p)
       \/ Write(t) \/ WriteRaises(t) \/ Count(t)
  \/ CloseSocket
  \/ \E datagram \in network : Receive(datagram)

Spec == Init /\ [][Next]_vars
-----------------------------------------------------------------------------

\* The statistics are taken in two critical sections with the socket in between,
\* by many threads: every attempt is dropped, sent, raised, or on its way, and
\* sent_packets is short of the datagrams in the network by those on the way out.
\* When no call is in progress and none has raised, sent and dropped add up.
Accounting ==
  /\ attempted = dropped + sent + raised
                 + Cardinality(At("drawn")) + Cardinality(At("written"))
  /\ writes = sent + Cardinality(At("written"))
  /\ corrupted + dropped <= attempted

\* No damage gets through: whatever bits are flipped, the receiver only ever
\* decodes packets that were sent.
OnlySentAccepted == accepted \subseteq offered

\* What the demo's check wire_decode_clean relies on: the receiver counts errors
\* only if the transmitter has damaged a datagram.
ErrorsAreDamage == decodeErrors > 0 => corrupted > 0

\* The limit on a batch is exactly what fits: every batch that encode_readings
\* takes is encoded in one datagram, accepted, and decoded as it was, and one
\* reading more is too long.
BatchesFit ==
  \A f \in KnownFields :
    /\ \A n \in 1..MaxBatchReadings :
         LET p == [fields |-> f, payload |-> EncodeReadings(n)]
         IN  /\ Encodable(p)
             /\ Accepted(Encode(p)) /\ Decode(Encode(p)) = p
             /\ DecodesReadings(p.payload)
    /\ LET p == [fields |-> f, payload |-> EncodeReadings(MaxBatchReadings + 1)]
       IN  ~Encodable(p)
=============================================================================
