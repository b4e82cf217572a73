------------------------- MODULE TransmitterProofs -------------------------
(***************************************************************************)
(* Proofs about Transmitter and Codec, for every size of header, datagram, *)
(* count and reading, and any number of threads.                           *)
(***************************************************************************)
EXTENDS Transmitter, FiniteSetTheorems, TLAPS

\* A datagram that is one of the packets ps, as it was encoded, or with one of
\* its parts damaged.
Genuine(datagram, ps) == \E p \in ps : Encodable(p) /\ datagram = Encode(p)
Damaged(datagram, ps) ==
  \E p \in ps : Encodable(p) /\ datagram \in Flips(Encode(p))

\* The datagrams that are in sendto or in the network.
About == {raw[t] : t \in {u \in Threads : stage[u] # "idle"}} \cup network

\* They come from the packets offered, and none is damaged before one is counted.
Origins ==
  /\ \A d \in About : Genuine(d, offered) \/ Damaged(d, offered)
  /\ corrupted = 0 => \A d \in About : Genuine(d, offered)

\* The inductive invariant.
IInv == TypeOK /\ Accounting /\ Origins /\ OnlySentAccepted /\ ErrorsAreDamage

-----------------------------------------------------------------------------
(* The codec *)

LEMMA BatchType ==
  ASSUME NEW p \in Batches
  PROVE  p \in Packets /\ Encodable(p)
<1>1. MaxBatchReadings \in Int
  BY CodecAssumption DEF MaxBatchReadings, MaxPayloadSize
<1> QED
  BY <1>1, CodecAssumption DEF Batches, Packets, Payloads, EncodeReadings

LEMMA EncodeType ==
  ASSUME NEW p \in Packets
  PROVE  Encode(p) \in Datagrams
BY DEF Packets, Payloads, Encode, Digest, Datagrams, Checksums

LEMMA FlipType ==
  ASSUME NEW d \in Datagrams, NEW e \in Flips(d)
  PROVE  e \in Datagrams
<1>1. CASE \E n \in Words : e = [d EXCEPT !.payload.count = n]
  <2>1. PICK n \in Words : e = [d EXCEPT !.payload.count = n]
    BY <1>1
  <2>2. [d.payload EXCEPT !.count = n] \in Payloads
    BY CodecAssumption DEF Datagrams, Payloads
  <2> QED
    BY <2>1, <2>2 DEF Datagrams
<1>2. CASE e = [d EXCEPT !.checksum.flipped = TRUE]
  <2>1. [d.checksum EXCEPT !.flipped = TRUE] \in Checksums
    BY DEF Datagrams, Checksums
  <2> QED
    BY <1>2, <2>1 DEF Datagrams
<1>3. CASE \/ e = [d EXCEPT !.mark = FALSE]
           \/ \E n \in Words : e = [d EXCEPT !.declared = n]
           \/ \E f \in Fields : e = [d EXCEPT !.fields = f]
  BY <1>3, CodecAssumption DEF Datagrams
<1> QED
  BY <1>1, <1>2, <1>3 DEF Flips

LEMMA DecodeType ==
  ASSUME NEW d \in Datagrams
  PROVE  Decode(d) \in Packets
BY DEF Datagrams, Decode, Packets

\* What encode makes of a packet is accepted, and decoded as the same packet.
LEMMA EncodeAccepted ==
  ASSUME NEW p \in Packets, Encodable(p)
  PROVE  Accepted(Encode(p)) /\ Decode(Encode(p)) = p
<1>1. Accepted(Encode(p))
  BY CodecAssumption
     DEF Packets, Payloads, Encodable, Encode, Accepted, WellFramed, Intact,
         MaxPayloadSize
<1>2. Decode(Encode(p)) = p
  BY DEF Packets, Encode, Decode
<1> QED
  BY <1>1, <1>2

\* A datagram with one part damaged is not accepted.
THEOREM FlipDetected ==
  ASSUME NEW p \in Packets, NEW d \in Flips(Encode(p))
  PROVE  ~Accepted(d)
<1> DEFINE e == Encode(p)
<1>1. e \in Datagrams /\ e.payload.size = e.declared
      /\ e.checksum = Digest(e.declared, e.fields, e.payload)
  BY EncodeType DEF Encode
<1> HIDE DEF e
<1>2. CASE d = [e EXCEPT !.mark = FALSE]
  BY <1>1, <1>2 DEF Accepted, WellFramed, Datagrams
<1>3. CASE \E n \in Words \ {e.declared} : d = [e EXCEPT !.declared = n]
  BY <1>1, <1>3 DEF Accepted, WellFramed, Datagrams
<1>4. CASE \E f \in Fields \ {e.fields} : d = [e EXCEPT !.fields = f]
  BY <1>1, <1>4 DEF Accepted, Intact, Digest, Datagrams
<1>5. CASE \E n \in Words \ {e.payload.count} : d = [e EXCEPT !.payload.count = n]
  BY <1>1, <1>5 DEF Accepted, Intact, Digest, Datagrams, Payloads
<1>6. CASE d = [e EXCEPT !.checksum.flipped = TRUE]
  BY <1>1, <1>6 DEF Accepted, Intact, Digest, Datagrams, Checksums
<1> QED
  BY <1>2, <1>3, <1>4, <1>5, <1>6 DEF Flips, e

\* The limit on a batch is exactly what fits, whatever the sizes are.
THEOREM BatchLimit == BatchesFit
<1> DEFINE room == MaxPayloadSize - CountSize
<1>1. room \in Nat /\ MaxBatchReadings = room \div ReadingSize
  BY CodecAssumption DEF MaxPayloadSize, MaxBatchReadings
<1>2. /\ MaxBatchReadings \in Nat
      /\ MaxBatchReadings * ReadingSize <= room
      /\ room < (MaxBatchReadings + 1) * ReadingSize
  BY <1>1, CodecAssumption
<1>3. ASSUME NEW f \in KnownFields, NEW n \in 1..MaxBatchReadings
      PROVE  LET p == [fields |-> f, payload |-> EncodeReadings(n)]
             IN  /\ Encodable(p)
                 /\ Accepted(Encode(p)) /\ Decode(Encode(p)) = p
                 /\ DecodesReadings(p.payload)
  <2> DEFINE p == [fields |-> f, payload |-> EncodeReadings(n)]
  <2>1. n * ReadingSize <= MaxBatchReadings * ReadingSize
    BY <1>2, CodecAssumption
  <2>2. n * ReadingSize \in Nat
    BY <1>2, CodecAssumption
  <2>3. p \in Packets
    BY <2>2, <1>2, CodecAssumption DEF Packets, Payloads, EncodeReadings
  <2>4. Encodable(p)
    BY <1>1, <1>2, <2>1, <2>2, CodecAssumption
       DEF Encodable, EncodeReadings, MaxPayloadSize
  <2>5. DecodesReadings(p.payload)
    BY <1>2, <2>2, CodecAssumption DEF DecodesReadings, EncodeReadings
  <2> QED
    BY <2>3, <2>4, <2>5, EncodeAccepted
<1>4. ASSUME NEW f \in KnownFields
      PROVE  LET p == [fields |-> f, payload |-> EncodeReadings(MaxBatchReadings + 1)]
             IN  ~Encodable(p)
  BY <1>1, <1>2, CodecAssumption DEF Encodable, EncodeReadings, MaxPayloadSize
<1> QED
  BY <1>3, <1>4 DEF BatchesFit
-----------------------------------------------------------------------------
(* The steps of sendto *)

LEMMA FiniteAt ==
  ASSUME NEW where
  PROVE  IsFiniteSet(At(where)) /\ Cardinality(At(where)) \in Nat
<1>1. At(where) \subseteq Threads
  BY DEF At
<1> QED
  BY <1>1, TransmitterAssumption, FS_Subset, FS_CardinalityType

\* A thread that goes from one place to another is one less here and one more
\* there.
LEMMA EnterCounts ==
  ASSUME TypeOK, NEW t \in Threads, stage[t] = "idle",
         stage' = [stage EXCEPT ![t] = "drawn"]
  PROVE  /\ Cardinality(At("drawn")') = Cardinality(At("drawn")) + 1
         /\ Cardinality(At("written")') = Cardinality(At("written"))
<1>1. /\ At("drawn")' = At("drawn") \cup {t} /\ t \notin At("drawn")
      /\ At("written")' = At("written")
  BY DEF At, TypeOK
<1> QED
  BY <1>1, FiniteAt, FS_AddElement, FS_RemoveElement

\* The same of the write.
LEMMA WriteCounts ==
  ASSUME TypeOK, NEW t \in Threads, stage[t] = "drawn",
         stage' = [stage EXCEPT ![t] = "written"]
  PROVE  /\ Cardinality(At("drawn")') = Cardinality(At("drawn")) - 1
         /\ Cardinality(At("written")') = Cardinality(At("written")) + 1
<1>1. /\ At("drawn")' = At("drawn") \ {t} /\ t \in At("drawn")
      /\ At("written")' = At("written") \cup {t} /\ t \notin At("written")
  BY DEF At, TypeOK
<1> QED
  BY <1>1, FiniteAt, FS_AddElement, FS_RemoveElement

\* The same of a write that raises.
LEMMA RaiseCounts ==
  ASSUME TypeOK, NEW t \in Threads, stage[t] = "drawn",
         stage' = [stage EXCEPT ![t] = "idle"]
  PROVE  /\ Cardinality(At("drawn")') = Cardinality(At("drawn")) - 1
         /\ Cardinality(At("written")') = Cardinality(At("written"))
<1>1. /\ At("drawn")' = At("drawn") \ {t} /\ t \in At("drawn")
      /\ At("written")' = At("written")
  BY DEF At, TypeOK
<1> QED
  BY <1>1, FiniteAt, FS_AddElement, FS_RemoveElement

\* The same of the end of the call.
LEMMA CountCounts ==
  ASSUME TypeOK, NEW t \in Threads, stage[t] = "written",
         stage' = [stage EXCEPT ![t] = "idle"]
  PROVE  /\ Cardinality(At("drawn")') = Cardinality(At("drawn"))
         /\ Cardinality(At("written")') = Cardinality(At("written")) - 1
<1>1. /\ At("drawn")' = At("drawn")
      /\ At("written")' = At("written") \ {t} /\ t \in At("written")
  BY DEF At, TypeOK
<1> QED
  BY <1>1, FiniteAt, FS_AddElement, FS_RemoveElement

\* What is about stays, as long as the packets offered and the count of the
\* damaged only grow.
LEMMA OriginsStay ==
  ASSUME IInv, About' \subseteq About, offered \subseteq offered',
         corrupted' \in Nat, corrupted <= corrupted'
  PROVE  Origins'
<1>1. \A d : (Genuine(d, offered) => Genuine(d, offered'))
              /\ (Damaged(d, offered) => Damaged(d, offered'))
  BY DEF Genuine, Damaged
<1>2. corrupted' = 0 => corrupted = 0
  BY DEF IInv, TypeOK
<1> QED
  BY <1>1, <1>2 DEF IInv, Origins

\* So it is if a thread takes one more.
LEMMA OriginsGrow ==
  ASSUME IInv, NEW d,
         About' \subseteq About \cup {d}, offered \subseteq offered',
         corrupted' \in Nat, corrupted <= corrupted',
         Genuine(d, offered') \/ Damaged(d, offered'),
         corrupted' = 0 => Genuine(d, offered')
  PROVE  Origins'
<1>1. \A e : (Genuine(e, offered) => Genuine(e, offered'))
              /\ (Damaged(e, offered) => Damaged(e, offered'))
  BY DEF Genuine, Damaged
<1>2. corrupted' = 0 => corrupted = 0
  BY DEF IInv, TypeOK
<1> QED
  BY <1>1, <1>2 DEF IInv, Origins

\* The threads in sendto hold datagrams.
LEMMA HeldType ==
  ASSUME TypeOK, NEW t \in Threads, stage[t] # "idle"
  PROVE  raw[t] \in Datagrams /\ raw[t] \in About
BY DEF TypeOK, About

LEMMA InitIInv == Init => IInv
<1> SUFFICES ASSUME Init PROVE IInv
  OBVIOUS
<1>1. TypeOK
  BY DEF Init, TypeOK
<1>2. At("drawn") = {} /\ At("written") = {}
  BY DEF Init, At
<1>3. Accounting
  BY <1>2, FS_EmptySet DEF Init, Accounting
<1>4. About = {}
  BY DEF Init, About
<1> QED
  BY <1>1, <1>3, <1>4 DEF Init, IInv, Origins, OnlySentAccepted, ErrorsAreDamage

LEMMA DropKeeps ==
  ASSUME IInv, NEW t \in Threads, NEW p \in Batches, DrawDrop(t, p)
  PROVE  IInv'
<1> USE DEF DrawDrop, Enter, netVars, receiverVars
<1>1. TypeOK'
  BY BatchType DEF IInv, TypeOK
<1>2. At("drawn")' = At("drawn") /\ At("written")' = At("written")
  BY DEF At
<1>3. Accounting'
  BY <1>2, FiniteAt DEF IInv, TypeOK, Accounting
<1>4. About' = About
  BY DEF About
<1>5. Origins'
  BY <1>4, OriginsStay DEF IInv, TypeOK
<1> QED
  BY <1>1, <1>3, <1>5 DEF IInv, OnlySentAccepted, ErrorsAreDamage

LEMMA DrawKeeps ==
  ASSUME IInv, NEW t \in Threads, NEW p \in Batches, Draw(t, p)
  PROVE  IInv'
<1> USE DEF Draw, Enter, netVars, receiverVars
<1>1. PICK d \in {Encode(p)} \cup Flips(Encode(p)) :
        /\ raw' = [raw EXCEPT ![t] = d]
        /\ \/ d = Encode(p) /\ corrupted' = corrupted
           \/ d \in Flips(Encode(p)) /\ corrupted' = corrupted + 1
  OBVIOUS
<1>2. d \in Datagrams /\ d # NoDatagram
  BY BatchType, EncodeType, FlipType, TransmitterAssumption
<1>3. TypeOK'
  BY <1>1, <1>2, BatchType DEF IInv, TypeOK
<1>4. Accounting'
  <2>0. TypeOK /\ stage[t] = "idle" /\ stage' = [stage EXCEPT ![t] = "drawn"]
    BY DEF IInv
  <2>1. /\ Cardinality(At("drawn")') = Cardinality(At("drawn")) + 1
        /\ Cardinality(At("written")') = Cardinality(At("written"))
    BY <2>0, EnterCounts
  <2> QED
    BY <1>1, <2>1, FiniteAt DEF IInv, TypeOK, Accounting
<1>5. Origins'
  <2>1. About' \subseteq About \cup {d}
    BY <1>1 DEF IInv, TypeOK, About
  <2>2. Genuine(d, offered') \/ Damaged(d, offered')
    BY <1>1, BatchType DEF Genuine, Damaged
  <2>3. corrupted' = 0 => Genuine(d, offered')
    BY <1>1, BatchType DEF Genuine, IInv, TypeOK
  <2> QED
    BY <1>1, <2>1, <2>2, <2>3, OriginsGrow DEF IInv, TypeOK
<1> QED
  BY <1>1, <1>3, <1>4, <1>5 DEF IInv, TypeOK, OnlySentAccepted, ErrorsAreDamage

LEMMA WriteKeeps ==
  ASSUME IInv, NEW t \in Threads, Write(t)
  PROVE  IInv'
<1> USE DEF Write, statVars, receiverVars
<1>1. raw[t] \in Datagrams /\ raw[t] \in About
  BY HeldType DEF IInv
<1>2. TypeOK'
  BY <1>1 DEF IInv, TypeOK
<1>3. Accounting'
  <2>0. TypeOK /\ stage[t] = "drawn" /\ stage' = [stage EXCEPT ![t] = "written"]
    BY DEF IInv
  <2>1. /\ Cardinality(At("drawn")') = Cardinality(At("drawn")) - 1
        /\ Cardinality(At("written")') = Cardinality(At("written")) + 1
    BY <2>0, WriteCounts
  <2> QED
    BY <2>1, FiniteAt DEF IInv, TypeOK, Accounting
<1>4. About' \subseteq About
  BY <1>1 DEF IInv, TypeOK, About
<1>5. Origins'
  BY <1>4, OriginsStay DEF IInv, TypeOK
<1> QED
  BY <1>2, <1>3, <1>5 DEF IInv, OnlySentAccepted, ErrorsAreDamage

\* A thread leaves sendto after the write has raised, or after the count.
LEMMA LeaveKeeps ==
  ASSUME IInv, NEW t \in Threads, WriteRaises(t) \/ Count(t)
  PROVE  IInv'
<1> USE DEF WriteRaises, Count, Leave, netVars, receiverVars
<1>1. TypeOK'
  BY DEF IInv, TypeOK
<1>2. Accounting'
  <2>1. CASE WriteRaises(t)
    <3>0. TypeOK /\ stage[t] = "drawn" /\ stage' = [stage EXCEPT ![t] = "idle"]
      BY <2>1 DEF IInv
    <3>1. /\ Cardinality(At("drawn")') = Cardinality(At("drawn")) - 1
          /\ Cardinality(At("written")') = Cardinality(At("written"))
      BY <3>0, RaiseCounts
    <3> QED
      BY <2>1, <3>1, FiniteAt DEF IInv, TypeOK, Accounting
  <2>2. CASE Count(t)
    <3>0. TypeOK /\ stage[t] = "written" /\ stage' = [stage EXCEPT ![t] = "idle"]
      BY <2>2 DEF IInv
    <3>1. /\ Cardinality(At("written")') = Cardinality(At("written")) - 1
          /\ Cardinality(At("drawn")') = Cardinality(At("drawn"))
      BY <3>0, CountCounts
    <3> QED
      BY <2>2, <3>1, FiniteAt DEF IInv, TypeOK, Accounting
  <2> QED
    BY <2>1, <2>2
<1>3. About' \subseteq About
  BY DEF IInv, TypeOK, About
<1>4. Origins'
  BY <1>3, OriginsStay DEF IInv, TypeOK
<1> QED
  BY <1>1, <1>2, <1>4 DEF IInv, OnlySentAccepted, ErrorsAreDamage

-----------------------------------------------------------------------------
(* The socket and the receiver *)

LEMMA UnmovedAccounting ==
  ASSUME Accounting, UNCHANGED <<attempted, sent, dropped, corrupted, stage, writes, raised>>
  PROVE  Accounting'
<1>1. At("drawn")' = At("drawn") /\ At("written")' = At("written")
  BY DEF At
<1> QED
  BY <1>1 DEF Accounting

LEMMA ReceiveKeeps ==
  ASSUME IInv, NEW datagram \in network, Receive(datagram)
  PROVE  IInv'
<1> USE DEF Receive, statVars, callVars, netVars
<1>1. datagram \in Datagrams /\ datagram \in About
  BY DEF IInv, TypeOK, About
<1>2. TypeOK'
  BY <1>1, DecodeType DEF IInv, TypeOK
<1>3. Accounting'
  BY UnmovedAccounting DEF IInv
<1>4. Origins'
  <2>1. About' = About
    BY DEF About
  <2> QED
    BY <2>1, OriginsStay DEF IInv, TypeOK
<1>5. offered \subseteq Packets
  BY DEF IInv, TypeOK
<1>6. CASE Accepted(datagram)
  <2>1. ~Damaged(datagram, offered)
    BY <1>5, <1>6, FlipDetected DEF Damaged
  <2>2. PICK p \in offered : Encodable(p) /\ datagram = Encode(p)
    BY <1>1, <2>1 DEF IInv, Origins, Genuine
  <2>3. Decode(datagram) = p
    BY <1>5, <2>2, EncodeAccepted
  <2> QED
    BY <1>2, <1>3, <1>4, <1>6, <2>3 DEF IInv, OnlySentAccepted, ErrorsAreDamage
<1>7. CASE ~Accepted(datagram)
  <2>1. ~Genuine(datagram, offered)
    BY <1>5, <1>7, EncodeAccepted DEF Genuine
  <2>2. corrupted > 0
    BY <1>1, <2>1 DEF IInv, Origins, TypeOK
  <2> QED
    BY <1>2, <1>3, <1>4, <1>7, <2>2 DEF IInv, OnlySentAccepted, ErrorsAreDamage
<1> QED
  BY <1>6, <1>7

LEMMA NextIInv == IInv /\ [Next]_vars => IInv'
<1> SUFFICES ASSUME IInv, [Next]_vars PROVE IInv'
  OBVIOUS
<1>1. CASE CloseSocket \/ UNCHANGED vars
  <2> USE <1>1 DEF CloseSocket, vars, statVars, callVars, netVars, receiverVars
  <2>1. TypeOK'
    BY DEF IInv, TypeOK
  <2>2. Accounting'
    BY UnmovedAccounting DEF IInv
  <2>3. About' = About
    BY DEF About
  <2>4. Origins'
    BY <2>3, OriginsStay DEF IInv, TypeOK
  <2> QED
    BY <2>1, <2>2, <2>4 DEF IInv, OnlySentAccepted, ErrorsAreDamage
<1> QED
  BY <1>1, DropKeeps, DrawKeeps, WriteKeeps, LeaveKeeps, ReceiveKeeps DEF Next

\* The inductive invariant holds for every number of threads and every codec.
THEOREM Invariance == Spec => []IInv
BY InitIInv, NextIInv, PTL DEF Spec

\* Type correctness of the transmitter and of the receiver's metrics.
THEOREM TypeCorrect == Spec => []TypeOK
BY Invariance, PTL DEF IInv

\* Every attempt is dropped, sent, raised or on its way, however the threads
\* interleave the two critical sections of sendto.
THEOREM Accounted == Spec => []Accounting
BY Invariance, PTL DEF IInv

\* No damaged datagram is ever decoded as a packet that was not sent.
THEOREM NoDamageAccepted == Spec => []OnlySentAccepted
BY Invariance, PTL DEF IInv

\* Decode errors come from counted damage only.
THEOREM CleanWire == Spec => []ErrorsAreDamage
BY Invariance, PTL DEF IInv
=============================================================================
