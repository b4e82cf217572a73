------------------------------- MODULE Codec -------------------------------
(***************************************************************************)
(* The wire format of src/dart/protocol.py, as far as it decides what is   *)
(* encoded, what is accepted, and what a damaged bit does.  A datagram is  *)
(* a record of its parts; sizes are in bytes.  The checksum is the record  *)
(* of all it covers: a CRC32 tells any two datagrams apart that differ in  *)
(* one bit, which is all the damage ImpairedTransmitter does.              *)
(***************************************************************************)
EXTENDS Integers

CONSTANTS HeaderSize,        \* HEADER_SIZE
          MaxDatagramSize,   \* MAX_DATAGRAM_SIZE
          CountSize,         \* BATCH_COUNT_STRUCT.size
          ReadingSize,       \* READING_STRUCT.size
          Words,             \* what a length or a count may be on the wire
          Fields,            \* the rest of the header: type to status_code
          KnownFields        \* those with a known type, delivery and flags

ASSUME CodecAssumption ==
  /\ {HeaderSize, MaxDatagramSize, CountSize} \subseteq Nat
  /\ ReadingSize \in Nat \ {0}
  /\ MaxDatagramSize >= HeaderSize + CountSize + ReadingSize
  /\ Words \subseteq Nat
  /\ KnownFields \subseteq Fields

MaxPayloadSize == MaxDatagramSize - HeaderSize

\* A payload is known by its size and by what its bytes say if they are read as
\* a batch: how many readings follow.
Payloads == [size : Nat, count : Nat]
Packets == [fields : Fields, payload : Payloads]
Checksums == [flipped : BOOLEAN, of : Nat \X Fields \X Payloads]
Datagrams ==
  [mark : BOOLEAN,         \* magic and version are those of DART v1
   declared : Nat,         \* payload_length
   fields : Fields, payload : Payloads, checksum : Checksums]

-----------------------------------------------------------------------------
(* DartPacket.encode and decode *)

\* Mutant of Digest: only the header is covered.
HeaderDigest(declared, fields, payload) ==
  [flipped |-> FALSE, of |-> <<declared, fields, [size |-> 0, count |-> 0]>>]

Digest(declared, fields, payload) ==
  [flipped |-> FALSE, of |-> <<declared, fields, payload>>]

Encodable(p) == p.fields \in KnownFields /\ p.payload.size <= MaxPayloadSize

Encode(p) ==
  [mark |-> TRUE, declared |-> p.payload.size, fields |-> p.fields,
   payload |-> p.payload,
   checksum |-> Digest(p.payload.size, p.fields, p.payload)]

\* The tests before the checksum.  No datagram here is shorter than a header.
WellFramed(raw) ==
  /\ raw.mark
  /\ raw.payload.size = raw.declared
  /\ HeaderSize + raw.payload.size <= MaxDatagramSize

Intact(raw) == raw.checksum = Digest(raw.declared, raw.fields, raw.payload)

Accepted(raw) == WellFramed(raw) /\ Intact(raw) /\ raw.fields \in KnownFields

\* Every other ProtocolError counts as a decode error only.
ChecksumError(raw) == WellFramed(raw) /\ ~Intact(raw)

Decode(raw) == [fields |-> raw.fields, payload |-> raw.payload]

-----------------------------------------------------------------------------
(* encode_readings and decode_readings *)

\* Mutant of MaxBatchReadings: the count is not allowed for.
MaxReadings == MaxPayloadSize \div ReadingSize

MaxBatchReadings == (MaxPayloadSize - CountSize) \div ReadingSize

EncodeReadings(n) == [size |-> CountSize + n * ReadingSize, count |-> n]

DecodesReadings(payload) ==
  /\ payload.size >= CountSize
  /\ payload.count \in 1..MaxBatchReadings
  /\ payload.size = CountSize + payload.count * ReadingSize

-----------------------------------------------------------------------------

\* What one flipped bit makes of a datagram: one of its parts is another one.
Flips(raw) ==
  {[raw EXCEPT !.mark = FALSE]}
  \cup {[raw EXCEPT !.declared = n] : n \in Words \ {raw.declared}}
  \cup {[raw EXCEPT !.fields = f] : f \in Fields \ {raw.fields}}
  \cup {[raw EXCEPT !.payload.count = n] : n \in Words \ {raw.payload.count}}
  \cup {[raw EXCEPT !.checksum.flipped = TRUE]}
=============================================================================
