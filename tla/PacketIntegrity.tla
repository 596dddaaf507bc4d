--------------------------- MODULE PacketIntegrity ---------------------------
(***************************************************************************)
(* One packet after the other from PacketBuilder::build() to the integrity *)
(* checks of PacketValidator::validate(): the header (common/src/          *)
(* packet.cpp), the payload that the generators produce chunk by chunk     *)
(* (producer/packet_builder.cpp, payload_generator.cpp) and the checksum,  *)
(* which the producer computes while it fills the packet and the consumer  *)
(* over the whole record, each with or without CPU instructions.  Header   *)
(* and checksum have their real sizes; chunks and blocks are parameters.   *)
(***************************************************************************)
EXTENDS Checksum, FiniteSets

CONSTANTS
  PayloadSizes,  \* bytes of payload of a run of the producer
  Bursts,        \* damage done to a record: the bits inverted, from the place where it happens
  kBlockBytes,   \* bytes of a step of the random generator (64)
  ChunkBlocks,   \* kChunkBytes / kBlockBytes (8 KiB / 64)
  MaxPackets     \* bound: packets of a run

ASSUME IntegrityAssumption ==
  /\ PayloadSizes \subseteq Nat
  /\ \A burst \in Bursts : burst \subseteq 0..31 /\ burst # {}
  /\ kBlockBytes \in Nat \ {0} /\ ChunkBlocks \in Nat \ {0}
  /\ MaxPackets \in Nat \ {0}

VARIABLES
  run,       \* options of the producer: payload size, kind, generator, hardware
  record,    \* the bytes written so far
  state,     \* the running checksum of build()
  gen,       \* generator: next_, or the number of steps of the random one
  first,     \* gen when the current packet was begun
  sequence,  \* sequence number of the current packet
  phase,     \* "idle", "fill", "sealed", "damaged"
  damage     \* history: the bits of the record that were inverted

vars == <<run, record, state, gen, first, sequence, phase, damage>>

kHeaderSize    == 32
kPacketMagic   == 1414218576
kPacketVersion == 2
ChecksumAt     == 12  \* offsetof(PacketHeader, checksum)

\* Mutant of kChunkBytes: not a multiple of the block.
kChunkBytesOdd == ChunkBlocks * kBlockBytes - 2

kChunkBytes == ChunkBlocks * kBlockBytes

-----------------------------------------------------------------------------
(* Payload generators: fill(n) returns the bytes and the next state.        *)

ToBits(n) == {b \in 0..30 : (n \div 2^b) % 2 = 1}

\* One byte per value, the counter runs on.
SequentialFill(next, n) ==
  [bytes |-> [i \in 1..n |-> ToBits((next + i - 1) % 256)], gen |-> (next + n) % 256]

\* Byte j of the block that the random generator's step k writes; the values do
\* not matter, only which step they are from.
Output(k, j) == ToBits((kBlockBytes * k + j) * 73 % 256)

\* Whole blocks, then the beginning of one more whose rest is thrown away.
RandomFill(steps, n) ==
  [bytes |-> [i \in 1..n |-> Output(steps + (i - 1) \div kBlockBytes, (i - 1) % kBlockBytes)],
   gen |-> steps + (n + kBlockBytes - 1) \div kBlockBytes]

fill(generator, g, n) == IF generator = "random" THEN RandomFill(g, n) ELSE SequentialFill(g, n)

-----------------------------------------------------------------------------
(* packet.cpp                                                               *)

\* The timestamp is the sequence number: any value would do.
write_header(size, kind, seq) ==
  Bytes(ToBits(kPacketMagic), 4) \o Bytes(ToBits(kPacketVersion), 1) \o Bytes(ToBits(kind), 1)
    \o Bytes(ToBits(kHeaderSize), 2) \o Bytes(ToBits(size), 4) \o Bytes({}, 4)
    \o Bytes(ToBits(seq), 8) \o Bytes(ToBits(seq), 8)

patch_checksum(rec, checksum) ==
  [i \in DOMAIN rec |-> IF i \in (ChecksumAt + 1)..(ChecksumAt + 4)
                        THEN ByteAt(checksum, i - ChecksumAt - 1) ELSE rec[i]]

\* read_header: magic, version, kind, header size, payload size, checksum.
Field(rec, at, n) == LoadLE(rec, at, n)

\* A copy of the header with the field cleared, then the payload in place.
packet_checksum(rec, kind, hardware) ==
  LET header == SubSeq(patch_checksum(rec, {}), 1, kHeaderSize)
  IN  finish(update(kind, hardware, update(kind, hardware, begin, header),
                    SubSeq(rec, kHeaderSize + 1, Len(rec))))

\* The integrity checks of PacketValidator::validate() on a complete record.
Defects(rec, hardware) ==
  LET kind == Field(rec, 5, 1)
      known == {k \in Kinds : ToBits(k) = kind}
  IN  (IF Field(rec, 0, 4) # ToBits(kPacketMagic) THEN {"BadMagic"} ELSE {})
      \cup (IF Field(rec, 4, 1) # ToBits(kPacketVersion) THEN {"BadVersion"} ELSE {})
      \cup (IF Field(rec, 6, 2) # ToBits(kHeaderSize) THEN {"BadHeaderSize"} ELSE {})
      \cup (IF Field(rec, 8, 4) # ToBits(Len(rec) - kHeaderSize) THEN {"SizeMismatch"} ELSE {})
      \cup (IF known = {} THEN {"UnknownChecksum"} ELSE {})
      \cup (IF \E k \in known : packet_checksum(rec, k, hardware) # Field(rec, ChecksumAt, 4)
            THEN {"BadChecksum"} ELSE {})

-----------------------------------------------------------------------------
(* PacketBuilder::build()                                                   *)

Init ==
  /\ run \in [size : PayloadSizes, kind : Kinds, generator : {"random", "sequential"}, hardware : BOOLEAN]
  /\ record = <<>>
  /\ state = {}
  /\ gen = 0 /\ first = 0
  /\ sequence = 0
  /\ phase = "idle"
  /\ damage = {}

Begin ==
  /\ phase = "idle"
  /\ record' = write_header(run.size, run.kind, sequence)
  /\ state' = update(run.kind, run.hardware, begin, record')
  /\ first' = gen
  /\ phase' = "fill"
  /\ UNCHANGED <<run, gen, sequence, damage>>

Left == kHeaderSize + run.size - Len(record)

FillChunk ==
  /\ phase = "fill" /\ Left > 0
  /\ LET chunk == fill(run.generator, gen, IF Left < kChunkBytes THEN Left ELSE kChunkBytes)
     IN  /\ record' = record \o chunk.bytes
         /\ gen' = chunk.gen
         /\ state' = update(run.kind, run.hardware, state, chunk.bytes)
  /\ UNCHANGED <<run, first, sequence, phase, damage>>

Patch ==
  /\ phase = "fill" /\ Left = 0
  /\ record' = patch_checksum(record, finish(state))
  /\ phase' = "sealed"
  /\ UNCHANGED <<run, state, gen, first, sequence, damage>>

\* The consumer is done with the packet, the producer begins the next one.
NextPacket ==
  /\ phase = "sealed" /\ sequence + 1 < MaxPackets
  /\ sequence' = sequence + 1
  /\ phase' = "idle"
  /\ UNCHANGED <<run, record, state, gen, first, damage>>

\* The record with some of its bits inverted.
Flip(rec, bits) ==
  [i \in DOMAIN rec |-> Xor(rec[i], {b - 8 * (i - 1) : b \in bits \cap ((8 * (i - 1))..(8 * i - 1))})]

\* A burst of damage at any place of the record.
Damage ==
  /\ phase = "sealed" /\ sequence = 0
  /\ \E burst \in Bursts, at \in 0..(8 * Len(record) - 1) :
       damage' = {at + b : b \in burst}
  /\ damage' \subseteq 0..(8 * Len(record) - 1)
  /\ record' = Flip(record, damage')
  /\ phase' = "damaged"
  /\ UNCHANGED <<run, state, gen, first, sequence>>

Next == Begin \/ FillChunk \/ Patch \/ NextPacket \/ Damage

Spec == Init /\ [][Next]_vars

-----------------------------------------------------------------------------
(* Properties                                                               *)

\* What build() seals, hashing the header and then chunk by chunk, is what
\* packet_checksum() computes in two pieces, with and without instructions on
\* either side, and what the bitwise division of the whole record gives: no
\* packet of a healthy run is reported as corrupted.
SealAgrees ==
  phase = "sealed" =>
    /\ \A hardware \in BOOLEAN : Defects(record, hardware) = {}
    /\ Field(record, ChecksumAt, 4) = ReferenceCrc(run.kind, patch_checksum(record, {}))

\* The damage crosses the end of the checksum field: it changes both the checksum and
\* what follows it, which is what the checksum is of.
Straddles(bits) ==
  LET end == 8 * (ChecksumAt + 4)
  IN  (\E b \in bits : b < end) /\ (\E b \in bits : b >= end)

\* The record names another known algorithm than the one it was sealed with.
KindSwapped(rec, kind) == \E k \in Kinds : k # kind /\ Field(rec, 5, 1) = ToBits(k)

\* A burst of damage of at most 32 bits is reported as corruption by every consumer,
\* in the header, in the checksum field and in the payload, with two exceptions that
\* are left to luck: damage across the end of the checksum field can change the
\* checksum and what it is of alike, and damage that makes the number of one checksum
\* algorithm the other's has the record checked by that one.
DamageShows ==
  phase = "damaged" /\ ~ Straddles(damage) /\ ~ KindSwapped(record, run.kind) =>
    \A hardware \in BOOLEAN : Defects(record, hardware) # {}

\* The chunks are invisible: the payload, and the state in which the generator
\* is left for the next packet, are those of a single fill() of the whole
\* payload, and the next packet does not start over.
ChunksInvisible ==
  phase = "sealed" =>
    LET whole == fill(run.generator, first, run.size)
    IN  /\ SubSeq(record, kHeaderSize + 1, Len(record)) = whole.bytes
        /\ gen = whole.gen
        /\ run.size \in 1..255 => gen # first
=============================================================================
