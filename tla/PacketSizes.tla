----------------------------- MODULE PacketSizes -----------------------------
(***************************************************************************)
(* What becomes of the two sizes on the producer's command line: parsing   *)
(* (common/src/byte_size.cpp), the rounding of the ring capacity           *)
(* (ShmPacketSink::normalize_capacity), the check in ProducerApp::run()    *)
(* and the fields that a packet stores them in.  Unsigned arithmetic wraps *)
(* at SizeModulus (2^64 in the code) and LengthModulus (2^32).             *)
(***************************************************************************)
EXTENDS Integers, Sequences

CONSTANTS
  Quarter,        \* SizeModulus / 4 (2^62)
  LengthModulus,  \* values of a uint32_t
  PageSize,
  HeaderSize,     \* kHeaderSize (32)
  PrefixSize,     \* kRecordPrefixSize (4)
  Unit,           \* unit letter -> multiplier
  Texts,          \* what a user may write: a number and the letters after it
  NoNumber        \* std::nullopt

SizeModulus == 4 * Quarter

ASSUME SizesAssumption ==
  /\ Quarter \in Nat \ {0} /\ LengthModulus \in Nat /\ LengthModulus <= SizeModulus
  /\ PageSize \in Nat /\ HeaderSize \in Nat \ {0} /\ PrefixSize \in Nat
  /\ PrefixSize < PageSize /\ PageSize <= Quarter /\ HeaderSize < LengthModulus
  /\ \A u \in DOMAIN Unit : Unit[u] \in Nat \ {0, 1}
  /\ NoNumber \notin Nat
  /\ \A text \in Texts : text.number \in Nat \cup {NoNumber}

VARIABLES
  payloadText, ringText,  \* the arguments
  payload, ring,          \* options.payload_size, options.ring_size
  capacity,               \* normalize_capacity(): the loop's variable
  pc

sizeVars == <<payloadText, ringText, payload, ring, capacity, pc>>

-----------------------------------------------------------------------------
(* byte_size.cpp                                                            *)

\* Digits that do not fit are refused by from_chars.
parse_uint(number) == IF number # NoNumber /\ number < SizeModulus THEN number ELSE NoNumber

HasUnit(letters) == letters # <<>> /\ letters[1] \in DOMAIN Unit

Multiplier(letters) == IF HasUnit(letters) THEN Unit[letters[1]] ELSE 1

SuffixAccepted(letters) ==
  \/ letters \in {<<>>, <<"b">>}
  \/ /\ HasUnit(letters)
     /\ Len(letters) <= 3
     /\ \A i \in 2..Len(letters) : letters[i] \in {"i", "b"}

\* Mutant of parse_byte_size: the product may wrap.
parse_byte_size_wrapping(text) ==
  IF parse_uint(text.number) # NoNumber /\ SuffixAccepted(text.letters)
  THEN (text.number * Multiplier(text.letters)) % SizeModulus
  ELSE NoNumber

parse_byte_size(text) ==
  IF /\ parse_uint(text.number) # NoNumber
     /\ SuffixAccepted(text.letters)
     /\ text.number <= (SizeModulus - 1) \div Multiplier(text.letters)
  THEN text.number * Multiplier(text.letters)
  ELSE NoNumber

-----------------------------------------------------------------------------
(* From the options to the first packet.                                    *)

SizesInit ==
  /\ payloadText \in Texts /\ ringText \in Texts
  /\ payload = NoNumber /\ ring = NoNumber
  /\ capacity = PageSize
  /\ pc = "options"

\* parse_producer_options(): a UsageError for what is not a byte size.
ParseOptions ==
  /\ pc = "options"
  /\ payload' = parse_byte_size(payloadText)
  /\ ring' = parse_byte_size(ringText)
  /\ pc' = IF payload' = NoNumber \/ ring' = NoNumber THEN "refused" ELSE "normalize"
  /\ UNCHANGED <<payloadText, ringText, capacity>>

\* Mutant of Grow: without the look at the top bits.
GrowBlindly ==
  /\ pc = "normalize" /\ capacity < ring
  /\ capacity' = (2 * capacity) % SizeModulus
  /\ UNCHANGED <<payloadText, ringText, payload, ring, pc>>

\* normalize_capacity(): one round of the loop.
Grow ==
  /\ pc = "normalize" /\ capacity < ring
  /\ IF capacity > Quarter
     THEN pc' = "refused" /\ UNCHANGED capacity
     ELSE capacity' = (2 * capacity) % SizeModulus /\ UNCHANGED pc
  /\ UNCHANGED <<payloadText, ringText, payload, ring>>

Normalized ==
  /\ pc = "normalize" /\ capacity >= ring
  /\ pc' = "run"
  /\ UNCHANGED <<payloadText, ringText, payload, ring, capacity>>

\* RingProducer::max_record_size()
max_record_size ==
  IF capacity - PrefixSize < LengthModulus - 1 THEN capacity - PrefixSize ELSE LengthModulus - 1

record_size == (HeaderSize + payload) % SizeModulus

\* Mutant of CheckSize: the payload alone is compared.
CheckSizeOfPayload ==
  /\ pc = "run"
  /\ pc' = IF payload > max_record_size THEN "refused" ELSE "running"
  /\ UNCHANGED <<payloadText, ringText, payload, ring, capacity>>

\* ProducerApp::run(): the packet must fit into the transport.
CheckSize ==
  /\ pc = "run"
  /\ pc' = IF record_size > max_record_size THEN "refused" ELSE "running"
  /\ UNCHANGED <<payloadText, ringText, payload, ring, capacity>>

SizesNext == ParseOptions \/ Grow \/ Normalized \/ CheckSize

SizesSpec == SizesInit /\ [][SizesNext]_sizeVars /\ WF_sizeVars(SizesNext)

\* write_header(): header.payload_size; try_reserve(): the length prefix.
HeaderPayloadSize == (record_size - HeaderSize) % LengthModulus
RecordLength      == record_size % LengthModulus

-----------------------------------------------------------------------------
(* Properties                                                               *)

Means(text) == text.number * Multiplier(text.letters)

\* A capacity that the constructor hands to create() is at least what the user
\* asked for and less than twice that, or one page.
CapacityTight ==
  pc \in {"run", "running"} =>
    /\ ring = Means(ringText)
    /\ capacity >= ring
    /\ capacity = PageSize \/ capacity < 2 * ring

\* When the producer runs, the number in the packet header is the number that the
\* user wrote and the length prefix is the length of the record, both without
\* losing bits, and an empty ring has room for the record, so that reserve() does
\* not wait in vain; for every size that leaves room for a header in a size_t.
SizesFaithful ==
  pc = "running" /\ Means(payloadText) + HeaderSize < SizeModulus =>
    /\ HeaderPayloadSize = Means(payloadText)
    /\ RecordLength = HeaderSize + Means(payloadText)
    /\ PrefixSize + RecordLength <= capacity

\* The start of the producer is decided for every pair of arguments: rounding up
\* does not go on for ever.
Decided == <>(pc \in {"refused", "running"})

=============================================================================
