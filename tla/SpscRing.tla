------------------------------ MODULE SpscRing ------------------------------
(***************************************************************************)
(* The lock-free single-producer single-consumer ring of byte records      *)
(* (common/include/pc/ring_buffer.hpp, common/src/ring_buffer.cpp) over    *)
(* the mirrored mapping of common/src/shm_region.cpp.                      *)
(*                                                                         *)
(* Granularity.  Every call makes at most one access to an atomic of the   *)
(* other side, so every call is one action.  control.head and control.tail *)
(* are written by one side only and each side's private copy (head_,       *)
(* tail_) is stored in the same call that changes it, so one variable      *)
(* stands for both.                                                        *)
(*                                                                         *)
(* Memory order.  An acquire load need not return the newest store, only   *)
(* one that is not older than what the same side has read before           *)
(* (coherence).  headStores and tailStores hold the stores that the        *)
(* next load of the other side may still return.  The data bytes are one   *)
(* array: that is sound because NoDataRace shows that the two sides never *)
(* touch the same byte without a release/acquire pair between them.        *)
(*                                                                         *)
(* Counters are unsigned and wrap at Wrap (2^64 in the code).              *)
(***************************************************************************)
EXTENDS Integers, Sequences

CONSTANTS
  Capacity,    \* RingControl.capacity: bytes of the data area
  Wrap,        \* number of values of the counters head and tail
  Prefix,      \* kRecordPrefixSize
  MaxLength,   \* numeric_limits<RecordLength>::max()
  Sizes,       \* record lengths the producer asks for
  Byte         \* byte values the producer writes

ASSUME RingAssumption ==
  /\ Capacity \in Nat \ {0}
  /\ Prefix \in Nat \ {0}
  /\ Prefix <= Capacity
  /\ Wrap \in Nat
  /\ \E k \in 2 .. Wrap : Wrap = k * Capacity
  /\ MaxLength \in Nat
  /\ Sizes \subseteq Nat

VARIABLES
  mem,          \* the physical bytes of the data area
  head,         \* control.head and RingProducer::head_
  tail,         \* control.tail and RingConsumer::tail_
  headStores,   \* stores of head the consumer's next load may return
  tailStores,   \* stores of tail the producer's next load may return
  cachedTail,   \* RingProducer::cached_tail_
  reserved,     \* RingProducer::pending_
  cachedHead,   \* RingConsumer::cached_head_
  peeked,       \* RingConsumer::pending_
  corrupted,    \* RingConsumer::corrupted_
  queue         \* history: the committed, unreleased records and their offsets

sharedVars   == <<mem, head, tail, headStores, tailStores>>
producerVars == <<cachedTail, reserved>>
consumerVars == <<cachedHead, peeked, corrupted>>
vars == <<sharedVars, producerVars, consumerVars, queue>>

-----------------------------------------------------------------------------
(* Counters and addresses.                                                  *)

Offset == 0 .. Wrap - 1

Plus(a, n)  == (a + n) % Wrap
Minus(a, b) == (a - b) % Wrap

\* counter & mask_
At(c) == c % Capacity

\* Mutant of Cell: the second half of the mapping is missing.
CellUnmirrored(c, i) == IF At(c) + i < Capacity THEN At(c) + i ELSE Capacity - 1

\* The byte at data_ + (c & mask_) + i: both halves of the mirrored mapping
\* show the same pages.
Cell(c, i) == (At(c) + i) % Capacity

Cells(c, n) == { Cell(c, i) : i \in 0 .. n - 1 }

\* A byte of a length prefix, or a byte written by the caller.
LengthByte(n, i) == [length |-> n, at |-> i]

MaxRecordSize == IF Capacity - Prefix < MaxLength THEN Capacity - Prefix ELSE MaxLength

CellValue == Byte \cup [length : 0 .. MaxRecordSize, at : 0 .. Prefix - 1]

\* The body of the record of n bytes (prefix included) that starts at c.
Body(c, n) == [i \in 1 .. n - Prefix |-> mem[Cell(c, Prefix + i - 1)]]

\* What memcpy reads as the length prefix at c.  Bytes that are not one intact
\* prefix can read as any length.
Lengths(c) ==
  LET intact == { n \in 0 .. MaxRecordSize :
                    \A i \in 0 .. Prefix - 1 : mem[Cell(c, i)] = LengthByte(n, i) }
  IN  IF intact # {} THEN intact ELSE 0 .. MaxLength

-----------------------------------------------------------------------------
(* initialize_ring_control and the two constructors.                        *)

Init ==
  /\ mem \in { [c \in 0 .. Capacity - 1 |-> b] : b \in Byte }
  /\ head = 0
  /\ tail = 0
  /\ headStores = {0}
  /\ tailStores = {0}
  /\ cachedTail = 0
  /\ reserved = 0
  /\ cachedHead = 0
  /\ peeked = 0
  /\ corrupted = FALSE
  /\ queue = <<>>

-----------------------------------------------------------------------------
(* RingProducer.                                                            *)

\* Mutants of Room: the prefix is not counted; one byte too many is granted.
RoomWithoutPrefix(t, n) == Minus(Capacity, Minus(head, t)) >= n
RoomOffByOne(t, n) == Minus(Capacity, Minus(head, t)) + 1 >= Prefix + n

Room(t, n) == Minus(Capacity, Minus(head, t)) >= Prefix + n

\* control_.tail.load(acquire)
LoadTail(t) ==
  /\ t \in tailStores
  /\ cachedTail' = t
  /\ tailStores' = { v \in tailStores : Minus(tail, v) <= Minus(tail, t) }

\* The length prefix is written and the slot handed to the caller.
Grant(n) ==
  /\ mem' = [c \in 0 .. Capacity - 1 |->
               LET i == (c - At(head)) % Capacity
               IN  IF i < Prefix THEN LengthByte(n, i) ELSE mem[c]]
  /\ reserved' = Prefix + n

\* try_reserve, the cached tail leaves enough room.
ReserveCached(n) ==
  /\ n <= MaxRecordSize
  /\ Room(cachedTail, n)
  /\ Grant(n)
  /\ UNCHANGED <<head, tail, headStores, tailStores, cachedTail, consumerVars, queue>>

\* try_reserve, the ring looks full: the tail is read again.
ReserveReload(n) ==
  /\ n <= MaxRecordSize
  /\ ~ Room(cachedTail, n)
  /\ \E t \in tailStores :
       /\ LoadTail(t)
       /\ \/ Room(t, n) /\ Grant(n)
          \/ ~ Room(t, n) /\ UNCHANGED <<mem, reserved>>
  /\ UNCHANGED <<head, tail, headStores, consumerVars, queue>>

\* The caller writes one byte of the span that try_reserve returned.
WriteSlot(i, b) ==
  /\ i < reserved - Prefix
  /\ mem' = [mem EXCEPT ![Cell(head, Prefix + i)] = b]
  /\ UNCHANGED <<head, tail, headStores, tailStores, producerVars, consumerVars, queue>>

\* Mutant of Commit: the counter is wider than the one of the control block.
CommitUnwrapped ==
  /\ reserved # 0
  /\ head' = head + reserved
  /\ reserved' = 0
  /\ headStores' = headStores \cup {head'}
  /\ queue' = Append(queue, [at |-> head, body |-> Body(head, reserved)])
  /\ UNCHANGED <<mem, tail, tailStores, cachedTail, consumerVars>>

Commit ==
  /\ reserved # 0
  /\ head' = Plus(head, reserved)
  /\ reserved' = 0
  /\ headStores' = headStores \cup {head'}
  /\ queue' = Append(queue, [at |-> head, body |-> Body(head, reserved)])
  /\ UNCHANGED <<mem, tail, tailStores, cachedTail, consumerVars>>

-----------------------------------------------------------------------------
(* RingConsumer.                                                            *)

\* control_.head.load(acquire)
LoadHead(h) ==
  /\ h \in headStores
  /\ cachedHead' = h
  /\ headStores' = { v \in headStores : Minus(head, v) <= Minus(head, h) }

\* Mutants of Inspect: a record that ends exactly at the head is rejected; all
\* bytes up to the head are handed out as one record.
InspectStrict(h) ==
  \E n \in Lengths(tail) :
    LET malformed == Prefix + n >= Minus(h, tail) \/ Prefix + n > Capacity
    IN  /\ corrupted' = malformed
        /\ peeked' = IF malformed THEN 0 ELSE Prefix + n

InspectBacklog(h) ==
  \E n \in Lengths(tail) :
    LET malformed == Prefix + n > Minus(h, tail) \/ Prefix + n > Capacity
    IN  /\ corrupted' = malformed
        /\ peeked' = IF malformed THEN 0 ELSE Minus(h, tail)

\* The record at tail_ is accepted, or found to violate the record format.
Inspect(h) ==
  \E n \in Lengths(tail) :
    LET malformed == Prefix + n > Minus(h, tail) \/ Prefix + n > Capacity
    IN  /\ corrupted' = malformed
        /\ peeked' = IF malformed THEN 0 ELSE Prefix + n

\* try_peek, the cached head shows a record.
PeekCached ==
  /\ ~ corrupted
  /\ peeked = 0
  /\ cachedHead # tail
  /\ Inspect(cachedHead)
  /\ UNCHANGED <<sharedVars, producerVars, cachedHead, queue>>

\* try_peek, the ring looks empty: the head is read again.
PeekReload ==
  /\ ~ corrupted
  /\ peeked = 0
  /\ cachedHead = tail
  /\ \E h \in headStores :
       /\ LoadHead(h)
       /\ \/ h # tail /\ Inspect(h)
          \/ h = tail /\ UNCHANGED <<peeked, corrupted>>
  /\ UNCHANGED <<mem, head, tail, tailStores, producerVars, queue>>

\* Mutant of Release: pending_ is not reset.
ReleaseWithoutReset ==
  /\ peeked # 0
  /\ tail' = Plus(tail, peeked)
  /\ tailStores' = tailStores \cup {tail'}
  /\ queue' = SubSeq(queue, 2, Len(queue))
  /\ UNCHANGED <<mem, head, headStores, producerVars, consumerVars>>

Release ==
  /\ peeked # 0
  /\ tail' = Plus(tail, peeked)
  /\ peeked' = 0
  /\ tailStores' = tailStores \cup {tail'}
  /\ queue' = SubSeq(queue, 2, Len(queue))
  /\ UNCHANGED <<mem, head, headStores, producerVars, cachedHead, corrupted>>

\* The RingConsumer constructor, run by the next consumer of the same ring
\* after this one has left or died: the shared tail is all it inherits.
Reattach ==
  /\ \E h \in headStores : LoadHead(h)
  /\ peeked' = 0
  /\ corrupted' = FALSE
  /\ UNCHANGED <<mem, head, tail, tailStores, producerVars, queue>>

-----------------------------------------------------------------------------
Producer ==
  \/ \E n \in Sizes : ReserveCached(n) \/ ReserveReload(n)
  \/ \E i \in 0 .. MaxRecordSize - 1, b \in Byte : WriteSlot(i, b)
  \/ Commit

Consumer == PeekCached \/ PeekReload \/ Release \/ Reattach

Next == Producer \/ Consumer

Spec == Init /\ [][Next]_vars

-----------------------------------------------------------------------------
(* Properties.                                                              *)

TypeOK ==
  /\ mem \in [0 .. Capacity - 1 -> CellValue]
  /\ head \in Offset
  /\ tail \in Offset
  /\ headStores \subseteq Offset
  /\ tailStores \subseteq Offset
  /\ cachedTail \in Offset
  /\ reserved \in {0} \cup Prefix .. Capacity
  /\ cachedHead \in Offset
  /\ peeked \in {0} \cup Prefix .. Capacity
  /\ corrupted \in BOOLEAN
  /\ queue \in Seq([at : Offset, body : Seq(CellValue)])

\* head_ - tail.load() and head.load() - tail_: the bytes that used() reports.
Used == Minus(head, tail)

\* Every value of the other side's counter that a load may still return, the
\* cached ones included, is sound: to the producer the ring never looks emptier
\* than it is, to the consumer never fuller, and neither ever sees more than
\* Capacity bytes in use (what used() reports to queue_status()).
StaleViewsSound ==
  /\ \A t \in tailStores : Used <= Minus(head, t) /\ Minus(head, t) <= Capacity
  /\ \A h \in headStores : Minus(h, tail) <= Used
  /\ cachedTail \in tailStores
  /\ cachedHead \in headStores

\* No data race on the record bytes: the slot that try_reserve() handed out is
\* disjoint from every byte whose release the producer has not acquired yet, and
\* the record that try_peek() handed out lies within the bytes whose commit the
\* consumer has acquired.
NoDataRace ==
  /\ Cells(head, reserved) \cap Cells(cachedTail, Minus(head, cachedTail)) = {}
  /\ Cells(head, reserved) \cap Cells(tail, Used) = {}
  /\ peeked <= Minus(cachedHead, tail)

\* The inductive form of the two properties above.  Measured back from head, the
\* counters that the two sides hold or may still load are ordered: the producer's
\* are the old tails, the consumer's the old heads, and what is reserved or
\* peeked lies in the gaps between them.
DistanceInv ==
  /\ tail \in tailStores /\ cachedTail \in tailStores
  /\ head \in headStores /\ cachedHead \in headStores
  /\ Minus(head, cachedTail) + reserved <= Capacity
  /\ \A t \in tailStores : Used <= Minus(head, t) /\ Minus(head, t) <= Minus(head, cachedTail)
  /\ \A h \in headStores : Minus(head, h) <= Minus(head, cachedHead)
  /\ Minus(head, cachedHead) + peeked <= Used

\* try_peek never finds a record that violates the record format: the length
\* it reads belongs to a completely published record, across the wrap of the
\* data area and of the counters, whatever head it has cached.
NeverCorrupted == ~ corrupted

\* The records published in shared memory are exactly the committed ones, one
\* behind the other from tail to head, each with its own prefix and body: what
\* commit() published stays readable until release() frees it.
MemoryHoldsQueue ==
  /\ queue = <<>> <=> head = tail
  /\ \A k \in 1 .. Len(queue) :
       LET r == queue[k]
           size == Prefix + Len(r.body)
       IN  /\ \A i \in 0 .. Prefix - 1 : mem[Cell(r.at, i)] = LengthByte(Len(r.body), i)
           /\ \A i \in 1 .. Len(r.body) : mem[Cell(r.at, Prefix + i - 1)] = r.body[i]
           /\ r.at = IF k = 1 THEN tail ELSE Plus(queue[k - 1].at, Prefix + Len(queue[k - 1].body))
           /\ k = Len(queue) => head = Plus(r.at, size)

\* The ring implements the record queue: the reader is handed the records in
\* commit order, each with the bytes it was committed with, which stay as they
\* are until release(); a record in the hands of a consumer that is replaced
\* is handed to its successor.
RQ == INSTANCE RecordQueue WITH
        Record <- UNION { [1 .. n -> CellValue] : n \in 0 .. MaxRecordSize },
        queue  <- [k \in 1 .. Len(queue) |-> queue[k].body],
        view   <- IF peeked = 0 THEN <<>> ELSE <<Body(tail, peeked)>>,
        used   <- Used

ImplementsRecordQueue == RQ!Spec

=============================================================================
