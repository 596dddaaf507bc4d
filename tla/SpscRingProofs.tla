--------------------------- MODULE SpscRingProofs ---------------------------
(***************************************************************************)
(* Proofs about SpscRing for every capacity, prefix size, counter width    *)
(* and set of record sizes.                                                *)
(*                                                                         *)
(* The argument is about the distances between counters, all of which are  *)
(* measured back from head.  IInv keeps every counter that any load can    *)
(* return within Capacity of head and in the order                         *)
(*      cachedTail <= tail stores <= tail <= cachedHead <= head stores     *)
(* so that arithmetic modulo Wrap never wraps where it matters.            *)
(*                                                                         *)
(* The second half shows that the memory keeps the records and that the    *)
(* ring implements RecordQueue.                                            *)
(***************************************************************************)
EXTENDS SpscRing, SequenceTheorems, TLAPS

-----------------------------------------------------------------------------
(* Arithmetic of the wrapping counters.                                     *)

\* The remainder is the only one of its kind.
LEMMA ModUnique ==
  ASSUME NEW m \in Nat \ {0}, NEW q \in Int, NEW r \in 0 .. m - 1
  PROVE  (m * q + r) % m = r
<1> DEFINE x == m * q + r
<1>1. x \in Int
  OBVIOUS
<1>2. x = (m * (x \div m)) + (x % m) /\ (x % m) \in 0 .. m - 1 /\ x \div m \in Int
  BY <1>1
<1>3. CASE x \div m = q
  BY <1>2, <1>3
<1>4. CASE x \div m >= q + 1
  <2>1. m * (x \div m) >= m * (q + 1)
    BY <1>2, <1>4
  <2>2. m * (q + 1) = m * q + m
    OBVIOUS
  <2> QED
    BY <1>2, <2>1, <2>2
<1>5. CASE x \div m <= q - 1
  <2>1. m * (x \div m) <= m * (q - 1)
    BY <1>2, <1>5
  <2>2. m * (q - 1) = m * q - m
    OBVIOUS
  <2> QED
    BY <1>2, <2>1, <2>2
<1> QED
  BY <1>2, <1>3, <1>4, <1>5

\* head_ - tail_ and head_ += n stay within the counter's range.
LEMMA MinusType ==
  ASSUME NEW a \in Offset, NEW b \in Offset
  PROVE  Minus(a, b) \in Offset
BY RingAssumption DEF Minus, Offset

LEMMA PlusType ==
  ASSUME NEW a \in Offset, NEW n \in Nat
  PROVE  Plus(a, n) \in Offset
BY RingAssumption DEF Plus, Offset

\* The two cases of a wrapping subtraction.
LEMMA MinusCases ==
  ASSUME NEW a \in Offset, NEW b \in Offset
  PROVE  Minus(a, b) = IF b <= a THEN a - b ELSE a - b + Wrap
BY RingAssumption DEF Minus, Offset

\* The two cases of a wrapping addition of at most Capacity.
LEMMA PlusCases ==
  ASSUME NEW a \in Offset, NEW n \in 0 .. Capacity
  PROVE  Plus(a, n) = IF a + n < Wrap THEN a + n ELSE a + n - Wrap
<1>1. PICK k \in 2 .. Wrap : Wrap = k * Capacity
  BY RingAssumption
<1>2. Wrap >= 2 * Capacity
  BY <1>1, RingAssumption
<1> QED
  BY <1>2, RingAssumption DEF Plus, Offset

LEMMA WrapRoom == Wrap \in Nat /\ Capacity \in Nat /\ Wrap >= 2 * Capacity /\ Capacity > 0
<1>1. PICK k \in 2 .. Wrap : Wrap = k * Capacity
  BY RingAssumption
<1> QED
  BY <1>1, RingAssumption

\* A distance of at most Capacity can be added and read back.
LEMMA MinusPlus ==
  ASSUME NEW a \in Offset, NEW b \in Offset, NEW n \in 0 .. Capacity,
         Minus(a, b) + n <= Capacity
  PROVE  Minus(Plus(a, n), b) = Minus(a, b) + n
<1>1. n \in Nat /\ Plus(a, n) \in Offset
  BY PlusType, WrapRoom
<1>2. Minus(Plus(a, n), b) = IF b <= Plus(a, n) THEN Plus(a, n) - b ELSE Plus(a, n) - b + Wrap
  BY <1>1, MinusCases
<1>3. Minus(a, b) = IF b <= a THEN a - b ELSE a - b + Wrap
  BY MinusCases
<1>4. Plus(a, n) = IF a + n < Wrap THEN a + n ELSE a + n - Wrap
  BY PlusCases
<1> QED
  BY <1>1, <1>2, <1>3, <1>4, WrapRoom DEF Offset

\* Moving the subtrahend forward by at most the distance shortens it.
LEMMA MinusShorter ==
  ASSUME NEW a \in Offset, NEW b \in Offset, NEW n \in 0 .. Capacity,
         n <= Minus(a, b)
  PROVE  Minus(a, Plus(b, n)) = Minus(a, b) - n
<1>1. n \in Nat /\ Plus(b, n) \in Offset
  BY PlusType, WrapRoom
<1>2. Minus(a, Plus(b, n)) = IF Plus(b, n) <= a THEN a - Plus(b, n) ELSE a - Plus(b, n) + Wrap
  BY <1>1, MinusCases
<1>3. Minus(a, b) = IF b <= a THEN a - b ELSE a - b + Wrap
  BY MinusCases
<1>4. Plus(b, n) = IF b + n < Wrap THEN b + n ELSE b + n - Wrap
  BY PlusCases
<1> QED
  BY <1>1, <1>2, <1>3, <1>4, WrapRoom DEF Offset

\* Distances from one counter compare as their end points do.
LEMMA MinusSplit ==
  ASSUME NEW a \in Offset, NEW b \in Offset, NEW c \in Offset,
         Minus(a, b) <= Minus(a, c), Minus(a, c) <= Capacity
  PROVE  Minus(b, c) = Minus(a, c) - Minus(a, b)
BY MinusCases, WrapRoom DEF Offset

-----------------------------------------------------------------------------
(* Addresses.                                                               *)

\* A whole number of turns changes no address.
LEMMA ModShift ==
  ASSUME NEW x \in Int, NEW k \in Int
  PROVE  (x + Capacity * k) % Capacity = x % Capacity
<1> DEFINE q == x \div Capacity
           r == x % Capacity
<1>1. /\ Capacity \in Nat \ {0}
      /\ q \in Int
      /\ r \in 0 .. Capacity - 1
      /\ x = (Capacity * q) + r
  BY RingAssumption
<1>2. (Capacity * (q + k) + r) % Capacity = r
  <2>1. q + k \in Int
    BY <1>1
  <2> HIDE DEF q, r
  <2> QED
    BY <1>1, <2>1, ModUnique
<1>3. Capacity * (q + k) = Capacity * q + Capacity * k
  <2> HIDE DEF q, r
  <2> QED
    BY <1>1
<1>4. x + Capacity * k = Capacity * (q + k) + r
  <2> HIDE DEF q, r
  <2> QED
    BY <1>1, <1>3
<1> QED
  BY <1>2, <1>4

\* The mirrored mapping: byte i behind counter c lives where c + i does.
LEMMA CellMod ==
  ASSUME NEW c \in Nat, NEW i \in Nat
  PROVE  Cell(c, i) = (c + i) % Capacity
<1> DEFINE q == c \div Capacity
           r == c % Capacity
<1>1. /\ Capacity \in Nat \ {0}
      /\ q \in Int
      /\ r \in Int
      /\ c = (Capacity * q) + r
  BY RingAssumption
<1>2. (r + i + Capacity * q) % Capacity = (r + i) % Capacity
  <2> HIDE DEF q, r
  <2>1. r + i \in Int
    BY <1>1
  <2> QED
    BY <1>1, <2>1, ModShift
<1>3. r + i + Capacity * q = c + i
  <2> HIDE DEF q, r
  <2> QED
    BY <1>1
<1> QED
  BY <1>2, <1>3 DEF Cell, At

\* The wrap of the counters is invisible in the addresses, because Wrap is a
\* multiple of Capacity.
LEMMA CellPlus ==
  ASSUME NEW c \in Offset, NEW n \in 0 .. Capacity, NEW i \in Nat
  PROVE  Cell(Plus(c, n), i) = Cell(c, n + i)
<1>1. PICK k \in 2 .. Wrap : Wrap = k * Capacity
  BY RingAssumption
<1>2. /\ c \in Nat
      /\ Plus(c, n) \in Nat
      /\ n + i \in Nat
  BY PlusType, RingAssumption DEF Offset
<1>3. Cell(c, n + i) = (c + (n + i)) % Capacity
  BY <1>2, CellMod
<1>4. Cell(Plus(c, n), i) = (Plus(c, n) + i) % Capacity
  BY <1>2, CellMod
<1>5. CASE c + n < Wrap
  BY <1>2, <1>3, <1>4, <1>5, PlusCases
<1>6. CASE ~ (c + n < Wrap)
  <2>1. Plus(c, n) = c + n - Wrap
    BY <1>6, PlusCases
  <2>2. Plus(c, n) + i + Capacity * k = c + (n + i)
    BY <1>1, <1>2, <2>1, RingAssumption
  <2>3. (Plus(c, n) + i + Capacity * k) % Capacity = (Plus(c, n) + i) % Capacity
    BY <1>2, ModShift
  <2> QED
    BY <1>3, <1>4, <2>2, <2>3
<1> QED
  BY <1>5, <1>6

\* Bytes less than Capacity apart have different addresses.
LEMMA CellDistinct ==
  ASSUME NEW c \in Nat, NEW i \in Nat, NEW j \in Nat, i < j, j - i < Capacity
  PROVE  Cell(c, i) # Cell(c, j)
<1> DEFINE x == c + i
           y == c + j
           p == x \div Capacity
           q == y \div Capacity
<1>1. Capacity \in Nat \ {0} /\ x \in Nat /\ y \in Nat
  BY RingAssumption
<1>2. /\ p \in Int /\ q \in Int
      /\ x = (Capacity * p) + (x % Capacity)
      /\ y = (Capacity * q) + (y % Capacity)
      /\ x % Capacity \in Int
      /\ y % Capacity \in Int
  <2> HIDE DEF x, y
  <2> QED
    BY <1>1 DEF p, q
<1>3. SUFFICES ASSUME x % Capacity = y % Capacity
               PROVE  FALSE
  BY CellMod
<1>4. y - x = j - i
  OBVIOUS
<1> HIDE DEF x, y, p, q
<1>5. y - x = (Capacity * q) - (Capacity * p)
  BY <1>1, <1>2, <1>3
<1>6. (Capacity * q) - (Capacity * p) = Capacity * (q - p)
  BY <1>1, <1>2
<1>7. CASE q - p <= 0
  <2>1. Capacity * (q - p) <= 0
    BY <1>1, <1>2, <1>7
  <2> QED
    BY <1>1, <1>4, <1>5, <1>6, <2>1
<1>8. CASE q - p >= 1
  <2>1. Capacity * (q - p) >= Capacity
    BY <1>1, <1>2, <1>8
  <2> QED
    BY <1>1, <1>4, <1>5, <1>6, <2>1
<1> QED
  BY <1>2, <1>7, <1>8

\* The slot behind h shares no byte with what lies between t and h, as long as
\* both together fit into the ring.
LEMMA SlotDisjoint ==
  ASSUME NEW h \in Offset, NEW t \in Offset, NEW n \in Nat, Minus(h, t) + n <= Capacity
  PROVE  Cells(h, n) \cap Cells(t, Minus(h, t)) = {}
<1> DEFINE u == Minus(h, t)
<1>1. u \in 0 .. Capacity
  BY MinusType, WrapRoom DEF Offset
<1>2. Plus(t, u) = h
  <2>1. u = IF t <= h THEN h - t ELSE h - t + Wrap
    BY MinusCases
  <2> HIDE DEF u
  <2>2. Plus(t, u) = IF t + u < Wrap THEN t + u ELSE t + u - Wrap
    BY <1>1, PlusCases
  <2> QED
    BY <1>1, <2>1, <2>2, WrapRoom DEF Offset
<1>3. SUFFICES ASSUME NEW i \in 0 .. n - 1, NEW j \in 0 .. u - 1, Cell(h, i) = Cell(t, j)
               PROVE  FALSE
  BY DEF Cells
<1> HIDE DEF u
<1>4. Cell(h, i) = Cell(t, u + i)
  BY <1>1, <1>2, CellPlus
<1>5. Cell(t, j) # Cell(t, u + i)
  <2>1. /\ t \in Nat
        /\ j \in Nat
        /\ u + i \in Nat
        /\ j < u + i
    BY <1>1, WrapRoom DEF Offset
  <2>2. u + i - j < Capacity
    BY <1>1, <2>1, WrapRoom DEF u
  <2> QED
    <3> DEFINE k == u + i
    <3>1. k \in Nat /\ j < k /\ k - j < Capacity
      BY <1>1, <2>1, <2>2, WrapRoom
    <3> HIDE DEF k
    <3>2. Cell(t, j) # Cell(t, k)
      BY <2>1, <3>1, CellDistinct
    <3> QED
      BY <3>2 DEF k
<1> QED
  BY <1>3, <1>4, <1>5

-----------------------------------------------------------------------------
(* Type correctness and the order of the counters.                          *)

IInv == TypeOK /\ DistanceInv

LEMMA MaxRecordSizeBound ==
  /\ MaxRecordSize \in Nat
  /\ Prefix + MaxRecordSize <= Capacity
BY RingAssumption DEF MaxRecordSize

LEMMA CellType ==
  ASSUME NEW c \in Int, NEW i \in Int
  PROVE  Cell(c, i) \in 0 .. Capacity - 1
BY RingAssumption DEF Cell, At

\* The ring is created empty: nothing is reserved, peeked or in flight.
LEMMA InitIInv == Init => IInv
<1> SUFFICES ASSUME Init PROVE IInv
  OBVIOUS
<1>1. 0 \in Offset /\ Minus(0, 0) = 0
  BY WrapRoom DEF Offset, Minus
<1>2. TypeOK
  <2>1. mem \in [0 .. Capacity - 1 -> CellValue]
    BY DEF Init, CellValue
  <2>2. queue \in Seq([at : Offset, body : Seq(CellValue)])
    BY DEF Init
  <2> QED
    BY <1>1, <2>1, <2>2 DEF Init, TypeOK
<1>3. DistanceInv
  BY <1>1, WrapRoom DEF Init, DistanceInv, Used
<1> QED
  BY <1>2, <1>3 DEF IInv

\* The values and distances the steps below work with.
LEMMA Distances ==
  ASSUME IInv
  PROVE  /\ head \in Offset /\ tail \in Offset
         /\ cachedTail \in Offset /\ cachedHead \in Offset
         /\ reserved \in 0 .. Capacity /\ peeked \in 0 .. Capacity
         /\ Used \in 0 .. Capacity
         /\ \A t \in tailStores : t \in Offset /\ Minus(head, t) \in 0 .. Capacity
         /\ \A h \in headStores : h \in Offset /\ Minus(head, h) \in 0 .. Capacity
<1>1. /\ head \in Offset /\ tail \in Offset
      /\ cachedTail \in Offset /\ cachedHead \in Offset
      /\ reserved \in 0 .. Capacity /\ peeked \in 0 .. Capacity
      /\ tailStores \subseteq Offset /\ headStores \subseteq Offset
  BY RingAssumption DEF IInv, TypeOK
<1>2. \A o \in Offset : Minus(head, o) \in Nat
  BY <1>1, MinusType, WrapRoom DEF Offset
<1>3. Minus(head, cachedTail) \in 0 .. Capacity
  BY <1>1, <1>2, WrapRoom DEF IInv, DistanceInv
<1>4. \A t \in tailStores : Minus(head, t) \in 0 .. Capacity
  BY <1>1, <1>2, <1>3, WrapRoom DEF IInv, DistanceInv
<1>5. Used \in 0 .. Capacity
  BY <1>4 DEF IInv, DistanceInv, Used
<1>6. Minus(head, cachedHead) \in 0 .. Capacity
  BY <1>1, <1>2, <1>5, WrapRoom DEF IInv, DistanceInv
<1>7. \A h \in headStores : Minus(head, h) \in 0 .. Capacity
  BY <1>1, <1>2, <1>6, WrapRoom DEF IInv, DistanceInv
<1> QED
  BY <1>1, <1>4, <1>5, <1>7

\* try_reserve(): the slot handed out is well typed and the prefix is written.
LEMMA GrantType ==
  ASSUME TypeOK, NEW n \in 0 .. MaxRecordSize, Grant(n)
  PROVE  /\ mem' \in [0 .. Capacity - 1 -> CellValue]
         /\ reserved' \in Prefix .. Capacity
         /\ reserved' = Prefix + n
<1>1. reserved' = Prefix + n /\ reserved' \in Prefix .. Capacity
  BY MaxRecordSizeBound, RingAssumption DEF Grant
<1>2. ASSUME NEW c \in 0 .. Capacity - 1
      PROVE  mem'[c] \in CellValue
  <2> DEFINE i == (c - At(head)) % Capacity
  <2>1. mem[c] \in CellValue
    BY DEF TypeOK
  <2>2. i \in Nat
    BY WrapRoom DEF TypeOK, Offset, At
  <2>3. mem'[c] = IF i < Prefix THEN LengthByte(n, i) ELSE mem[c]
    BY DEF Grant
  <2> HIDE DEF i
  <2>4. i < Prefix => LengthByte(n, i) \in CellValue
    BY <2>2, RingAssumption DEF LengthByte, CellValue
  <2> QED
    BY <2>1, <2>3, <2>4
<1>3. mem' \in [0 .. Capacity - 1 -> CellValue]
  BY <1>2 DEF Grant
<1> QED
  BY <1>1, <1>3

\* Room() speaks about the true distance, not only about its value modulo Wrap.
LEMMA RoomMeaning ==
  ASSUME IInv, NEW t \in tailStores, NEW n \in 0 .. MaxRecordSize, Room(t, n)
  PROVE  Minus(head, t) + Prefix + n <= Capacity
<1>1. Minus(head, t) \in 0 .. Capacity
  BY Distances
<1>2. Capacity \in Offset /\ Minus(head, t) \in Offset
  BY <1>1, WrapRoom DEF Offset
<1>3. Minus(Capacity, Minus(head, t)) = Capacity - Minus(head, t)
  BY <1>1, <1>2, MinusCases, WrapRoom
<1> QED
  BY <1>1, <1>3, MaxRecordSizeBound, RingAssumption DEF Room

\* try_reserve() on the cached tail.
LEMMA ReserveCachedIInv ==
  ASSUME IInv, NEW n \in Sizes, ReserveCached(n)
  PROVE  IInv'
<1>1. n \in 0 .. MaxRecordSize
  BY RingAssumption, MaxRecordSizeBound DEF ReserveCached
<1>2. TypeOK'
  <2>1. /\ mem' \in [0 .. Capacity - 1 -> CellValue]
        /\ reserved' \in Prefix .. Capacity
    BY <1>1, GrantType DEF ReserveCached, IInv
  <2> QED
    BY <2>1 DEF ReserveCached, IInv, TypeOK, consumerVars
<1>3. Minus(head, cachedTail) + reserved' <= Capacity
  <2>1. reserved' = Prefix + n
    BY DEF ReserveCached, Grant
  <2>2. Minus(head, cachedTail) + Prefix + n <= Capacity
    BY <1>1, RoomMeaning DEF ReserveCached, IInv, DistanceInv
  <2>3. Minus(head, cachedTail) \in Nat
    BY Distances DEF IInv, DistanceInv
  <2> QED
    BY <1>1, <2>1, <2>2, <2>3, RingAssumption
<1>4. DistanceInv'
  BY <1>3 DEF ReserveCached, IInv, DistanceInv, Used, consumerVars
<1> QED
  BY <1>2, <1>4 DEF IInv

\* try_reserve() that reads the tail again, whether or not it then finds room.
LEMMA ReserveReloadIInv ==
  ASSUME IInv, NEW n \in Sizes, ReserveReload(n)
  PROVE  IInv'
<1>1. n \in 0 .. MaxRecordSize
  BY RingAssumption, MaxRecordSizeBound DEF ReserveReload
<1>2. PICK t \in tailStores :
        /\ LoadTail(t)
        /\ \/ Room(t, n) /\ Grant(n)
           \/ ~ Room(t, n) /\ UNCHANGED <<mem, reserved>>
  BY DEF ReserveReload
<1>3. /\ cachedTail' = t
      /\ tailStores' = { v \in tailStores : Minus(tail, v) <= Minus(tail, t) }
      /\ UNCHANGED <<head, tail, headStores, cachedHead, peeked, corrupted, queue>>
  BY <1>2 DEF LoadTail, ReserveReload, consumerVars
<1>4. TypeOK'
  <2>1. /\ mem' \in [0 .. Capacity - 1 -> CellValue]
        /\ reserved' \in {0} \cup Prefix .. Capacity
    BY <1>1, <1>2, GrantType DEF IInv, TypeOK
  <2>2. cachedTail' \in Offset /\ tailStores' \subseteq Offset
    BY <1>3 DEF IInv, TypeOK
  <2> QED
    BY <1>3, <2>1, <2>2 DEF IInv, TypeOK
<1>5. Minus(head, t) + reserved' <= Capacity
  <2>1. CASE Room(t, n) /\ Grant(n)
    <3>1. Minus(head, t) + Prefix + n <= Capacity
      BY <1>1, <2>1, RoomMeaning
    <3>2. reserved' = Prefix + n /\ Minus(head, t) \in Nat
      BY <2>1, Distances DEF Grant
    <3> QED
      BY <1>1, <3>1, <3>2, RingAssumption
  <2>2. CASE UNCHANGED <<mem, reserved>>
    <3>1. /\ Minus(head, t) <= Minus(head, cachedTail)
          /\ Minus(head, cachedTail) + reserved <= Capacity
      BY DEF IInv, DistanceInv
    <3>2. /\ Minus(head, t) \in Nat
          /\ Minus(head, cachedTail) \in Nat
          /\ reserved \in Nat
      BY Distances DEF IInv, DistanceInv
    <3> QED
      BY <2>2, <3>1, <3>2, WrapRoom
  <2> QED
    BY <1>2, <2>1, <2>2
<1>6. \A v \in tailStores : Minus(tail, v) = Minus(head, v) - Used
  <2> SUFFICES ASSUME NEW v \in tailStores
               PROVE  Minus(tail, v) = Minus(head, v) - Used
    OBVIOUS
  <2>1. v \in Offset /\ Minus(head, v) <= Capacity
    BY Distances
  <2>2. Minus(head, tail) <= Minus(head, v)
    BY DEF IInv, DistanceInv, Used
  <2>3. head \in Offset /\ tail \in Offset
    BY Distances
  <2> QED
    BY <2>1, <2>2, <2>3, MinusSplit DEF Used
<1>7. \A v \in tailStores' : Minus(head, v) <= Minus(head, t)
  <2> SUFFICES ASSUME NEW v \in tailStores, Minus(tail, v) <= Minus(tail, t)
               PROVE  Minus(head, v) <= Minus(head, t)
    BY <1>3
  <2>1. Minus(head, v) \in Nat /\ Minus(head, t) \in Nat /\ Used \in Nat
    BY Distances
  <2> QED
    BY <1>6, <2>1
<1>8. tail \in tailStores' /\ t \in tailStores'
  <2>1. Minus(tail, tail) = 0 /\ Minus(tail, t) \in Nat
    BY Distances, MinusCases, MinusType, WrapRoom DEF Offset
  <2>2. tail \in tailStores
    BY DEF IInv, DistanceInv
  <2> QED
    BY <1>3, <2>1, <2>2
<1>9. DistanceInv'
  BY <1>3, <1>5, <1>7, <1>8 DEF IInv, DistanceInv, Used
<1> QED
  BY <1>4, <1>9 DEF IInv

\* The caller fills the slot: no counter moves.
LEMMA WriteSlotIInv ==
  ASSUME IInv, NEW i \in 0 .. MaxRecordSize - 1, NEW b \in Byte, WriteSlot(i, b)
  PROVE  IInv'
<1>1. mem' \in [0 .. Capacity - 1 -> CellValue]
  BY DEF WriteSlot, IInv, TypeOK, CellValue
<1>2. TypeOK'
  BY <1>1 DEF WriteSlot, IInv, TypeOK, producerVars, consumerVars
<1>3. DistanceInv'
  BY DEF WriteSlot, IInv, DistanceInv, Used, producerVars, consumerVars
<1> QED
  BY <1>2, <1>3 DEF IInv

\* commit(): every distance grows by the reserved bytes.
LEMMA CommitIInv ==
  ASSUME IInv, Commit
  PROVE  IInv'
<1>1. /\ head' = Plus(head, reserved)
      /\ reserved' = 0
      /\ headStores' = headStores \cup {head'}
      /\ queue' = Append(queue, [at |-> head, body |-> Body(head, reserved)])
      /\ UNCHANGED <<mem, tail, tailStores, cachedTail, cachedHead, peeked, corrupted>>
  BY DEF Commit, consumerVars
<1>2. head \in Offset /\ reserved \in 0 .. Capacity /\ reserved >= Prefix
  BY Distances, RingAssumption DEF Commit, IInv, TypeOK
<1>3. head' \in Offset
  BY <1>1, <1>2, PlusType, WrapRoom
<1>4. Body(head, reserved) \in Seq(CellValue)
  <2>1. ASSUME NEW i \in 1 .. reserved - Prefix
        PROVE  mem[Cell(head, Prefix + i - 1)] \in CellValue
    <3>1. Cell(head, Prefix + i - 1) \in 0 .. Capacity - 1
      BY <1>2, CellType, RingAssumption, WrapRoom DEF Offset
    <3> QED
      BY <3>1 DEF IInv, TypeOK
  <2>2. reserved - Prefix \in Nat
    BY <1>2, RingAssumption
  <2> QED
    BY <2>1, <2>2 DEF Body
<1>5. TypeOK'
  <2>1. queue' \in Seq([at : Offset, body : Seq(CellValue)])
    BY <1>1, <1>2, <1>4 DEF IInv, TypeOK
  <2>2. headStores' \subseteq Offset
    BY <1>1, <1>3 DEF IInv, TypeOK
  <2> QED
    BY <1>1, <1>3, <2>1, <2>2 DEF IInv, TypeOK
<1>6. \A o \in tailStores \cup headStores \cup {tail} : Minus(head', o) = Minus(head, o) + reserved
  <2> SUFFICES ASSUME NEW o \in tailStores \cup headStores \cup {tail}
               PROVE  Minus(head', o) = Minus(head, o) + reserved
    OBVIOUS
  <2>1. o \in Offset /\ Minus(head, o) \in 0 .. Capacity
    BY Distances DEF Used
  <2>2. Minus(head, o) <= Minus(head, cachedTail)
    <3>1. CASE o \in tailStores \cup {tail}
      BY <3>1 DEF IInv, DistanceInv
    <3>2. CASE o \in headStores
      <4>1. /\ Minus(head, o) <= Minus(head, cachedHead)
            /\ Minus(head, cachedHead) + peeked <= Used
            /\ Used <= Minus(head, cachedTail)
        BY <3>2 DEF IInv, DistanceInv
      <4>2. /\ Minus(head, cachedHead) \in Nat /\ peeked \in Nat
            /\ Used \in Nat /\ Minus(head, cachedTail) \in Nat
        BY Distances DEF IInv, DistanceInv
      <4> QED
        BY <2>1, <4>1, <4>2
    <3> QED
      BY <3>1, <3>2
  <2>3. /\ Minus(head, cachedTail) + reserved <= Capacity
        /\ Minus(head, cachedTail) \in Nat
    BY Distances DEF IInv, DistanceInv
  <2>4. Minus(head, o) + reserved <= Capacity
    BY <1>2, <2>1, <2>2, <2>3, WrapRoom
  <2> QED
    BY <1>1, <1>2, <2>1, <2>4, MinusPlus
<1>7. Minus(head', head') = 0
  BY <1>3, MinusCases DEF Offset
<1>8. DistanceInv'
  <2>1. /\ tail \in tailStores /\ cachedTail \in tailStores
        /\ cachedHead \in headStores
    BY DEF IInv, DistanceInv
  <2>2. /\ Minus(head', cachedTail) = Minus(head, cachedTail) + reserved
        /\ Minus(head', cachedHead) = Minus(head, cachedHead) + reserved
        /\ Minus(head', tail) = Used + reserved
    BY <1>6, <2>1 DEF Used
  <2>3. /\ Minus(head, cachedTail) \in Nat
        /\ Minus(head, cachedHead) \in Nat
        /\ Used \in Nat
        /\ peeked \in Nat
    BY <2>1, Distances
  <2>4. Minus(head', cachedTail) + reserved' <= Capacity
    BY <1>1, <1>2, <2>2, <2>3 DEF IInv, DistanceInv
  <2>5. ASSUME NEW t \in tailStores
        PROVE  /\ Minus(head', tail) <= Minus(head', t)
               /\ Minus(head', t) <= Minus(head', cachedTail)
    <3>1. Minus(head', t) = Minus(head, t) + reserved /\ Minus(head, t) \in Nat
      BY <1>6, Distances
    <3> QED
      BY <1>2, <2>2, <2>3, <3>1 DEF IInv, DistanceInv
  <2>6. ASSUME NEW h \in headStores'
        PROVE  Minus(head', h) <= Minus(head', cachedHead)
    <3>1. CASE h \in headStores
      <4>1. Minus(head', h) = Minus(head, h) + reserved /\ Minus(head, h) \in Nat
        BY <1>6, <3>1, Distances
      <4> QED
        BY <1>2, <2>2, <2>3, <3>1, <4>1 DEF IInv, DistanceInv
    <3>2. CASE h = head'
      BY <1>2, <1>7, <2>2, <2>3, <3>2
    <3> QED
      BY <1>1, <3>1, <3>2
  <2>7. Minus(head', cachedHead) + peeked <= Minus(head', tail)
    BY <1>2, <2>2, <2>3 DEF IInv, DistanceInv
  <2> QED
    BY <1>1, <2>1, <2>4, <2>5, <2>6, <2>7 DEF DistanceInv, Used
<1> QED
  BY <1>5, <1>8 DEF IInv

\* What the consumer may load from head lies between tail and head.
LEMMA HeadDistances ==
  ASSUME IInv, NEW h \in headStores
  PROVE  /\ Minus(h, tail) = Used - Minus(head, h)
         /\ Minus(head, h) <= Used
<1>1. /\ head \in Offset /\ tail \in Offset /\ h \in Offset
      /\ Used \in 0 .. Capacity
      /\ Minus(head, h) \in Nat
      /\ Minus(head, cachedHead) \in Nat
      /\ peeked \in Nat
  BY Distances DEF IInv, DistanceInv
<1>2. Minus(head, h) <= Used
  BY <1>1 DEF IInv, DistanceInv
<1>3. Minus(head, h) <= Minus(head, tail) /\ Minus(head, tail) <= Capacity
  BY <1>1, <1>2, WrapRoom DEF Used
<1> QED
  BY <1>1, <1>2, <1>3, MinusSplit DEF Used

\* A record that passes the checks of try_peek() lies below the loaded head.
LEMMA InspectBound ==
  ASSUME IInv, NEW h \in headStores, Inspect(h)
  PROVE  /\ peeked' \in {0} \cup Prefix .. Capacity
         /\ peeked' \in Nat
         /\ corrupted' \in BOOLEAN
         /\ Minus(head, h) + peeked' <= Used
<1>1. PICK n \in Lengths(tail) :
        LET malformed == Prefix + n > Minus(h, tail) \/ Prefix + n > Capacity
        IN  /\ corrupted' = malformed
            /\ peeked' = IF malformed THEN 0 ELSE Prefix + n
  BY DEF Inspect
<1>2. n \in Nat
  BY <1>1, MaxRecordSizeBound, RingAssumption DEF Lengths
<1>3. /\ Minus(h, tail) = Used - Minus(head, h)
      /\ Minus(head, h) <= Used
  BY HeadDistances
<1>4. Used \in Nat /\ Minus(head, h) \in Nat
  BY Distances
<1>5. CASE Prefix + n > Minus(h, tail) \/ Prefix + n > Capacity
  BY <1>1, <1>3, <1>4, <1>5
<1>6. CASE ~ (Prefix + n > Minus(h, tail) \/ Prefix + n > Capacity)
  <2>1. peeked' = Prefix + n
    BY <1>1, <1>6
  <2>2. corrupted' \in BOOLEAN
    BY <1>1, <1>6
  <2> QED
    BY <1>2, <1>3, <1>4, <1>6, <2>1, <2>2, RingAssumption
<1> QED
  BY <1>5, <1>6

\* try_peek() on the cached head.
LEMMA PeekCachedIInv ==
  ASSUME IInv, PeekCached
  PROVE  IInv'
<1>1. /\ Inspect(cachedHead)
      /\ UNCHANGED <<mem, head, tail, headStores, tailStores, cachedTail, reserved,
                     cachedHead, queue>>
  BY DEF PeekCached, sharedVars, producerVars
<1>2. /\ peeked' \in {0} \cup Prefix .. Capacity
      /\ corrupted' \in BOOLEAN
      /\ Minus(head, cachedHead) + peeked' <= Used
  BY <1>1, InspectBound DEF IInv, DistanceInv
<1>3. TypeOK'
  BY <1>1, <1>2 DEF IInv, TypeOK
<1>4. DistanceInv'
  BY <1>1, <1>2 DEF IInv, DistanceInv, Used
<1> QED
  BY <1>3, <1>4 DEF IInv

\* Loading head keeps the newer stores visible and forgets the older ones.
LEMMA LoadHeadDistances ==
  ASSUME IInv, NEW h \in headStores, LoadHead(h)
  PROVE  /\ cachedHead' = h
         /\ headStores' \subseteq headStores
         /\ head \in headStores'
         /\ h \in headStores'
         /\ \A v \in headStores' : Minus(head, v) <= Minus(head, h)
<1>1. /\ cachedHead' = h
      /\ headStores' = { v \in headStores : Minus(head, v) <= Minus(head, h) }
  BY DEF LoadHead
<1>2. Minus(head, head) = 0 /\ Minus(head, h) \in Nat /\ head \in headStores
  BY Distances, MinusCases DEF Offset, IInv, DistanceInv
<1> QED
  BY <1>1, <1>2

\* try_peek() that reads the head again, and the constructor of the next consumer.
LEMMA PeekReloadIInv ==
  ASSUME IInv, PeekReload
  PROVE  IInv'
<1>1. PICK h \in headStores :
        /\ LoadHead(h)
        /\ \/ h # tail /\ Inspect(h)
           \/ h = tail /\ UNCHANGED <<peeked, corrupted>>
  BY DEF PeekReload
<1>2. /\ UNCHANGED <<mem, head, tail, tailStores, cachedTail, reserved, queue>>
      /\ peeked = 0
  BY DEF PeekReload, producerVars
<1>3. /\ peeked' \in {0} \cup Prefix .. Capacity
      /\ corrupted' \in BOOLEAN
      /\ Minus(head, h) + peeked' <= Used
  <2>1. CASE Inspect(h)
    BY <2>1, InspectBound
  <2>2. CASE UNCHANGED <<peeked, corrupted>>
    BY <1>2, <2>2, HeadDistances, Distances DEF IInv, TypeOK
  <2> QED
    BY <1>1, <2>1, <2>2
<1>4. TypeOK'
  BY <1>1, <1>2, <1>3, LoadHeadDistances DEF IInv, TypeOK
<1>5. DistanceInv'
  BY <1>1, <1>2, <1>3, LoadHeadDistances DEF IInv, DistanceInv, Used
<1> QED
  BY <1>4, <1>5 DEF IInv

LEMMA ReattachIInv ==
  ASSUME IInv, Reattach
  PROVE  IInv'
<1>1. PICK h \in headStores : LoadHead(h)
  BY DEF Reattach
<1>2. /\ UNCHANGED <<mem, head, tail, tailStores, cachedTail, reserved, queue>>
      /\ peeked' = 0
      /\ corrupted' = FALSE
  BY DEF Reattach, producerVars
<1>3. Minus(head, h) + peeked' <= Used
  BY <1>2, HeadDistances, Distances
<1>4. TypeOK'
  BY <1>1, <1>2, LoadHeadDistances DEF IInv, TypeOK
<1>5. DistanceInv'
  BY <1>1, <1>2, <1>3, LoadHeadDistances DEF IInv, DistanceInv, Used
<1> QED
  BY <1>4, <1>5 DEF IInv

\* release(): the bytes in use shrink by the peeked record.
LEMMA ReleaseIInv ==
  ASSUME IInv, Release
  PROVE  IInv'
<1>1. /\ tail' = Plus(tail, peeked)
      /\ peeked' = 0
      /\ tailStores' = tailStores \cup {tail'}
      /\ queue' = SubSeq(queue, 2, Len(queue))
      /\ UNCHANGED <<mem, head, headStores, cachedTail, reserved, cachedHead, corrupted>>
  BY DEF Release, producerVars
<1>2. /\ head \in Offset /\ tail \in Offset
      /\ peeked \in 0 .. Capacity
      /\ Used \in Nat
      /\ Minus(head, cachedHead) \in Nat
      /\ Minus(head, cachedTail) \in Nat
  BY Distances DEF IInv, DistanceInv
<1>3. tail' \in Offset
  BY <1>1, <1>2, PlusType, WrapRoom
<1>4. Minus(head, cachedHead) + peeked <= Used
  BY DEF IInv, DistanceInv
<1>5. Minus(head, tail') = Used - peeked
  <2>1. peeked <= Minus(head, tail)
    BY <1>2, <1>4 DEF Used
  <2> QED
    BY <1>1, <1>2, <2>1, MinusShorter DEF Used
<1>6. TypeOK'
  <2>1. queue' \in Seq([at : Offset, body : Seq(CellValue)])
    <3> DEFINE S == [at : Offset, body : Seq(CellValue)]
    <3>1. queue \in Seq(S)
      BY DEF IInv, TypeOK
    <3> HIDE DEF S
    <3>2. SubSeq(queue, 2, Len(queue)) \in Seq(S)
      BY <3>1
    <3> QED
      BY <1>1, <3>2 DEF S
  <2>2. tailStores' \subseteq Offset
    BY <1>1, <1>3 DEF IInv, TypeOK
  <2> QED
    BY <1>1, <1>3, <2>1, <2>2 DEF IInv, TypeOK
<1>7. DistanceInv'
  <2>1. ASSUME NEW t \in tailStores'
        PROVE  /\ Minus(head, tail') <= Minus(head, t)
               /\ Minus(head, t) <= Minus(head, cachedTail)
    <3>1. CASE t \in tailStores
      <4>1. Used <= Minus(head, t) /\ Minus(head, t) <= Minus(head, cachedTail)
        BY <3>1 DEF IInv, DistanceInv
      <4>2. Minus(head, t) \in Nat
        BY <3>1, Distances
      <4> QED
        BY <1>2, <1>5, <4>1, <4>2
    <3>2. CASE t = tail'
      <4>1. Used <= Minus(head, cachedTail)
        BY DEF IInv, DistanceInv
      <4> QED
        BY <1>2, <1>5, <3>2, <4>1
    <3> QED
      BY <1>1, <3>1, <3>2
  <2>2. Minus(head, cachedHead) + peeked' <= Minus(head, tail')
    BY <1>1, <1>2, <1>4, <1>5
  <2>3. tail' \in tailStores' /\ cachedTail \in tailStores'
    BY <1>1 DEF IInv, DistanceInv
  <2> QED
    BY <1>1, <2>1, <2>2, <2>3 DEF IInv, DistanceInv, Used
<1> QED
  BY <1>6, <1>7 DEF IInv

LEMMA NextIInv == IInv /\ [Next]_vars => IInv'
<1> SUFFICES ASSUME IInv, [Next]_vars PROVE IInv'
  OBVIOUS
<1>1. ASSUME NEW n \in Sizes, ReserveCached(n) \/ ReserveReload(n)
      PROVE  IInv'
  BY <1>1, ReserveCachedIInv, ReserveReloadIInv
<1>2. ASSUME NEW i \in 0 .. MaxRecordSize - 1, NEW b \in Byte, WriteSlot(i, b)
      PROVE  IInv'
  BY <1>2, WriteSlotIInv
<1>3. CASE Commit
  BY <1>3, CommitIInv
<1>4. CASE PeekCached
  BY <1>4, PeekCachedIInv
<1>5. CASE PeekReload
  BY <1>5, PeekReloadIInv
<1>6. CASE Release
  BY <1>6, ReleaseIInv
<1>7. CASE Reattach
  BY <1>7, ReattachIInv
<1>8. CASE UNCHANGED vars
  BY <1>8 DEF vars, sharedVars, producerVars, consumerVars, IInv, TypeOK, DistanceInv, Used
<1> QED
  BY <1>1, <1>2, <1>3, <1>4, <1>5, <1>6, <1>7, <1>8 DEF Next, Producer, Consumer

-----------------------------------------------------------------------------
(* The theorems.                                                            *)

\* Every reachable state of the ring is well typed: counters stay below Wrap and
\* no record that is reserved or peeked is longer than the ring.
THEOREM TypeCorrect == Spec => []TypeOK
<1>1. IInv => TypeOK
  BY DEF IInv
<1> QED
  BY InitIInv, NextIInv, <1>1, PTL DEF Spec

\* The order of the counters is maintained by every call of either side.
THEOREM CountersOrdered == Spec => []DistanceInv
<1>1. IInv => DistanceInv
  BY DEF IInv
<1> QED
  BY InitIInv, NextIInv, <1>1, PTL DEF Spec

\* Whatever a load returns, the producer never believes in more room and the
\* consumer never in more data than there is.
THEOREM LoadsSound == Spec => []StaleViewsSound
<1>1. ASSUME IInv PROVE StaleViewsSound
  <2>1. \A h \in headStores : Minus(h, tail) <= Used
    <3> SUFFICES ASSUME NEW h \in headStores PROVE Minus(h, tail) <= Used
      OBVIOUS
    <3>1. Minus(h, tail) = Used - Minus(head, h)
      BY <1>1, HeadDistances
    <3>2. Used \in Nat /\ Minus(head, h) \in Nat
      BY <1>1, Distances
    <3> QED
      BY <3>1, <3>2
  <2>2. \A t \in tailStores : Used <= Minus(head, t) /\ Minus(head, t) <= Capacity
    BY <1>1, Distances DEF IInv, DistanceInv
  <2> QED
    BY <1>1, <2>1, <2>2 DEF StaleViewsSound, IInv, DistanceInv
<1> QED
  BY InitIInv, NextIInv, <1>1, PTL DEF Spec

\* try_reserve() never hands out a byte that the consumer may still read, and
\* try_peek() never a byte that the producer may still write: for every
\* capacity, across the wrap of the data area and of the counters.
THEOREM RaceFree == Spec => []NoDataRace
<1>1. ASSUME IInv PROVE NoDataRace
  <2>1. /\ head \in Offset /\ tail \in Offset /\ cachedTail \in Offset
        /\ reserved \in Nat /\ peeked \in Nat
        /\ Used \in Nat
        /\ Minus(head, cachedTail) \in Nat
        /\ Minus(head, cachedHead) \in Nat
    BY <1>1, Distances DEF IInv, DistanceInv
  <2>2. Minus(head, cachedTail) + reserved <= Capacity
    BY <1>1 DEF IInv, DistanceInv
  <2>3. Used + reserved <= Capacity
    BY <1>1, <2>1, <2>2, WrapRoom DEF IInv, DistanceInv
  <2>4. peeked <= Minus(cachedHead, tail)
    <3>1. Minus(cachedHead, tail) = Used - Minus(head, cachedHead)
      BY <1>1, HeadDistances DEF IInv, DistanceInv
    <3> QED
      BY <1>1, <2>1, <3>1 DEF IInv, DistanceInv
  <2>5. Cells(head, reserved) \cap Cells(cachedTail, Minus(head, cachedTail)) = {}
    BY <2>1, <2>2, SlotDisjoint
  <2>6. Cells(head, reserved) \cap Cells(tail, Used) = {}
    BY <2>1, <2>3, SlotDisjoint DEF Used
  <2> QED
    BY <2>4, <2>5, <2>6 DEF NoDataRace
<1> QED
  BY InitIInv, NextIInv, <1>1, PTL DEF Spec

-----------------------------------------------------------------------------
(***************************************************************************)
(* The ring keeps the records it was given and implements RecordQueue.     *)
(*                                                                         *)
(* On top of the order of the counters the argument needs where the        *)
(* records are.  Measured back from head, a record's bytes lie between its *)
(* own offset and the next record's, and all of them within the bytes in   *)
(* use; the slot that the producer writes begins at head and ends before   *)
(* the oldest byte comes round again.  So no write of the producer reaches *)
(* a record, and every head that the consumer may load is the beginning or *)
(* the end of a record, never the middle of one.                           *)
(***************************************************************************)

\* How far back from head a counter lies.
Back(c) == Minus(head, c)

SizeOf(k) == Prefix + Len(queue[k].body)

\* The memory holds a record with this body at c.
Stored(c, body) ==
  /\ \A i \in 0 .. Prefix - 1 : mem[Cell(c, i)] = LengthByte(Len(body), i)
  /\ \A i \in 1 .. Len(body) : mem[Cell(c, Prefix + i - 1)] = body[i]

AllStored == \A k \in 1 .. Len(queue) : Stored(queue[k].at, queue[k].body)

\* The records lie one behind the other from tail to head.
Chained ==
  /\ queue = <<>> <=> head = tail
  /\ \A k \in 1 .. Len(queue) :
       /\ queue[k].at = IF k = 1 THEN tail ELSE Plus(queue[k - 1].at, SizeOf(k - 1))
       /\ k = Len(queue) => head = Plus(queue[k].at, SizeOf(k))

\* The same in distances from head: no record overlaps a later one or the slot.
RecordsApart ==
  /\ \A k \in 1 .. Len(queue) :
       /\ Len(queue[k].body) <= MaxRecordSize
       /\ SizeOf(k) <= Back(queue[k].at)
       /\ Back(queue[k].at) <= Used
  /\ \A j, k \in 1 .. Len(queue) : j < k => Back(queue[k].at) + SizeOf(j) <= Back(queue[j].at)

\* Every head that the consumer may load is the boundary of a record.
HeadsAtBoundaries ==
  \A h \in headStores : h = head \/ \E k \in 1 .. Len(queue) : h = queue[k].at

\* What each side has in hand: a slot with its length prefix, and the oldest record.
HandsInv ==
  /\ reserved # 0 => \A i \in 0 .. Prefix - 1 : mem[Cell(head, i)] = LengthByte(reserved - Prefix, i)
  /\ reserved # 0 => reserved - Prefix <= MaxRecordSize
  /\ peeked # 0 => queue # <<>> /\ peeked = SizeOf(1)
  /\ ~ corrupted

RingInv == IInv /\ AllStored /\ Chained /\ RecordsApart /\ HeadsAtBoundaries /\ HandsInv

-----------------------------------------------------------------------------
(* Bytes of the slot and bytes of the records.                              *)

\* A sequence without its first element.
LEMMA WithoutFirst ==
  ASSUME NEW S, NEW s \in Seq(S), NEW t, s # <<>>, t = SubSeq(s, 2, Len(s))
  PROVE  /\ Len(s) \in Nat /\ Len(s) # 0
         /\ Len(t) = Len(s) - 1
         /\ \A k \in 1 .. Len(s) - 1 : t[k] = s[k + 1]
<1>1. Len(s) \in Nat /\ Len(s) # 0
  BY EmptySeq
<1>2. \A i \in 2 .. Len(s) : s[i] \in S
  BY <1>1, ElementOfSeq
<1>3. /\ Len(t) = IF 2 <= Len(s) THEN Len(s) - 2 + 1 ELSE 0
      /\ \A i \in 1 .. Len(s) - 2 + 1 : t[i] = s[2 + i - 1]
  BY <1>1, <1>2, SubSeqProperties
<1>4. Len(t) = Len(s) - 1
  <2>1. CASE Len(s) = 1
    <3>1. ~(2 <= Len(s)) /\ Len(s) - 1 = 0
      BY <2>1
    <3> QED
      BY <1>3, <3>1, Zenon
  <2>2. CASE Len(s) # 1
    <3>1. 2 <= Len(s) /\ Len(s) - 2 + 1 = Len(s) - 1
      BY <1>1, <2>2
    <3> QED
      BY <1>3, <3>1, Zenon
  <2> QED
    BY <2>1, <2>2
<1>5. ASSUME NEW k \in 1 .. Len(s) - 1
      PROVE  t[k] = s[k + 1]
  <2>1. k \in 1 .. Len(s) - 2 + 1 /\ 2 + k - 1 = k + 1
    BY <1>1
  <2>2. t[k] = s[2 + k - 1]
    BY <1>3, <2>1, Zenon
  <2> QED
    BY <2>1, <2>2, Zenon
<1> QED
  BY <1>1, <1>4, <1>5

\* The records of the queue are well typed.
LEMMA RecordType ==
  ASSUME IInv, NEW k \in 1 .. Len(queue)
  PROVE  /\ queue[k].at \in Offset
         /\ queue[k].body \in Seq(CellValue)
         /\ Len(queue[k].body) \in Nat
         /\ SizeOf(k) \in Nat /\ SizeOf(k) >= Prefix
         /\ Back(queue[k].at) \in Nat
<1>1. queue[k].at \in Offset /\ queue[k].body \in Seq(CellValue)
  <2>1. queue \in Seq([at : Offset, body : Seq(CellValue)])
    BY DEF IInv, TypeOK
  <2>2. queue[k] \in [at : Offset, body : Seq(CellValue)]
    <3> DEFINE S == [at : Offset, body : Seq(CellValue)]
    <3>1. queue \in Seq(S)
      BY <2>1
    <3> HIDE DEF S
    <3>2. queue[k] \in S
      BY <3>1
    <3> QED
      BY <3>2 DEF S
  <2> QED
    BY <2>2
<1>2. head \in Offset
  BY Distances
<1>3. Back(queue[k].at) \in Nat
  <2>1. \A o \in Offset : Minus(head, o) \in Offset
    BY <1>2, MinusType
  <2> QED
    BY <1>1, <2>1, WrapRoom DEF Back, Offset
<1> QED
  BY <1>1, <1>3, RingAssumption DEF SizeOf

\* What try_reserve() hands out ends before the oldest unreleased byte.
LEMMA SlotFits == IInv => Used + reserved <= Capacity
BY Distances, WrapRoom DEF IInv, DistanceInv

\* The inverse of Cell: which byte behind h an address is.
LEMMA CellIndex ==
  ASSUME NEW h \in Offset, NEW c \in 0 .. Capacity - 1
  PROVE  /\ (c - At(h)) % Capacity \in 0 .. Capacity - 1
         /\ Cell(h, (c - At(h)) % Capacity) = c
<1> DEFINE a == At(h)
<1>1. a \in 0 .. Capacity - 1 /\ Capacity \in Nat \ {0}
  BY RingAssumption, WrapRoom DEF At, Offset
<1>2. ASSUME NEW i \in Int
      PROVE  Cell(h, i) = (a + i) % Capacity
  BY DEF Cell
<1> HIDE DEF a
<1>3. CASE c >= a
  <2>1. (c - a) % Capacity = c - a
    BY <1>1, <1>3
  <2>2. (a + (c - a)) % Capacity = c
    BY <1>1
  <2> QED
    BY <1>1, <1>2, <1>3, <2>1, <2>2 DEF a
<1>4. CASE c < a
  <2>1. (c - a) % Capacity = c - a + Capacity
    BY <1>1, <1>4
  <2>2. (a + (c - a + Capacity)) % Capacity = c
    BY <1>1
  <2> QED
    BY <1>1, <1>2, <1>4, <2>1, <2>2 DEF a
<1> QED
  BY <1>1, <1>3, <1>4

LEMMA CellIndexOf ==
  ASSUME NEW h \in Offset, NEW i \in 0 .. Capacity - 1
  PROVE  (Cell(h, i) - At(h)) % Capacity = i
<1> DEFINE a == At(h)
<1>1. a \in 0 .. Capacity - 1 /\ Capacity \in Nat \ {0}
  BY RingAssumption, WrapRoom DEF At, Offset
<1>2. Cell(h, i) = (a + i) % Capacity
  BY DEF Cell
<1> HIDE DEF a
<1>3. CASE a + i < Capacity
  <2>1. (a + i) % Capacity = a + i
    BY <1>1, <1>3
  <2>2. (a + i - a) % Capacity = i
    BY <1>1
  <2> QED
    BY <1>1, <1>2, <2>1, <2>2 DEF a
<1>4. CASE a + i >= Capacity
  <2>1. (a + i) % Capacity = a + i - Capacity
    BY <1>1, <1>4
  <2>2. (a + i - Capacity - a) % Capacity = i
    BY <1>1
  <2> QED
    BY <1>1, <1>2, <2>1, <2>2 DEF a
<1> QED
  BY <1>1, <1>3, <1>4

\* A write into the slot of n bytes leaves a record alone that lies further back.
LEMMA StoredStable ==
  ASSUME NEW o \in Offset, NEW n \in Nat, NEW body \in Seq(CellValue),
         head \in Offset, Back(o) + n <= Capacity, Prefix + Len(body) <= Back(o),
         \A c \in (0 .. Capacity - 1) \ Cells(head, n) : mem'[c] = mem[c],
         Stored(o, body)
  PROVE  Stored(o, body)'
<1>1. Back(o) \in Nat /\ Prefix \in Nat /\ Len(body) \in Nat
  BY MinusType, WrapRoom, RingAssumption DEF Back, Offset
<1>2. Cells(head, n) \cap Cells(o, Back(o)) = {}
  BY SlotDisjoint DEF Back
<1>3. ASSUME NEW i \in 0 .. Back(o) - 1
      PROVE  mem'[Cell(o, i)] = mem[Cell(o, i)]
  <2>1. Cell(o, i) \in 0 .. Capacity - 1
    BY CellType DEF Offset
  <2>2. Cell(o, i) \in Cells(o, Back(o))
    BY DEF Cells
  <2> QED
    BY <1>2, <2>1, <2>2
<1>4. ASSUME NEW i \in 0 .. Prefix - 1
      PROVE  mem'[Cell(o, i)] = LengthByte(Len(body), i)
  <2>1. i \in 0 .. Back(o) - 1
    BY <1>1
  <2> QED
    BY <1>3, <2>1 DEF Stored
<1>5. ASSUME NEW i \in 1 .. Len(body)
      PROVE  mem'[Cell(o, Prefix + i - 1)] = body[i]
  <2>1. Prefix + i - 1 \in 0 .. Back(o) - 1
    BY <1>1
  <2> QED
    BY <1>3, <2>1 DEF Stored
<1> QED
  BY <1>4, <1>5 DEF Stored

-----------------------------------------------------------------------------
(* The producer.                                                            *)

\* A step that writes only into the slot keeps all records.
LEMMA RecordsKept ==
  ASSUME RingInv, IInv', UNCHANGED <<head, tail, headStores, queue>>,
         \A c \in (0 .. Capacity - 1) \ Cells(head, reserved') : mem'[c] = mem[c]
  PROVE  AllStored' /\ Chained' /\ RecordsApart' /\ HeadsAtBoundaries'
<1>1. Used' + reserved' <= Capacity /\ Used' = Used /\ reserved' \in Nat
  <2>1. (Used + reserved <= Capacity)'
    BY SlotFits, PTL
  <2>2. reserved' \in Nat
    BY RingAssumption DEF IInv, TypeOK
  <2> QED
    BY <2>1, <2>2 DEF Used
<1>2. IInv /\ head \in Offset /\ Used \in Nat
  BY Distances DEF RingInv
<1>3. AllStored'
  <2> SUFFICES ASSUME NEW k \in 1 .. Len(queue)
               PROVE  Stored(queue[k].at, queue[k].body)'
    BY DEF AllStored
  <2> DEFINE o == queue[k].at
             body == queue[k].body
  <2>1. /\ o \in Offset /\ body \in Seq(CellValue)
        /\ Back(o) \in Nat
        /\ Prefix + Len(body) <= Back(o)
        /\ Back(o) <= Used
        /\ Stored(o, body)
    BY <1>2, RecordType DEF RingInv, RecordsApart, AllStored, SizeOf
  <2>2. Back(o) + reserved' <= Capacity
    BY <1>1, <1>2, <2>1, WrapRoom
  <2>3. o' = o /\ body' = body
    OBVIOUS
  <2> HIDE DEF o, body
  <2>4. \A b \in Seq(CellValue), c \in Offset :
          Back(c) + reserved' <= Capacity /\ Prefix + Len(b) <= Back(c) /\ Stored(c, b)
            => Stored(c, b)'
    BY <1>1, <1>2, StoredStable
  <2>5. Stored(o, body)'
    BY <2>1, <2>2, <2>3, <2>4 DEF Stored
  <2> QED
    BY <2>5 DEF o, body
<1>4. Chained'
  BY DEF RingInv, Chained, SizeOf
<1>5. RecordsApart'
  BY DEF RingInv, RecordsApart, SizeOf, Back, Used
<1>6. HeadsAtBoundaries'
  BY DEF RingInv, HeadsAtBoundaries
<1> QED
  BY <1>3, <1>4, <1>5, <1>6

\* Grant() writes the prefix of the slot and no other byte.
LEMMA GrantWrites ==
  ASSUME IInv, NEW n \in 0 .. MaxRecordSize, Grant(n)
  PROVE  /\ \A c \in (0 .. Capacity - 1) \ Cells(head, reserved') : mem'[c] = mem[c]
         /\ \A i \in 0 .. Prefix - 1 : mem'[Cell(head, i)] = LengthByte(n, i)
         /\ reserved' = Prefix + n
<1>1. /\ head \in Offset
      /\ reserved' = Prefix + n
      /\ Prefix \in Nat /\ Prefix <= Capacity /\ Capacity \in Nat /\ n \in Nat
  BY Distances, RingAssumption, MaxRecordSizeBound DEF Grant
<1>2. ASSUME NEW c \in 0 .. Capacity - 1
      PROVE  mem'[c] = IF (c - At(head)) % Capacity < Prefix
                       THEN LengthByte(n, (c - At(head)) % Capacity) ELSE mem[c]
  BY DEF Grant
<1>3. ASSUME NEW c \in (0 .. Capacity - 1) \ Cells(head, reserved')
      PROVE  mem'[c] = mem[c]
  <2> DEFINE j == (c - At(head)) % Capacity
  <2>1. j \in 0 .. Capacity - 1 /\ Cell(head, j) = c
    BY <1>1, CellIndex
  <2>2. mem'[c] = IF j < Prefix THEN LengthByte(n, j) ELSE mem[c]
    BY <1>2
  <2> HIDE DEF j
  <2>3. ~ (j < Prefix)
    <3> SUFFICES ASSUME j < Prefix PROVE FALSE
      OBVIOUS
    <3>1. j \in 0 .. reserved' - 1
      BY <1>1, <2>1
    <3> QED
      BY <2>1, <3>1 DEF Cells
  <2> QED
    BY <2>2, <2>3
<1>4. ASSUME NEW i \in 0 .. Prefix - 1
      PROVE  mem'[Cell(head, i)] = LengthByte(n, i)
  <2>1. i \in 0 .. Capacity - 1
    BY <1>1
  <2>2. Cell(head, i) \in 0 .. Capacity - 1
    <3>1. head \in Int /\ i \in Int
      BY <1>1, WrapRoom DEF Offset
    <3> QED
      BY <3>1, CellType
  <2>3. (Cell(head, i) - At(head)) % Capacity = i
    BY <1>1, <2>1, CellIndexOf
  <2>4. i < Prefix
    BY <1>1
  <2> QED
    BY <1>2, <2>2, <2>3, <2>4
<1> QED
  BY <1>1, <1>3, <1>4

\* try_reserve() on the cached tail.
LEMMA ReserveCachedKeeps ==
  ASSUME RingInv, NEW n \in Sizes, ReserveCached(n)
  PROVE  RingInv'
<1>1. IInv' /\ IInv
  BY ReserveCachedIInv DEF RingInv
<1>2. n \in 0 .. MaxRecordSize /\ Grant(n)
  BY RingAssumption, MaxRecordSizeBound DEF ReserveCached
<1>3. UNCHANGED <<head, tail, headStores, queue, peeked, corrupted>>
  BY DEF ReserveCached, consumerVars
<1>4. AllStored' /\ Chained' /\ RecordsApart' /\ HeadsAtBoundaries'
  BY <1>1, <1>2, <1>3, GrantWrites, RecordsKept
<1>5. HandsInv'
  <2>1. reserved' - Prefix = n
    BY <1>1, <1>2, GrantWrites, MaxRecordSizeBound, RingAssumption
  <2> QED
    BY <1>1, <1>2, <1>3, <2>1, GrantWrites DEF RingInv, HandsInv, SizeOf
<1> QED
  BY <1>1, <1>4, <1>5 DEF RingInv

\* try_reserve() that reads the tail again: with room, and without.
LEMMA ReserveReloadKeeps ==
  ASSUME RingInv, NEW n \in Sizes, ReserveReload(n)
  PROVE  RingInv'
<1>1. IInv' /\ IInv
  BY ReserveReloadIInv DEF RingInv
<1>2. n \in 0 .. MaxRecordSize /\ (Grant(n) \/ UNCHANGED <<mem, reserved>>)
  BY RingAssumption, MaxRecordSizeBound DEF ReserveReload
<1>3. UNCHANGED <<head, tail, headStores, queue, peeked, corrupted>>
  BY DEF ReserveReload, consumerVars
<1>4. AllStored' /\ Chained' /\ RecordsApart' /\ HeadsAtBoundaries'
  <2>1. CASE Grant(n)
    BY <1>1, <1>2, <1>3, <2>1, GrantWrites, RecordsKept
  <2>2. CASE UNCHANGED <<mem, reserved>>
    BY <1>1, <1>3, <2>2, RecordsKept
  <2> QED
    BY <1>2, <2>1, <2>2
<1>5. HandsInv'
  <2>1. CASE Grant(n)
    <3>1. reserved' - Prefix = n
      BY <1>1, <1>2, <2>1, GrantWrites, MaxRecordSizeBound, RingAssumption
    <3> QED
      BY <1>1, <1>2, <1>3, <2>1, <3>1, GrantWrites DEF RingInv, HandsInv, SizeOf
  <2>2. CASE UNCHANGED <<mem, reserved>>
    BY <1>3, <2>2 DEF RingInv, HandsInv, SizeOf
  <2> QED
    BY <1>2, <2>1, <2>2
<1> QED
  BY <1>1, <1>4, <1>5 DEF RingInv

\* The caller fills the slot behind the prefix.
LEMMA WriteSlotKeeps ==
  ASSUME RingInv, NEW i \in 0 .. MaxRecordSize - 1, NEW b \in Byte, WriteSlot(i, b)
  PROVE  RingInv'
<1>1. IInv' /\ IInv
  BY WriteSlotIInv DEF RingInv
<1>2. /\ mem' = [mem EXCEPT ![Cell(head, Prefix + i)] = b]
      /\ i < reserved - Prefix
      /\ UNCHANGED <<head, tail, headStores, queue, reserved, peeked, corrupted>>
  BY DEF WriteSlot, consumerVars, producerVars
<1>3. /\ head \in Offset /\ head \in Nat
      /\ reserved \in 0 .. Capacity
      /\ Prefix \in Nat /\ i \in Nat /\ Capacity \in Nat
      /\ Prefix + i \in 0 .. reserved - 1
      /\ mem \in [0 .. Capacity - 1 -> CellValue]
  BY <1>1, <1>2, Distances, RingAssumption, MaxRecordSizeBound, WrapRoom DEF Offset, IInv, TypeOK
<1>4. \A c \in (0 .. Capacity - 1) \ Cells(head, reserved') : mem'[c] = mem[c]
  <2>1. Cell(head, Prefix + i) \in Cells(head, reserved')
    BY <1>2, <1>3 DEF Cells
  <2> QED
    BY <1>2, <1>3, <2>1
<1>5. AllStored' /\ Chained' /\ RecordsApart' /\ HeadsAtBoundaries'
  BY <1>1, <1>2, <1>4, RecordsKept
<1>6. ASSUME NEW j \in 0 .. Prefix - 1
      PROVE  mem'[Cell(head, j)] = mem[Cell(head, j)]
  <2>1. Cell(head, j) # Cell(head, Prefix + i)
    <3> DEFINE m == Prefix + i
    <3>1. j \in Nat /\ m \in Nat /\ j < m /\ m - j < Capacity
      BY <1>3
    <3> HIDE DEF m
    <3>2. Cell(head, j) # Cell(head, m)
      BY <1>3, <3>1, CellDistinct
    <3> QED
      BY <3>2 DEF m
  <2>2. Cell(head, j) \in 0 .. Capacity - 1
    <3>1. head \in Int /\ j \in Int
      BY <1>3
    <3> QED
      BY <3>1, CellType
  <2> QED
    BY <1>2, <1>3, <2>1, <2>2
<1>7. HandsInv'
  BY <1>2, <1>6 DEF RingInv, HandsInv, SizeOf
<1> QED
  BY <1>1, <1>5, <1>7 DEF RingInv

\* commit(): the slot becomes the youngest record and everything else is a bit
\* further back.
LEMMA CommitKeeps ==
  ASSUME RingInv, Commit
  PROVE  RingInv'
<1> DEFINE L == Len(queue)
           body == Body(head, reserved)
           r == [at |-> head, body |-> body]
           N(k) == Prefix + Len(queue'[k].body)
<1>1. IInv' /\ IInv
  BY CommitIInv DEF RingInv
<1>2. /\ reserved # 0
      /\ head' = Plus(head, reserved)
      /\ reserved' = 0
      /\ headStores' = headStores \cup {head'}
      /\ queue' = Append(queue, r)
      /\ UNCHANGED <<mem, tail, peeked, corrupted>>
  BY DEF Commit, consumerVars
<1>3. /\ head \in Offset /\ tail \in Offset
      /\ Used \in Nat
      /\ Prefix \in Nat \ {0} /\ Capacity \in Nat
      /\ reserved \in Prefix .. Capacity
      /\ Used + reserved <= Capacity
  BY <1>1, <1>2, Distances, SlotFits, RingAssumption DEF IInv, TypeOK
<1>4. /\ L \in Nat
      /\ Len(queue') = L + 1
      /\ \A k \in 1 .. L : queue'[k] = queue[k]
      /\ queue'[L + 1] = r
  <2> DEFINE S == [at : Offset, body : Seq(CellValue)]
  <2>1. queue \in Seq(S) /\ queue' \in Seq(S)
    BY <1>1 DEF IInv, TypeOK
  <2> HIDE DEF S, r
  <2> QED
    BY <1>2, <2>1
<1>5. /\ Len(body) = reserved - Prefix
      /\ \A i \in 1 .. reserved - Prefix : body[i] = mem[Cell(head, Prefix + i - 1)]
  <2>1. reserved - Prefix \in Nat
    BY <1>3
  <2> QED
    BY <2>1 DEF Body
<1>6. Stored(head, body)
  <2>1. \A i \in 0 .. Prefix - 1 : mem[Cell(head, i)] = LengthByte(Len(body), i)
    BY <1>2, <1>5 DEF RingInv, HandsInv
  <2> QED
    BY <1>5, <2>1 DEF Stored
<1>7. r.at = head /\ r.body = body
  OBVIOUS
<1> HIDE DEF body, r, L
<1>8. /\ \A k \in 1 .. L : N(k) = SizeOf(k) /\ k \in 1 .. L + 1
      /\ N(L + 1) = reserved
  BY <1>3, <1>4, <1>5, <1>7 DEF SizeOf, L
<1> HIDE DEF N
<1>9. ASSUME NEW k \in 1 .. L
      PROVE  /\ queue[k].at \in Offset
             /\ Back(queue[k].at) \in Nat /\ SizeOf(k) \in Nat /\ SizeOf(k) >= Prefix
             /\ SizeOf(k) <= Back(queue[k].at)
             /\ Back(queue[k].at) <= Used
             /\ Minus(head', queue[k].at) = Back(queue[k].at) + reserved
  <2>1. /\ queue[k].at \in Offset
        /\ Back(queue[k].at) \in Nat /\ SizeOf(k) \in Nat /\ SizeOf(k) >= Prefix
        /\ SizeOf(k) <= Back(queue[k].at)
        /\ Back(queue[k].at) <= Used
    BY <1>1, RecordType DEF RingInv, RecordsApart, L
  <2> DEFINE o == queue[k].at
  <2> HIDE DEF o
  <2>2. o \in Offset /\ reserved \in 0 .. Capacity /\ Minus(head, o) + reserved <= Capacity
    BY <1>3, <2>1 DEF o, Back
  <2>3. Minus(Plus(head, reserved), o) = Minus(head, o) + reserved
    BY <1>3, <2>2, MinusPlus
  <2> QED
    BY <1>2, <2>1, <2>3 DEF o, Back
<1>10. Minus(head', tail) = Used + reserved /\ Minus(head', head) = reserved
  <2>1. Minus(head, head) = 0 /\ reserved \in 0 .. Capacity
    BY <1>3, MinusCases DEF Offset
  <2>2. Minus(Plus(head, reserved), tail) = Minus(head, tail) + reserved
    BY <1>3, <2>1, MinusPlus DEF Used
  <2>3. Minus(Plus(head, reserved), head) = Minus(head, head) + reserved
    BY <1>3, <2>1, MinusPlus
  <2> QED
    BY <1>2, <1>3, <2>1, <2>2, <2>3 DEF Used
<1>11. AllStored'
  <2> SUFFICES ASSUME NEW k \in 1 .. L + 1
               PROVE  Stored(queue'[k].at, queue'[k].body)
    BY <1>2, <1>4 DEF AllStored, Stored
  <2>1. CASE k = L + 1
    BY <1>4, <1>6, <1>7, <2>1
  <2>2. CASE k \in 1 .. L
    BY <1>4, <2>2 DEF AllStored, RingInv, L
  <2> QED
    BY <1>4, <2>1, <2>2
<1>12. Chained'
  <2>1. queue' # <<>> /\ head' # tail'
    <3>1. Minus(head', tail) > 0
      BY <1>3, <1>10
    <3>2. Minus(tail, tail) = 0
      BY <1>3, MinusCases DEF Offset
    <3> QED
      BY <1>2, <1>4, <3>1, <3>2
  <2>2. ASSUME NEW k \in 1 .. L
        PROVE  /\ queue'[k].at = IF k = 1 THEN tail ELSE Plus(queue'[k - 1].at, N(k - 1))
               /\ k # L + 1
    <3>1. queue[k].at = IF k = 1 THEN tail ELSE Plus(queue[k - 1].at, SizeOf(k - 1))
      BY DEF RingInv, Chained, L
    <3>2. k # 1 => k - 1 \in 1 .. L
      BY <1>4
    <3> QED
      BY <1>4, <1>8, <3>1, <3>2
  <2>3. /\ queue'[L + 1].at = IF L + 1 = 1 THEN tail ELSE Plus(queue'[L].at, N(L))
        /\ head' = Plus(queue'[L + 1].at, N(L + 1))
    <3>1. CASE L = 0
      <4>1. queue = <<>>
        BY <3>1, <1>1 DEF L, IInv, TypeOK
      <4> QED
        BY <1>2, <1>4, <1>7, <1>8, <3>1, <4>1 DEF RingInv, Chained
    <3>2. CASE L # 0
      <4>1. L \in 1 .. L
        BY <1>4, <3>2
      <4>2. head = Plus(queue[L].at, SizeOf(L))
        BY <4>1 DEF RingInv, Chained, L
      <4> QED
        BY <1>2, <1>4, <1>7, <1>8, <3>2, <4>1, <4>2
    <3> QED
      BY <3>1, <3>2
  <2>4. (L + 1) - 1 = L
    BY <1>4
  <2> QED
    BY <1>2, <1>4, <2>1, <2>2, <2>3, <2>4 DEF Chained, SizeOf, N
<1>13. RecordsApart'
  <2>1. ASSUME NEW k \in 1 .. L + 1
        PROVE  /\ Len(queue'[k].body) <= MaxRecordSize
               /\ N(k) <= Minus(head', queue'[k].at)
               /\ Minus(head', queue'[k].at) <= Minus(head', tail)
    <3>1. CASE k = L + 1
      <4>1. reserved - Prefix <= MaxRecordSize
        BY <1>2 DEF RingInv, HandsInv
      <4>2. queue'[k].at = head /\ Len(queue'[k].body) = reserved - Prefix /\ N(k) = reserved
        BY <1>4, <1>5, <1>7, <1>8, <3>1
      <4> QED
        BY <1>3, <1>10, <4>1, <4>2
    <3>2. CASE k \in 1 .. L
      <4>1. Len(queue[k].body) <= MaxRecordSize
        BY <3>2 DEF RingInv, RecordsApart, L
      <4>2. queue'[k] = queue[k] /\ N(k) = SizeOf(k)
        BY <1>4, <1>8, <3>2
      <4> QED
        BY <1>3, <1>9, <1>10, <3>2, <4>1, <4>2
    <3> QED
      BY <1>4, <3>1, <3>2
  <2>2. ASSUME NEW j \in 1 .. L + 1, NEW k \in 1 .. L + 1, j < k
        PROVE  Minus(head', queue'[k].at) + N(j) <= Minus(head', queue'[j].at)
    <3>1. j \in 1 .. L
      BY <1>4, <2>2
    <3>2. CASE k = L + 1
      <4>1. queue'[j] = queue[j] /\ N(j) = SizeOf(j) /\ queue'[k].at = head
        BY <1>4, <1>7, <1>8, <3>1, <3>2
      <4> QED
        BY <1>3, <1>9, <1>10, <3>1, <4>1
    <3>3. CASE k \in 1 .. L
      <4>1. Back(queue[k].at) + SizeOf(j) <= Back(queue[j].at)
        BY <2>2, <3>1, <3>3 DEF RingInv, RecordsApart, L
      <4>2. /\ Minus(head', queue[k].at) = Back(queue[k].at) + reserved
            /\ Minus(head', queue[j].at) = Back(queue[j].at) + reserved
            /\ Back(queue[k].at) \in Nat /\ Back(queue[j].at) \in Nat /\ SizeOf(j) \in Nat
        BY <1>9, <3>1, <3>3
      <4>3. queue'[j] = queue[j] /\ N(j) = SizeOf(j) /\ queue'[k] = queue[k]
        BY <1>4, <1>8, <3>1, <3>3
      <4> QED
        BY <1>3, <4>1, <4>2, <4>3
    <3> QED
      BY <1>4, <3>2, <3>3
  <2>3. tail' = tail
    BY <1>2
  <2> QED
    BY <1>4, <2>1, <2>2, <2>3 DEF RecordsApart, SizeOf, N, Back, Used
<1>14. HeadsAtBoundaries'
  <2> SUFFICES ASSUME NEW h \in headStores', h # head'
               PROVE  \E k \in 1 .. Len(queue') : h = queue'[k].at
    BY DEF HeadsAtBoundaries
  <2>1. h \in headStores
    BY <1>2
  <2>2. CASE h = head
    <3>1. L + 1 \in 1 .. Len(queue')
      BY <1>4
    <3> QED
      BY <1>4, <1>7, <2>2, <3>1
  <2>3. CASE h # head
    <3>1. PICK k \in 1 .. L : h = queue[k].at
      BY <2>1, <2>3 DEF RingInv, HeadsAtBoundaries, L
    <3>2. k \in 1 .. Len(queue') /\ queue'[k] = queue[k]
      BY <1>4
    <3> QED
      BY <3>1, <3>2
  <2> QED
    BY <2>2, <2>3
<1>15. HandsInv'
  <2>1. peeked' # 0 => queue' # <<>> /\ peeked' = N(1)
    <3> SUFFICES ASSUME peeked # 0 PROVE queue' # <<>> /\ peeked = N(1)
      BY <1>2
    <3>1. queue # <<>> /\ peeked = SizeOf(1)
      BY DEF RingInv, HandsInv
    <3>2. 1 \in 1 .. L
      BY <1>1, <1>4, <3>1 DEF L, IInv, TypeOK
    <3> QED
      BY <1>4, <1>8, <3>1, <3>2
  <2> QED
    BY <1>2, <2>1 DEF RingInv, HandsInv, SizeOf, N
<1> QED
  BY <1>1, <1>11, <1>12, <1>13, <1>14, <1>15 DEF RingInv

-----------------------------------------------------------------------------
(* The consumer.                                                            *)

\* The oldest record begins at tail.
LEMMA OldestAtTail ==
  ASSUME RingInv, head # tail
  PROVE  /\ queue # <<>>
         /\ 1 \in 1 .. Len(queue)
         /\ queue[1].at = tail
         /\ Stored(tail, queue[1].body)
         /\ SizeOf(1) <= Used
         /\ Len(queue[1].body) \in 0 .. MaxRecordSize
         /\ queue[1].body \in Seq(CellValue)
<1>1. queue # <<>>
  BY DEF RingInv, Chained
<1>2. 1 \in 1 .. Len(queue)
  BY <1>1 DEF RingInv, IInv, TypeOK
<1>3. queue[1].at = tail
  BY <1>2 DEF RingInv, Chained
<1>4. /\ Len(queue[1].body) \in 0 .. MaxRecordSize
      /\ queue[1].body \in Seq(CellValue)
  BY <1>2, RecordType, MaxRecordSizeBound DEF RingInv, RecordsApart
<1> QED
  BY <1>1, <1>2, <1>3, <1>4 DEF RingInv, RecordsApart, AllStored, Back, Used

\* The length that is read at tail is the length of the oldest record.
LEMMA LengthExact ==
  ASSUME RingInv, head # tail
  PROVE  Lengths(tail) = {Len(queue[1].body)}
<1> DEFINE n == Len(queue[1].body)
<1>1. n \in 0 .. MaxRecordSize /\ \A i \in 0 .. Prefix - 1 : mem[Cell(tail, i)] = LengthByte(n, i)
  BY OldestAtTail DEF Stored
<1>2. 0 \in 0 .. Prefix - 1
  BY RingAssumption
<1> HIDE DEF n
<1>3. ASSUME NEW m, \A i \in 0 .. Prefix - 1 : mem[Cell(tail, i)] = LengthByte(m, i)
      PROVE  m = n
  <2>1. LengthByte(m, 0) = LengthByte(n, 0)
    BY <1>1, <1>2, <1>3
  <2> QED
    BY <2>1 DEF LengthByte
<1>4. { m \in 0 .. MaxRecordSize : \A i \in 0 .. Prefix - 1 : mem[Cell(tail, i)] = LengthByte(m, i) } = {n}
  BY <1>1, <1>3
<1> QED
  BY <1>4 DEF Lengths, n

\* try_peek() accepts the oldest record, whatever head it has loaded: a head
\* other than tail lies behind the whole record.
LEMMA InspectExact ==
  ASSUME RingInv, NEW h \in headStores, h # tail, Inspect(h)
  PROVE  /\ head # tail
         /\ peeked' = SizeOf(1)
         /\ corrupted' = FALSE
<1>1. IInv
  BY DEF RingInv
<1>2. /\ head \in Offset /\ tail \in Offset /\ h \in Offset
      /\ Used \in Nat /\ Used <= Capacity
      /\ Minus(head, h) \in Nat
      /\ Minus(h, tail) = Used - Minus(head, h)
  BY <1>1, Distances, HeadDistances
<1>3. Minus(tail, tail) = 0 /\ Minus(h, tail) # 0
  BY <1>2, MinusCases, WrapRoom DEF Offset
<1>4. head # tail
  BY <1>1, <1>2, <1>3, HeadDistances DEF Used
<1>5. SizeOf(1) <= Minus(h, tail)
  <2>1. CASE h = head
    BY <1>4, <2>1, OldestAtTail DEF Used
  <2>2. CASE h # head
    <3>1. PICK k \in 1 .. Len(queue) : h = queue[k].at
      BY <2>2 DEF RingInv, HeadsAtBoundaries
    <3>2. 1 \in 1 .. Len(queue) /\ queue[1].at = tail /\ k # 1 /\ 1 < k
      BY <1>4, <3>1, OldestAtTail
    <3>3. Back(h) + SizeOf(1) <= Back(tail)
      BY <3>1, <3>2 DEF RingInv, RecordsApart
    <3>4. SizeOf(1) \in Nat
      BY <1>1, <3>2, RecordType
    <3> QED
      BY <1>2, <3>3, <3>4 DEF Back, Used
  <2> QED
    BY <2>1, <2>2
<1>6. PICK n \in Lengths(tail) :
        LET malformed == Prefix + n > Minus(h, tail) \/ Prefix + n > Capacity
        IN  /\ corrupted' = malformed
            /\ peeked' = IF malformed THEN 0 ELSE Prefix + n
  BY DEF Inspect
<1>7. Prefix + n = SizeOf(1) /\ SizeOf(1) \in Nat
  <2>1. n = Len(queue[1].body)
    BY <1>4, <1>6, LengthExact
  <2> QED
    BY <1>1, <1>4, <2>1, OldestAtTail, RecordType DEF SizeOf
<1>8. ~ (Prefix + n > Minus(h, tail) \/ Prefix + n > Capacity)
  BY <1>2, <1>5, <1>7, WrapRoom
<1>9. peeked' = SizeOf(1)
  BY <1>6, <1>7, <1>8
<1>10. corrupted' = FALSE
  BY <1>6, <1>8
<1> QED
  BY <1>4, <1>9, <1>10

\* Steps of the consumer that read only.
LEMMA ReadKeeps ==
  ASSUME RingInv, IInv', UNCHANGED <<mem, head, tail, reserved, queue>>,
         headStores' \subseteq headStores,
         \/ peeked' = 0
         \/ queue # <<>> /\ peeked' = SizeOf(1)
         \/ peeked' = peeked,
         corrupted' = FALSE
  PROVE  RingInv'
<1>1. AllStored'
  BY DEF RingInv, AllStored, Stored
<1>2. Chained'
  BY DEF RingInv, Chained, SizeOf
<1>3. RecordsApart'
  BY DEF RingInv, RecordsApart, SizeOf, Back, Used
<1>4. HeadsAtBoundaries'
  BY DEF RingInv, HeadsAtBoundaries
<1>5. HandsInv'
  BY DEF RingInv, HandsInv, SizeOf
<1> QED
  BY <1>1, <1>2, <1>3, <1>4, <1>5 DEF RingInv

\* try_peek() on the cached head.
LEMMA PeekCachedKeeps ==
  ASSUME RingInv, PeekCached
  PROVE  RingInv'
<1>1. /\ Inspect(cachedHead)
      /\ cachedHead # tail
      /\ UNCHANGED <<mem, head, tail, headStores, reserved, queue>>
  BY DEF PeekCached, sharedVars, producerVars
<1>2. cachedHead \in headStores /\ IInv'
  BY PeekCachedIInv DEF RingInv, IInv, DistanceInv
<1>3. queue # <<>> /\ peeked' = SizeOf(1) /\ corrupted' = FALSE
  BY <1>1, <1>2, InspectExact, OldestAtTail
<1> QED
  BY <1>1, <1>2, <1>3, ReadKeeps

\* try_peek() that reads the head again.
LEMMA PeekReloadKeeps ==
  ASSUME RingInv, PeekReload
  PROVE  RingInv'
<1>1. PICK h \in headStores :
        /\ LoadHead(h)
        /\ \/ h # tail /\ Inspect(h)
           \/ h = tail /\ UNCHANGED <<peeked, corrupted>>
  BY DEF PeekReload
<1>2. /\ UNCHANGED <<mem, head, tail, reserved, queue>>
      /\ headStores' \subseteq headStores
      /\ IInv'
  BY <1>1, PeekReloadIInv DEF PeekReload, producerVars, RingInv, LoadHead
<1>3. CASE h # tail /\ Inspect(h)
  <2>1. queue # <<>> /\ peeked' = SizeOf(1) /\ corrupted' = FALSE
    BY <1>3, InspectExact, OldestAtTail
  <2> QED
    BY <1>2, <2>1, ReadKeeps
<1>4. CASE UNCHANGED <<peeked, corrupted>>
  <2>1. corrupted' = FALSE
    BY <1>2, <1>4 DEF RingInv, HandsInv, IInv, TypeOK
  <2> QED
    BY <1>2, <1>4, <2>1, ReadKeeps
<1> QED
  BY <1>1, <1>3, <1>4

\* The constructor of the next consumer.
LEMMA ReattachKeeps ==
  ASSUME RingInv, Reattach
  PROVE  RingInv'
<1>1. /\ UNCHANGED <<mem, head, tail, reserved, queue>>
      /\ headStores' \subseteq headStores
      /\ peeked' = 0
      /\ corrupted' = FALSE
      /\ IInv'
  BY ReattachIInv DEF Reattach, producerVars, RingInv, LoadHead
<1> QED
  BY <1>1, ReadKeeps

\* release(): the oldest record is gone and tail is at the next one, or at head.
LEMMA ReleaseKeeps ==
  ASSUME RingInv, Release
  PROVE  RingInv'
<1> DEFINE L == Len(queue)
           N(k) == Prefix + Len(queue'[k].body)
<1>1. IInv' /\ IInv
  BY ReleaseIInv DEF RingInv
<1>2. /\ peeked # 0
      /\ tail' = Plus(tail, peeked)
      /\ peeked' = 0
      /\ queue' = SubSeq(queue, 2, Len(queue))
      /\ UNCHANGED <<mem, head, headStores, reserved, cachedHead, corrupted>>
  BY DEF Release, producerVars
<1>3. queue # <<>> /\ head # tail /\ peeked = SizeOf(1)
  BY <1>2 DEF RingInv, HandsInv, Chained
<1>4. /\ L \in Nat /\ 1 \in 1 .. L
      /\ Len(queue') = L - 1
      /\ \A k \in 1 .. L - 1 : queue'[k] = queue[k + 1] /\ k + 1 \in 1 .. L
  <2> DEFINE S == [at : Offset, body : Seq(CellValue)]
  <2>1. queue \in Seq(S) /\ queue' \in Seq(S)
    BY <1>1 DEF IInv, TypeOK
  <2> HIDE DEF S
  <2>2. /\ L \in Nat /\ L # 0
        /\ Len(queue') = L - 1
        /\ \A k \in 1 .. L - 1 : queue'[k] = queue[k + 1]
    BY <1>2, <1>3, <2>1, WithoutFirst
  <2> QED
    BY <2>2
<1>5. \A k \in 1 .. L - 1 : N(k) = SizeOf(k + 1)
  BY <1>4 DEF SizeOf
<1> HIDE DEF L, N
<1>6. /\ head \in Offset /\ tail \in Offset /\ tail' \in Offset
      /\ queue[1].at = tail
      /\ Used \in Nat /\ Used <= Capacity
      /\ SizeOf(1) \in Nat /\ SizeOf(1) > 0 /\ SizeOf(1) <= Used
      /\ Minus(head, tail') = Used - SizeOf(1)
  <2>1. /\ head \in Offset /\ tail \in Offset
        /\ queue[1].at = tail
        /\ Used \in Nat /\ Used <= Capacity
        /\ SizeOf(1) \in Nat /\ SizeOf(1) > 0 /\ SizeOf(1) <= Used
    BY <1>1, <1>3, Distances, OldestAtTail, RecordType, RingAssumption
  <2>2. SizeOf(1) \in 0 .. Capacity
    BY <2>1, WrapRoom
  <2>3. Minus(head, Plus(tail, SizeOf(1))) = Minus(head, tail) - SizeOf(1)
    BY <2>1, <2>2, MinusShorter DEF Used
  <2>4. tail' \in Offset
    BY <1>1 DEF IInv, TypeOK
  <2> QED
    BY <1>2, <1>3, <2>1, <2>3, <2>4 DEF Used
<1>7. ASSUME NEW k \in 1 .. L
      PROVE  /\ Back(queue[k].at) \in Nat
             /\ SizeOf(k) \in Nat /\ SizeOf(k) >= Prefix
             /\ SizeOf(k) <= Back(queue[k].at)
             /\ Len(queue[k].body) <= MaxRecordSize
             /\ k > 1 => Back(queue[k].at) + SizeOf(1) <= Used
  <2>1. /\ Back(queue[k].at) \in Nat
        /\ SizeOf(k) \in Nat /\ SizeOf(k) >= Prefix
        /\ SizeOf(k) <= Back(queue[k].at)
        /\ Len(queue[k].body) <= MaxRecordSize
    BY <1>1, RecordType DEF RingInv, RecordsApart, L
  <2>2. k > 1 => Back(queue[k].at) + SizeOf(1) <= Back(queue[1].at)
    BY <1>4 DEF RingInv, RecordsApart, L
  <2> QED
    BY <1>6, <2>1, <2>2 DEF Back, Used
<1>8. AllStored'
  <2> SUFFICES ASSUME NEW k \in 1 .. L - 1
               PROVE  Stored(queue'[k].at, queue'[k].body)
    BY <1>2, <1>4 DEF AllStored, Stored
  <2> QED
    BY <1>4 DEF RingInv, AllStored, L
<1>9. Chained'
  <2>1. CASE L = 1
    <3>1. head = Plus(queue[1].at, SizeOf(1))
      BY <1>4, <2>1 DEF RingInv, Chained, L
    <3>2. queue' = <<>>
      BY <1>1, <1>4, <2>1 DEF IInv, TypeOK
    <3> QED
      BY <1>2, <1>3, <1>4, <1>6, <2>1, <3>1, <3>2 DEF Chained
  <2>2. CASE L # 1
    <3>1. 1 \in 1 .. L - 1 /\ 2 \in 1 .. L
      BY <1>4, <2>2
    <3>2. queue[2].at = tail'
      <4>1. queue[2].at = IF 2 = 1 THEN tail ELSE Plus(queue[2 - 1].at, SizeOf(2 - 1))
        BY <3>1 DEF RingInv, Chained, L
      <4> QED
        BY <1>2, <1>3, <1>6, <4>1
    <3>3. queue' # <<>> /\ head' # tail'
      <4>1. Minus(head, tail') # 0
        BY <1>7, <3>1, <3>2, RingAssumption DEF Back
      <4>2. Minus(tail', tail') = 0
        BY <1>6, MinusCases DEF Offset
      <4>3. Len(queue') # 0
        BY <1>4, <3>1
      <4> QED
        BY <1>2, <4>1, <4>2, <4>3
    <3>4. ASSUME NEW k \in 1 .. L - 1
          PROVE  /\ queue'[k].at = IF k = 1 THEN tail' ELSE Plus(queue'[k - 1].at, N(k - 1))
                 /\ k = L - 1 => head = Plus(queue'[k].at, N(k))
      <4>1. queue'[k] = queue[k + 1] /\ k + 1 \in 1 .. L /\ N(k) = SizeOf(k + 1)
        BY <1>4, <1>5
      <4>2. k = L - 1 => head = Plus(queue[k + 1].at, SizeOf(k + 1))
        BY <1>4, <4>1 DEF RingInv, Chained, L
      <4>3. CASE k = 1
        BY <3>2, <4>1, <4>2, <4>3
      <4>4. CASE k # 1
        <5>1. k - 1 \in 1 .. L - 1 /\ (k - 1) + 1 = k /\ (k + 1) - 1 = k /\ k + 1 # 1
          BY <1>4, <4>4
        <5>2. queue'[k - 1] = queue[k] /\ N(k - 1) = SizeOf(k)
          BY <1>4, <1>5, <5>1
        <5>3. queue[k + 1].at = IF k + 1 = 1 THEN tail ELSE Plus(queue[(k + 1) - 1].at, SizeOf((k + 1) - 1))
          BY <4>1 DEF RingInv, Chained, L
        <5>4. queue[k + 1].at = Plus(queue[k].at, SizeOf(k))
          BY <5>1, <5>3
        <5> QED
          BY <4>1, <4>2, <4>4, <5>2, <5>4
      <4> QED
        BY <4>3, <4>4
    <3> QED
      BY <1>2, <1>4, <3>3, <3>4 DEF Chained, SizeOf, N
  <2> QED
    BY <2>1, <2>2
<1>10. RecordsApart'
  <2>1. ASSUME NEW k \in 1 .. L - 1
        PROVE  /\ Len(queue'[k].body) <= MaxRecordSize
               /\ N(k) <= Minus(head, queue'[k].at)
               /\ Minus(head, queue'[k].at) <= Minus(head, tail')
    <3>1. queue'[k] = queue[k + 1] /\ k + 1 \in 1 .. L /\ N(k) = SizeOf(k + 1) /\ k + 1 > 1
      BY <1>4, <1>5
    <3> QED
      BY <1>6, <1>7, <3>1 DEF Back
  <2>2. ASSUME NEW j \in 1 .. L - 1, NEW k \in 1 .. L - 1, j < k
        PROVE  Minus(head, queue'[k].at) + N(j) <= Minus(head, queue'[j].at)
    <3>1. /\ queue'[k] = queue[k + 1] /\ k + 1 \in 1 .. L
          /\ queue'[j] = queue[j + 1] /\ j + 1 \in 1 .. L
          /\ N(j) = SizeOf(j + 1)
          /\ j + 1 < k + 1
      BY <1>4, <1>5, <2>2
    <3>2. Back(queue[k + 1].at) + SizeOf(j + 1) <= Back(queue[j + 1].at)
      BY <3>1 DEF RingInv, RecordsApart, L
    <3> QED
      BY <3>1, <3>2 DEF Back
  <2> QED
    BY <1>2, <1>4, <2>1, <2>2 DEF RecordsApart, SizeOf, N, Back, Used
<1>11. HeadsAtBoundaries'
  <2> SUFFICES ASSUME NEW h \in headStores, h # head
               PROVE  \E k \in 1 .. L - 1 : h = queue'[k].at
    BY <1>2, <1>4 DEF HeadsAtBoundaries
  <2>1. PICK m \in 1 .. L : h = queue[m].at
    BY DEF RingInv, HeadsAtBoundaries, L
  <2>2. m # 1
    <3>1. /\ Minus(head, h) <= Minus(head, cachedHead)
          /\ Minus(head, cachedHead) + peeked <= Used
          /\ cachedHead \in headStores
      BY <1>1 DEF IInv, DistanceInv
    <3>2. Minus(head, h) \in Nat /\ Minus(head, cachedHead) \in Nat
      BY <1>1, <3>1, Distances
    <3>3. Minus(head, h) < Used
      BY <1>3, <1>6, <3>1, <3>2
    <3> QED
      BY <1>6, <2>1, <3>2, <3>3 DEF Used
  <2>3. m - 1 \in 1 .. L - 1 /\ (m - 1) + 1 = m
    BY <1>4, <2>2
  <2>4. queue'[m - 1] = queue[m]
    BY <1>4, <2>3
  <2> QED
    BY <2>1, <2>3, <2>4
<1>12. HandsInv'
  BY <1>2 DEF RingInv, HandsInv
<1> QED
  BY <1>1, <1>8, <1>9, <1>10, <1>11, <1>12 DEF RingInv

-----------------------------------------------------------------------------
(* All steps.                                                               *)

LEMMA InitRingInv == Init => RingInv
<1> SUFFICES ASSUME Init PROVE RingInv
  OBVIOUS
<1>1. IInv
  BY InitIInv
<1>2. AllStored /\ RecordsApart
  BY DEF Init, AllStored, RecordsApart
<1>3. Chained /\ HeadsAtBoundaries /\ HandsInv
  BY DEF Init, Chained, HeadsAtBoundaries, HandsInv
<1> QED
  BY <1>1, <1>2, <1>3 DEF RingInv

LEMMA NextRingInv == RingInv /\ [Next]_vars => RingInv'
<1> SUFFICES ASSUME RingInv, [Next]_vars PROVE RingInv'
  OBVIOUS
<1>1. ASSUME NEW n \in Sizes, ReserveCached(n) \/ ReserveReload(n)
      PROVE  RingInv'
  BY <1>1, ReserveCachedKeeps, ReserveReloadKeeps
<1>2. ASSUME NEW i \in 0 .. MaxRecordSize - 1, NEW b \in Byte, WriteSlot(i, b)
      PROVE  RingInv'
  BY <1>2, WriteSlotKeeps
<1>3. CASE Commit
  BY <1>3, CommitKeeps
<1>4. CASE PeekCached
  BY <1>4, PeekCachedKeeps
<1>5. CASE PeekReload
  BY <1>5, PeekReloadKeeps
<1>6. CASE Release
  BY <1>6, ReleaseKeeps
<1>7. CASE Reattach
  BY <1>7, ReattachKeeps
<1>8. CASE UNCHANGED vars
  <2>1. IInv'
    BY <1>8, NextIInv DEF RingInv
  <2>2. /\ UNCHANGED <<mem, head, tail, reserved, queue, peeked, corrupted, headStores>>
        /\ corrupted = FALSE
    BY <1>8 DEF vars, sharedVars, producerVars, consumerVars, RingInv, HandsInv, IInv, TypeOK
  <2> QED
    BY <2>1, <2>2, ReadKeeps
<1> QED
  BY <1>1, <1>2, <1>3, <1>4, <1>5, <1>6, <1>7, <1>8 DEF Next, Producer, Consumer

-----------------------------------------------------------------------------
(* The theorems.                                                            *)

\* Whatever heads and tails the two sides still have cached, and however the data
\* area and the counters wrap, try_peek() never reads anything but the length of
\* a completely published record: corrupted_ is never set.
THEOREM NeverCorruptedHolds == Spec => []NeverCorrupted
<1>1. RingInv => NeverCorrupted
  BY DEF RingInv, HandsInv, NeverCorrupted
<1> QED
  BY InitRingInv, NextRingInv, <1>1, PTL DEF Spec

\* The bytes of shared memory between tail and head are the committed records, one
\* behind the other, from commit() to release().
THEOREM MemoryFaithful == Spec => []MemoryHoldsQueue
<1>1. RingInv => MemoryHoldsQueue
  BY DEF RingInv, AllStored, Stored, Chained, SizeOf, MemoryHoldsQueue
<1> QED
  BY InitRingInv, NextRingInv, <1>1, PTL DEF Spec

-----------------------------------------------------------------------------
(* The ring implements the record queue.                                    *)

\* The refinement mapping.
Records == UNION { [1 .. n -> CellValue] : n \in 0 .. MaxRecordSize }
Bodies  == [k \in 1 .. Len(queue) |-> queue[k].body]
Viewed  == IF peeked = 0 THEN <<>> ELSE <<Body(tail, peeked)>>

\* What try_peek() hands out is the oldest record as it was committed.
LEMMA ViewExact == RingInv => Viewed = IF peeked = 0 THEN <<>> ELSE <<queue[1].body>>
<1> SUFFICES ASSUME RingInv, peeked # 0 PROVE Body(tail, peeked) = queue[1].body
  BY DEF Viewed
<1> DEFINE body == queue[1].body
<1>1. queue # <<>> /\ peeked = SizeOf(1)
  BY DEF RingInv, HandsInv
<1>2. head # tail
  BY <1>1 DEF RingInv, Chained
<1>3. /\ body \in Seq(CellValue)
      /\ Len(body) \in Nat
      /\ Stored(tail, body)
  BY <1>2, OldestAtTail
<1>4. peeked - Prefix = Len(body)
  BY <1>1, <1>3, RingAssumption DEF SizeOf
<1> HIDE DEF body
<1>5. Body(tail, peeked) = [j \in 1 .. Len(body) |-> body[j]]
  BY <1>3, <1>4 DEF Body, Stored
<1>6. body = [j \in 1 .. Len(body) |-> body[j]]
  BY <1>3
<1> QED
  BY <1>5, <1>6 DEF body

\* The bodies of the queue form a sequence of records.
LEMMA BodiesType ==
  RingInv => /\ Bodies \in Seq(Seq(CellValue))
             /\ Len(Bodies) = Len(queue)
             /\ Len(queue) \in Nat
             /\ \A k \in 1 .. Len(queue) : Bodies[k] = queue[k].body
<1> SUFFICES ASSUME RingInv
             PROVE  /\ Bodies \in Seq(Seq(CellValue))
                    /\ Len(Bodies) = Len(queue)
                    /\ Len(queue) \in Nat
                    /\ \A k \in 1 .. Len(queue) : Bodies[k] = queue[k].body
  OBVIOUS
<1>1. Len(queue) \in Nat
  BY DEF RingInv, IInv, TypeOK
<1>2. \A k \in 1 .. Len(queue) : queue[k].body \in Seq(CellValue)
  BY RecordType DEF RingInv
<1> QED
  BY <1>1, <1>2 DEF Bodies

\* A step that changes neither the queue nor what is in the consumer's hands is
\* not visible.
LEMMA Invisible ==
  ASSUME RingInv, RingInv', UNCHANGED <<head, tail, queue, peeked>>
  PROVE  UNCHANGED <<Bodies, Viewed, Used>>
<1>1. Viewed = (IF peeked = 0 THEN <<>> ELSE <<queue[1].body>>)
  BY ViewExact
<1>2. (Viewed = IF peeked = 0 THEN <<>> ELSE <<queue[1].body>>)'
  BY ViewExact, PTL
<1> QED
  BY <1>1, <1>2 DEF Bodies, Used

\* Append and Tail as functions.
LEMMA AppendFunction ==
  ASSUME NEW S, NEW s \in Seq(S), NEW e \in S
  PROVE  Append(s, e) = [k \in 1 .. Len(s) + 1 |-> IF k = Len(s) + 1 THEN e ELSE s[k]]
<1> DEFINE t == [k \in 1 .. Len(s) + 1 |-> IF k = Len(s) + 1 THEN e ELSE s[k]]
<1>1. t \in Seq(S) /\ Len(t) = Len(s) + 1
  OBVIOUS
<1>2. Append(s, e) \in Seq(S) /\ Len(Append(s, e)) = Len(s) + 1
  OBVIOUS
<1>3. \A k \in 1 .. Len(s) + 1 : Append(s, e)[k] = t[k]
  OBVIOUS
<1> HIDE DEF t
<1>4. Append(s, e) = t
  BY <1>1, <1>2, <1>3, SeqEqual
<1> QED
  BY <1>4 DEF t

LEMMA TailFunction ==
  ASSUME NEW S, NEW s \in Seq(S), s # <<>>
  PROVE  Tail(s) = [k \in 1 .. Len(s) - 1 |-> s[k + 1]]
<1> DEFINE t == [k \in 1 .. Len(s) - 1 |-> s[k + 1]]
<1>0. Len(s) \in Nat \ {0}
  OBVIOUS
<1>1. t \in Seq(S) /\ Len(t) = Len(s) - 1 /\ \A k \in 1 .. Len(s) - 1 : t[k] = s[k + 1]
  BY <1>0
<1>2. Tail(s) \in Seq(S) /\ Len(Tail(s)) = Len(s) - 1 /\ \A k \in 1 .. Len(Tail(s)) : Tail(s)[k] = s[k + 1]
  BY HeadTailProperties
<1> HIDE DEF t
<1>4. Tail(s) = t
  BY <1>1, <1>2, SeqEqual
<1> QED
  BY <1>4 DEF t

\* commit() puts the record into the queue.
LEMMA CommitPuts ==
  ASSUME RingInv, RingInv', Commit
  PROVE  \E r \in Records : RQ!Put(r)
<1> DEFINE r == Body(head, reserved)
           L == Len(queue)
<1>1. /\ reserved # 0
      /\ head' = Plus(head, reserved)
      /\ queue' = Append(queue, [at |-> head, body |-> r])
      /\ UNCHANGED <<mem, tail, peeked>>
  BY DEF Commit, consumerVars
<1>2. IInv /\ IInv'
  BY DEF RingInv
<1>3. /\ head \in Offset /\ tail \in Offset
      /\ Used \in Nat
      /\ Prefix \in Nat \ {0} /\ Capacity \in Nat
      /\ reserved \in Prefix .. Capacity
      /\ Used + reserved <= Capacity
      /\ reserved - Prefix \in 0 .. MaxRecordSize
  BY <1>1, <1>2, Distances, SlotFits, RingAssumption DEF IInv, TypeOK, RingInv, HandsInv
<1>4. r \in [1 .. reserved - Prefix -> CellValue] /\ r \in Seq(CellValue) /\ Len(r) = reserved - Prefix
  <2>1. ASSUME NEW i \in 1 .. reserved - Prefix
        PROVE  mem[Cell(head, Prefix + i - 1)] \in CellValue
    <3>1. head \in Int /\ Prefix + i - 1 \in Int
      BY <1>3, WrapRoom DEF Offset
    <3>2. Cell(head, Prefix + i - 1) \in 0 .. Capacity - 1
      BY <3>1, CellType
    <3> QED
      BY <1>2, <3>2 DEF IInv, TypeOK
  <2>2. reserved - Prefix \in Nat
    BY <1>3
  <2> QED
    BY <2>1, <2>2 DEF Body
<1> HIDE DEF r
<1>5. r \in Records
  BY <1>3, <1>4 DEF Records
<1>6. Used' = Used + reserved
  <2>1. reserved \in 0 .. Capacity
    BY <1>3
  <2>2. Minus(Plus(head, reserved), tail) = Minus(head, tail) + reserved
    BY <1>3, <2>1, MinusPlus DEF Used
  <2> QED
    BY <1>1, <2>2 DEF Used
<1>7. /\ Len(queue') = L + 1
      /\ \A k \in 1 .. L : queue'[k] = queue[k]
      /\ queue'[L + 1].body = r
      /\ L \in Nat
  <2> DEFINE S == [at : Offset, body : Seq(CellValue)]
             e == [at |-> head, body |-> r]
  <2>1. queue \in Seq(S) /\ queue' \in Seq(S)
    BY <1>2 DEF IInv, TypeOK
  <2>2. e.body = r
    OBVIOUS
  <2> HIDE DEF S, e
  <2>3. queue' = Append(queue, e)
    BY <1>1 DEF e
  <2> QED
    BY <2>1, <2>2, <2>3
<1>8. Bodies' = Append(Bodies, r)
  <2>1. /\ Bodies \in Seq(Seq(CellValue))
        /\ Len(Bodies) = L
        /\ \A k \in 1 .. L : Bodies[k] = queue[k].body
    BY BodiesType
  <2>2. Bodies' = [k \in 1 .. L + 1 |-> queue'[k].body]
    BY <1>7 DEF Bodies
  <2>3. Append(Bodies, r) = [k \in 1 .. L + 1 |-> IF k = L + 1 THEN r ELSE Bodies[k]]
    BY <1>4, <2>1, AppendFunction
  <2> HIDE DEF L
  <2>4. \A k \in 1 .. L + 1 : queue'[k].body = IF k = L + 1 THEN r ELSE Bodies[k]
    BY <1>7, <2>1
  <2> QED
    BY <2>2, <2>3, <2>4
<1>9. Viewed' = Viewed
  <2>1. Viewed = (IF peeked = 0 THEN <<>> ELSE <<queue[1].body>>)
    BY ViewExact
  <2>2. (Viewed = IF peeked = 0 THEN <<>> ELSE <<queue[1].body>>)'
    BY ViewExact, PTL
  <2>3. peeked # 0 => 1 \in 1 .. L
    BY <1>2 DEF RingInv, HandsInv, IInv, TypeOK
  <2> QED
    BY <1>1, <1>7, <2>1, <2>2, <2>3
<1>10. PICK q \in Records : q = r
  BY <1>5
<1>11. Prefix + Len(q) = reserved
  BY <1>3, <1>4, <1>10
<1>12. RQ!Put(q)
  BY <1>3, <1>6, <1>8, <1>9, <1>10, <1>11 DEF RQ!Put, RQ!Cost, Bodies, Viewed
<1> QED
  BY <1>12

\* release() takes the record out of the queue.
LEMMA ReleaseReleases ==
  ASSUME RingInv, RingInv', Release
  PROVE  RQ!Release
<1> DEFINE L == Len(queue)
<1>1. /\ peeked # 0
      /\ tail' = Plus(tail, peeked)
      /\ peeked' = 0
      /\ queue' = SubSeq(queue, 2, Len(queue))
      /\ UNCHANGED <<mem, head>>
  BY DEF Release, producerVars
<1>2. IInv /\ IInv'
  BY DEF RingInv
<1>3. queue # <<>> /\ head # tail /\ peeked = SizeOf(1)
  BY <1>1 DEF RingInv, HandsInv, Chained
<1>4. /\ head \in Offset /\ tail \in Offset
      /\ Used \in Nat /\ Used <= Capacity
      /\ SizeOf(1) \in Nat /\ SizeOf(1) <= Used
  BY <1>2, <1>3, Distances, OldestAtTail, RecordType
<1>5. Used' = Used - SizeOf(1)
  <2>1. SizeOf(1) \in 0 .. Capacity
    BY <1>4, WrapRoom
  <2>2. Minus(head, Plus(tail, SizeOf(1))) = Minus(head, tail) - SizeOf(1)
    BY <1>4, <2>1, MinusShorter DEF Used
  <2> QED
    BY <1>1, <1>3, <2>2 DEF Used
<1>6. /\ L \in Nat /\ L # 0
      /\ Len(queue') = L - 1
      /\ \A k \in 1 .. L - 1 : queue'[k] = queue[k + 1]
  <2> DEFINE S == [at : Offset, body : Seq(CellValue)]
  <2>1. queue \in Seq(S)
    BY <1>2 DEF IInv, TypeOK
  <2> HIDE DEF S
  <2>2. /\ L \in Nat /\ L # 0
        /\ Len(queue') = L - 1
        /\ \A k \in 1 .. L - 1 : queue'[k] = queue[k + 1]
    BY <1>1, <1>3, <2>1, WithoutFirst
  <2> QED
    BY <2>2
<1>7. /\ Bodies \in Seq(Seq(CellValue))
      /\ Len(Bodies) = L
      /\ \A k \in 1 .. L : Bodies[k] = queue[k].body
  BY BodiesType
<1>8. Bodies' = Tail(Bodies)
  <2>1. Bodies' = [k \in 1 .. L - 1 |-> queue'[k].body]
    BY <1>6 DEF Bodies
  <2>2. Tail(Bodies) = [k \in 1 .. L - 1 |-> Bodies[k + 1]]
    <3>1. Bodies # <<>>
      BY <1>6, <1>7
    <3> QED
      BY <1>7, <3>1, TailFunction
  <2> HIDE DEF L
  <2>3. \A k \in 1 .. L - 1 : queue'[k].body = Bodies[k + 1]
    BY <1>6, <1>7
  <2> QED
    BY <2>1, <2>2, <2>3
<1>9. Head(Bodies) = queue[1].body
  BY <1>6, <1>7
<1>10. Viewed # <<>> /\ Viewed' = <<>>
  BY <1>1 DEF Viewed
<1> QED
  BY <1>5, <1>8, <1>9, <1>10 DEF RQ!Release, RQ!Cost, Bodies, Viewed, SizeOf

\* try_peek() hands out the oldest record, or changes nothing.
LEMMA PeekPeeks ==
  ASSUME RingInv, RingInv', PeekCached \/ PeekReload
  PROVE  RQ!Peek \/ UNCHANGED <<Bodies, Viewed, Used>>
<1>1. peeked = 0 /\ UNCHANGED <<head, tail, queue>>
  BY DEF PeekCached, PeekReload, sharedVars
<1>2. CASE peeked' = 0
  BY <1>1, <1>2, Invisible
<1>3. CASE peeked' # 0
  <2>1. (Viewed = IF peeked = 0 THEN <<>> ELSE <<queue[1].body>>)'
    BY ViewExact, PTL
  <2>2. queue # <<>>
    BY <1>1, <1>3 DEF RingInv, HandsInv
  <2>3. /\ Bodies \in Seq(Seq(CellValue))
        /\ Len(Bodies) = Len(queue)
        /\ \A k \in 1 .. Len(queue) : Bodies[k] = queue[k].body
    BY BodiesType
  <2>4. 1 \in 1 .. Len(queue)
    BY <2>2 DEF RingInv, IInv, TypeOK
  <2>5. Bodies # <<>> /\ Head(Bodies) = queue[1].body
    BY <2>3, <2>4
  <2>6. Viewed = <<>> /\ Viewed' = <<Head(Bodies)>>
    BY <1>1, <1>3, <2>1, <2>5 DEF Viewed
  <2>7. UNCHANGED <<Bodies, Used>>
    BY <1>1 DEF Bodies, Used
  <2>8. RQ!Peek
    BY <2>5, <2>6, <2>7 DEF RQ!Peek, Bodies, Viewed
  <2> QED
    BY <2>8
<1> QED
  BY <1>2, <1>3

\* Every step of the ring is a step of the queue or invisible.
LEMMA StepImplements ==
  RingInv /\ RingInv' /\ [Next]_vars => [RQ!Next]_(RQ!qvars)
<1> SUFFICES ASSUME RingInv, RingInv', [Next]_vars
             PROVE  RQ!Next \/ UNCHANGED <<Bodies, Viewed, Used>>
  BY DEF RQ!qvars, Bodies, Viewed
<1>1. ASSUME NEW n \in Sizes, ReserveCached(n) \/ ReserveReload(n)
      PROVE  UNCHANGED <<Bodies, Viewed, Used>>
  <2>1. UNCHANGED <<head, tail, queue, peeked>>
    BY <1>1 DEF ReserveCached, ReserveReload, consumerVars
  <2> QED
    BY <2>1, Invisible
<1>2. ASSUME NEW i \in 0 .. MaxRecordSize - 1, NEW b \in Byte, WriteSlot(i, b)
      PROVE  UNCHANGED <<Bodies, Viewed, Used>>
  <2>1. UNCHANGED <<head, tail, queue, peeked>>
    BY <1>2 DEF WriteSlot, consumerVars
  <2> QED
    BY <2>1, Invisible
<1>3. CASE Commit
  BY <1>3, CommitPuts DEF RQ!Next, Records
<1>4. CASE PeekCached \/ PeekReload
  BY <1>4, PeekPeeks DEF RQ!Next
<1>5. CASE Release
  BY <1>5, ReleaseReleases DEF RQ!Next
<1>6. CASE Reattach
  <2>1. UNCHANGED <<head, tail, queue>> /\ peeked' = 0
    BY <1>6 DEF Reattach
  <2>2. RQ!TakeOver
    BY <2>1 DEF RQ!TakeOver, Used
  <2> QED
    BY <2>2 DEF RQ!Next
<1>7. CASE UNCHANGED vars
  BY <1>7, Invisible DEF vars, sharedVars, consumerVars
<1> QED
  BY <1>1, <1>2, <1>3, <1>4, <1>5, <1>6, <1>7 DEF Next, Producer, Consumer

\* The lock-free ring with its stale counters, its mirrored memory and its
\* wrapping arithmetic is a bounded first-in first-out queue of records for the
\* two programs: in commit order, byte for byte, each record unchanged until it
\* is released, and handed to the next consumer when its reader was replaced.
THEOREM RingIsAQueue == Spec => ImplementsRecordQueue
<1>1. Init => RQ!Init
  <2> SUFFICES ASSUME Init PROVE RQ!Init
    OBVIOUS
  <2>1. [k \in 1 .. Len(queue) |-> queue[k].body] = <<>>
    BY DEF Init
  <2>2. Used = 0
    BY WrapRoom DEF Init, Used, Minus
  <2> QED
    BY <2>1, <2>2 DEF RQ!Init, Init
<1> QED
  BY <1>1, InitRingInv, NextRingInv, StepImplements, PTL DEF Spec, ImplementsRecordQueue, RQ!Spec

=============================================================================
