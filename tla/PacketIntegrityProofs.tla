----------------------- MODULE PacketIntegrityProofs -----------------------
(***************************************************************************)
(* What PacketIntegrity checks on small records, proved for records of     *)
(* every size: the checksum routines all divide by the same polynomial,    *)
(* so the checksum that build() seals chunk by chunk is the one that       *)
(* packet_checksum() finds, with and without CPU instructions; the chunks  *)
(* of the payload leave no trace; and a burst of damage is seen.           *)
(*                                                                         *)
(* The recursive functions of Checksum are reasoned about as the values    *)
(* that they take one after the other (Chain), by induction over a set of  *)
(* numbers (SetInduction).                                                 *)
(***************************************************************************)
EXTENDS PacketIntegrity, Recursion

-----------------------------------------------------------------------------
(* Words and their shifts.                                                  *)

Word == SUBSET Nat

LEMMA XorWord == ASSUME NEW a \in Word, NEW b \in Word PROVE Xor(a, b) \in Word
  BY DEF Xor, Word

LEMMA XorAssoc == ASSUME NEW a, NEW b, NEW c PROVE Xor(Xor(a, b), c) = Xor(a, Xor(b, c))
  BY DEF Xor

LEMMA XorComm == ASSUME NEW a, NEW b PROVE Xor(a, b) = Xor(b, a)
  BY DEF Xor

LEMMA XorZero == ASSUME NEW a PROVE Xor(a, {}) = a /\ Xor({}, a) = a /\ Xor(a, a) = {}
  BY DEF Xor

\* Exclusive or, bit by bit.
LEMMA XorBit == ASSUME NEW a, NEW b, NEW x PROVE x \in Xor(a, b) <=> ((x \in a) # (x \in b))
  BY DEF Xor

LEMMA ShrBit ==
  ASSUME NEW w \in Word, NEW n \in Nat
  PROVE  Shr(w, n) \in Word /\ \A x \in Nat : x \in Shr(w, n) <=> x + n \in w
  BY DEF Shr, Word

LEMMA WordEqual ==
  ASSUME NEW a \in Word, NEW b \in Word, \A x \in Nat : x \in a <=> x \in b
  PROVE  a = b
  BY DEF Word

LEMMA ShrXor ==
  ASSUME NEW a \in Word, NEW b \in Word, NEW n \in Nat
  PROVE  Shr(Xor(a, b), n) = Xor(Shr(a, n), Shr(b, n))
<1>1. Xor(a, b) \in Word /\ Shr(a, n) \in Word /\ Shr(b, n) \in Word
  BY XorWord, ShrBit
<1>2. Shr(Xor(a, b), n) \in Word /\ Xor(Shr(a, n), Shr(b, n)) \in Word
  BY <1>1, XorWord, ShrBit
<1>3. ASSUME NEW x \in Nat PROVE x \in Shr(Xor(a, b), n) <=> x \in Xor(Shr(a, n), Shr(b, n))
  <2>1. x \in Shr(Xor(a, b), n) <=> x + n \in Xor(a, b)
    BY <1>1, ShrBit
  <2>2. (x \in Shr(a, n) <=> x + n \in a) /\ (x \in Shr(b, n) <=> x + n \in b)
    BY ShrBit
  <2> QED BY <2>1, <2>2, XorBit
<1> QED BY <1>2, <1>3, WordEqual

LEMMA ShrShr ==
  ASSUME NEW w \in Word, NEW m \in Nat, NEW n \in Nat
  PROVE  Shr(Shr(w, m), n) = Shr(w, m + n) /\ Shr(w, 0) = w
<1>1. Shr(w, m) \in Word /\ Shr(Shr(w, m), n) \in Word /\ Shr(w, m + n) \in Word /\ Shr(w, 0) \in Word
  BY ShrBit
<1>2. ASSUME NEW x \in Nat PROVE x \in Shr(Shr(w, m), n) <=> x \in Shr(w, m + n)
  <2>1. x \in Shr(Shr(w, m), n) <=> x + n \in Shr(w, m)
    BY <1>1, ShrBit
  <2>2. x + n \in Shr(w, m) <=> (x + n) + m \in w
    BY ShrBit
  <2>3. x \in Shr(w, m + n) <=> x + (m + n) \in w
    BY ShrBit
  <2>4. (x + n) + m = x + (m + n)
    OBVIOUS
  <2> QED BY <2>1, <2>2, <2>3, <2>4
<1>3. ASSUME NEW x \in Nat PROVE x \in Shr(w, 0) <=> x \in w
  <2>1. x + 0 = x
    OBVIOUS
  <2> QED BY <2>1, ShrBit
<1> QED BY <1>1, <1>2, <1>3, WordEqual

\* One step of the division is linear.
LEMMA ShiftBitWord == ASSUME NEW p \in Word, NEW w \in Word PROVE ShiftBit(p, w) \in Word
  BY ShrBit, XorWord DEF ShiftBit

LEMMA ShiftBitXor ==
  ASSUME NEW p \in Word, NEW a \in Word, NEW b \in Word
  PROVE  ShiftBit(p, Xor(a, b)) = Xor(ShiftBit(p, a), ShiftBit(p, b))
<1> DEFINE sa == Shr(a, 1)
           sb == Shr(b, 1)
<1>1. Shr(Xor(a, b), 1) = Xor(sa, sb)
  BY ShrXor
<1>2. 0 \in Xor(a, b) <=> ((0 \in a) # (0 \in b))
  BY XorBit
<1>3. /\ Xor(p, Xor(sa, sb)) = Xor(Xor(p, sa), sb)
      /\ Xor(p, Xor(sa, sb)) = Xor(sa, Xor(p, sb))
      /\ Xor(sa, sb) = Xor(Xor(p, sa), Xor(p, sb))
  BY DEF Xor
<1> HIDE DEF sa, sb
<1> QED BY <1>1, <1>2, <1>3 DEF ShiftBit, sa, sb

\* What the recursion in ShiftBits computes.
LEMMA ShiftBitsChain ==
  ASSUME NEW p \in Word, NEW w \in Word, NEW n \in Nat
  PROVE  \E g : /\ Chain(g, Word, w, 0, n, [i \in Nat |-> [v \in Word |-> ShiftBit(p, v)]])
                /\ w # {} => ShiftBits(p, w, n) = g[n]
                /\ w = {} => ShiftBits(p, w, n) = {}
<1> DEFINE F == [i \in Nat |-> [v \in Word |-> ShiftBit(p, v)]]
           Body(g) == [i \in 0..n |-> IF i = 0 THEN w ELSE ShiftBit(p, g[i - 1])]
<1>1. PICK g : Chain(g, Word, w, 0, n, F)
  <2>1. \A i \in (0 + 1)..n, v \in Word : F[i][v] \in Word
    BY ShiftBitWord
  <2> HIDE DEF F
  <2> QED BY <2>1, ChainExists
<1>2. g = Body(g)
  <2>1. g \in [0..n -> Word] /\ g[0] = w
    BY <1>1 DEF Chain
  <2>2. ASSUME NEW i \in 0..n, i # 0 PROVE g[i] = ShiftBit(p, g[i - 1])
    <3>1. i \in (0 + 1)..n /\ i \in Nat /\ i - 1 \in 0..n
      BY <2>2
    <3>2. g[i] = F[i][g[i - 1]] /\ g[i - 1] \in Word
      BY <1>1, <2>1, <3>1 DEF Chain
    <3> QED BY <3>1, <3>2
  <2> QED BY <2>1, <2>2
<1> DEFINE f == CHOOSE h : h = Body(h)
<1>3. f = Body(f)
  BY <1>2
<1> HIDE DEF f
<1>4. Chain(f, Word, w, 0, n, F)
  <2>1. f[0] = w /\ \A i \in (0 + 1)..n : f[i] = ShiftBit(p, f[i - 1])
    BY <1>3
  <2>2. f = [i \in 0..n |-> f[i]]
    BY <1>3
  <2>3. \A i \in (0 + 1)..n, v \in Word : F[i][v] = ShiftBit(p, v) /\ F[i][v] \in Word
    BY ShiftBitWord
  <2> HIDE DEF F, Body
  <2>4. \A i \in (0 + 1)..n : f[i - 1] \in Word => f[i] = F[i][f[i - 1]]
    BY <2>1, <2>3
  <2>5. \A i \in (0 + 1)..n, v \in Word : F[i][v] \in Word
    BY <2>3
  <2>6. 0 <= n /\ f[0] = w
    BY <2>1
  <2> QED BY <2>2, <2>4, <2>5, <2>6, ChainOf
<1>5. ShiftBits(p, w, n) = IF w = {} THEN {} ELSE f[n]
  BY DEF ShiftBits, f
<1> QED BY <1>4, <1>5

\* No step, one more step.
LEMMA ShiftBitsZero == ASSUME NEW p \in Word, NEW w \in Word PROVE ShiftBits(p, w, 0) = w
<1>1. PICK g : /\ Chain(g, Word, w, 0, 0, [i \in Nat |-> [v \in Word |-> ShiftBit(p, v)]])
               /\ w # {} => ShiftBits(p, w, 0) = g[0]
               /\ w = {} => ShiftBits(p, w, 0) = {}
  BY ShiftBitsChain
<1> QED BY <1>1 DEF Chain

LEMMA ShiftBitsNext ==
  ASSUME NEW p \in Word, NEW w \in Word, NEW n \in Nat
  PROVE  /\ ShiftBits(p, w, n) \in Word
         /\ ShiftBits(p, w, n + 1) = ShiftBit(p, ShiftBits(p, w, n))
<1> DEFINE F == [i \in Nat |-> [v \in Word |-> ShiftBit(p, v)]]
<1>1. PICK g : /\ Chain(g, Word, w, 0, n, F)
               /\ w # {} => ShiftBits(p, w, n) = g[n]
               /\ w = {} => ShiftBits(p, w, n) = {}
  BY ShiftBitsChain
<1>2. PICK h : /\ Chain(h, Word, w, 0, n + 1, F)
               /\ w # {} => ShiftBits(p, w, n + 1) = h[n + 1]
               /\ w = {} => ShiftBits(p, w, n + 1) = {}
  <2>1. n + 1 \in Nat
    OBVIOUS
  <2> QED BY <2>1, ShiftBitsChain
<1>3. CASE w = {}
  <2>1. ShiftBit(p, {}) = {}
    BY DEF ShiftBit, Shr
  <2> QED BY <1>1, <1>2, <1>3, <2>1 DEF Word
<1>4. CASE w # {}
  <2>1. \A v \in Word : F[n + 1][v] = ShiftBit(p, v)
    OBVIOUS
  <2> HIDE DEF F
  <2>2. g[n] = h[n]
    BY <1>1, <1>2, ChainUnique
  <2>3. g[n] \in Word
    BY <1>1 DEF Chain
  <2>4. h[n + 1] = F[n + 1][h[n]]
    <3>1. n + 1 \in (0 + 1)..(n + 1) /\ (n + 1) - 1 = n
      OBVIOUS
    <3> QED BY <1>2, <3>1 DEF Chain
  <2> QED BY <1>1, <1>2, <1>4, <2>1, <2>2, <2>3, <2>4
<1> QED BY <1>3, <1>4

\* The division of a word goes on where it was left.
LEMMA ShiftBitsAdd ==
  ASSUME NEW p \in Word, NEW w \in Word, NEW m \in Nat, NEW n \in Nat
  PROVE  ShiftBits(p, w, m + n) = ShiftBits(p, ShiftBits(p, w, m), n)
<1> DEFINE u == ShiftBits(p, w, m)
           T == {k \in Nat : ShiftBits(p, w, m + k) = ShiftBits(p, u, k)}
<1>0. u \in Word
  BY ShiftBitsNext
<1>1. 0 \in T
  <2>1. ShiftBits(p, u, 0) = u /\ m + 0 = m
    BY <1>0, ShiftBitsZero
  <2> QED BY <2>1
<1>2. ASSUME NEW k \in Nat, k \in T PROVE k + 1 \in T
  <2>1. ShiftBits(p, w, (m + k) + 1) = ShiftBit(p, ShiftBits(p, w, m + k))
    BY ShiftBitsNext
  <2>2. ShiftBits(p, u, k + 1) = ShiftBit(p, ShiftBits(p, u, k))
    BY <1>0, ShiftBitsNext
  <2>3. (m + k) + 1 = m + (k + 1)
    OBVIOUS
  <2> QED BY <1>2, <2>1, <2>2, <2>3
<1> HIDE DEF T
<1>3. n \in T
  BY <1>1, <1>2, SetInduction
<1> QED BY <1>3 DEF T

\* It is linear.
LEMMA ShiftBitsXor ==
  ASSUME NEW p \in Word, NEW a \in Word, NEW b \in Word, NEW n \in Nat
  PROVE  ShiftBits(p, Xor(a, b), n) = Xor(ShiftBits(p, a, n), ShiftBits(p, b, n))
<1> DEFINE T == {k \in Nat : ShiftBits(p, Xor(a, b), k) = Xor(ShiftBits(p, a, k), ShiftBits(p, b, k))}
<1>0. Xor(a, b) \in Word
  BY XorWord
<1>1. 0 \in T
  BY <1>0, ShiftBitsZero
<1>2. ASSUME NEW k \in Nat, k \in T PROVE k + 1 \in T
  <2>1. ShiftBits(p, a, k) \in Word /\ ShiftBits(p, b, k) \in Word
    BY ShiftBitsNext
  <2>2. /\ ShiftBits(p, a, k + 1) = ShiftBit(p, ShiftBits(p, a, k))
        /\ ShiftBits(p, b, k + 1) = ShiftBit(p, ShiftBits(p, b, k))
        /\ ShiftBits(p, Xor(a, b), k + 1) = ShiftBit(p, ShiftBits(p, Xor(a, b), k))
    BY <1>0, ShiftBitsNext
  <2> QED BY <1>2, <2>1, <2>2, ShiftBitXor
<1> HIDE DEF T
<1>3. n \in T
  BY <1>1, <1>2, SetInduction
<1> QED BY <1>3 DEF T

\* Low bits that are zero fall out without a trace.
LEMMA ShiftBitsHigh ==
  ASSUME NEW p \in Word, NEW w \in Word, NEW n \in Nat, \A b \in w : b >= n
  PROVE  ShiftBits(p, w, n) = Shr(w, n)
<1> DEFINE T == {k \in Nat : k <= n => ShiftBits(p, w, k) = Shr(w, k)}
<1>1. 0 \in T
  BY ShiftBitsZero, ShrShr
<1>2. ASSUME NEW k \in Nat, k \in T PROVE k + 1 \in T
  <2> SUFFICES ASSUME k + 1 <= n PROVE ShiftBits(p, w, k + 1) = Shr(w, k + 1)
    OBVIOUS
  <2>1. ShiftBits(p, w, k) = Shr(w, k)
    BY <1>2
  <2>2. Shr(w, k) \in Word /\ 0 \notin Shr(w, k)
    <3>1. 0 + k \notin w
      BY DEF Word
    <3> QED BY <3>1, ShrBit
  <2>3. ShiftBits(p, w, k + 1) = Shr(Shr(w, k), 1)
    BY <2>1, <2>2, ShiftBitsNext DEF ShiftBit
  <2> QED BY <2>3, ShrShr
<1> HIDE DEF T
<1>3. n \in T
  BY <1>1, <1>2, SetInduction
<1> QED BY <1>3 DEF T

\* A word of n bits more than 32 is a word of 32 bits after n steps.
LEMMA ShiftBitsNarrow ==
  ASSUME NEW p, p \subseteq 0..31, NEW w, NEW n \in Nat, w \subseteq 0..(31 + n)
  PROVE  ShiftBits(p, w, n) \subseteq 0..31
<1> DEFINE T == {k \in Nat : k <= n => ShiftBits(p, w, k) \subseteq 0..(31 + (n - k))}
<1>0. p \in Word /\ w \in Word
  BY DEF Word
<1>1. 0 \in T
  <2>1. 31 + (n - 0) = 31 + n /\ ShiftBits(p, w, 0) = w
    BY <1>0, ShiftBitsZero
  <2> QED BY <2>1
<1>2. ASSUME NEW k \in Nat, k \in T PROVE k + 1 \in T
  <2> SUFFICES ASSUME k + 1 <= n PROVE ShiftBits(p, w, k + 1) \subseteq 0..(31 + (n - (k + 1)))
    OBVIOUS
  <2> DEFINE u == ShiftBits(p, w, k)
  <2>1. u \subseteq 0..(31 + (n - k)) /\ u \in Word
    BY <1>0, <1>2, ShiftBitsNext
  <2>2. ShiftBits(p, w, k + 1) = ShiftBit(p, u)
    BY <1>0, ShiftBitsNext
  <2> HIDE DEF u
  <2>3. Shr(u, 1) \subseteq 0..(31 + (n - (k + 1)))
    BY <2>1 DEF Shr
  <2>4. p \subseteq 0..(31 + (n - (k + 1)))
    OBVIOUS
  <2>5. ShiftBit(p, u) \subseteq 0..(31 + (n - (k + 1)))
    BY <2>3, <2>4 DEF ShiftBit, Xor
  <2> QED BY <2>2, <2>5
<1> HIDE DEF T
<1>3. n \in T
  BY <1>1, <1>2, SetInduction
<1>4. 31 + (n - n) = 31
  OBVIOUS
<1> QED BY <1>3, <1>4 DEF T

-----------------------------------------------------------------------------
(* Bytes.                                                                   *)

\* The word that is w followed by n zero bits.
Up(w, n) == {x + n : x \in w}

LEMMA UpBit ==
  ASSUME NEW w \in Word, NEW n \in Nat
  PROVE  /\ Up(w, n) \in Word
         /\ \A x \in Nat : x \in Up(w, n) <=> x >= n /\ x - n \in w
         /\ Shr(Up(w, n), n) = w
<1>1. Up(w, n) \in Word
  BY DEF Up, Word
<1>2. \A x \in Nat : x \in Up(w, n) <=> x >= n /\ x - n \in w
  BY DEF Up, Word
<1>3. ASSUME NEW x \in Nat PROVE x \in Shr(Up(w, n), n) <=> x \in w
  <2>1. x \in Shr(Up(w, n), n) <=> x + n \in Up(w, n)
    BY <1>1, ShrBit
  <2>2. x + n \in Nat /\ (x + n) - n = x /\ x + n >= n
    OBVIOUS
  <2> QED BY <1>2, <2>1, <2>2
<1>4. Shr(Up(w, n), n) = w
  BY <1>1, <1>3, ShrBit, WordEqual
<1> QED BY <1>1, <1>2, <1>4

LEMMA ShiftBitsUp ==
  ASSUME NEW p \in Word, NEW w \in Word, NEW n \in Nat
  PROVE  ShiftBits(p, Up(w, n), n) = w
<1>1. Up(w, n) \in Word /\ \A b \in Up(w, n) : b >= n
  BY UpBit DEF Up, Word
<1> QED BY <1>1, ShiftBitsHigh, UpBit

\* The bits of the word that n bytes stand for.
LEMMA LoadBit ==
  ASSUME NEW data, NEW at \in Nat, NEW n \in Nat, \A j \in (at + 1)..(at + n) : data[j] \in Byte
  PROVE  /\ LoadLE(data, at, n) \in Word
         /\ LoadLE(data, at, n) \subseteq 0..(8 * n - 1)
         /\ \A x \in Nat : x \in LoadLE(data, at, n) <=> x < 8 * n /\ x % 8 \in data[at + 1 + x \div 8]
<1>1. ASSUME NEW x \in LoadLE(data, at, n)
      PROVE  x \in Nat /\ x < 8 * n /\ x % 8 \in data[at + 1 + x \div 8]
  <2>1. PICK j \in 0..(n - 1) : x \in {b + 8 * j : b \in data[at + 1 + j]}
    BY DEF LoadLE
  <2>2. PICK b \in data[at + 1 + j] : x = b + 8 * j
    BY <2>1
  <2>3. b \in 0..7
    <3>1. at + 1 + j \in (at + 1)..(at + n)
      OBVIOUS
    <3> QED BY <2>2, <3>1 DEF Byte
  <2>4. x \in Nat /\ x < 8 * n /\ x % 8 = b /\ x \div 8 = j
    BY <2>2, <2>3
  <2> QED BY <2>2, <2>4
<1>2. ASSUME NEW x \in Nat, x < 8 * n, x % 8 \in data[at + 1 + x \div 8]
      PROVE  x \in LoadLE(data, at, n)
  <2> DEFINE j == x \div 8
  <2>1. j \in 0..(n - 1) /\ x = (x % 8) + 8 * j
    BY <1>2
  <2>2. x \in {b + 8 * j : b \in data[at + 1 + j]}
    BY <1>2, <2>1
  <2> HIDE DEF j
  <2> QED BY <2>1, <2>2 DEF LoadLE
<1>3. LoadLE(data, at, n) \subseteq 0..(8 * n - 1)
  BY <1>1
<1> QED BY <1>1, <1>2, <1>3 DEF Word

\* A sequence of bytes as one word, and its division, begun with the remainder s.
WordOf(data) == LoadLE(data, 0, Len(data))

Divide(p, s, data) == ShiftBits(p, Xor(s, WordOf(data)), 8 * Len(data))

LEMMA WordOfBit ==
  ASSUME NEW data \in Seq(Byte)
  PROVE  /\ WordOf(data) \in Word
         /\ WordOf(data) \subseteq 0..(8 * Len(data) - 1)
         /\ \A x \in Nat : x \in WordOf(data) <=> x < 8 * Len(data) /\ x % 8 \in data[1 + x \div 8]
<1> DEFINE n == Len(data)
<1>1. n \in Nat /\ \A j \in (0 + 1)..(0 + n) : data[j] \in Byte
  OBVIOUS
<1>2. \A x \in Nat : 0 + 1 + x \div 8 = 1 + x \div 8
  OBVIOUS
<1> HIDE DEF n
<1>3. /\ LoadLE(data, 0, n) \in Word
      /\ LoadLE(data, 0, n) \subseteq 0..(8 * n - 1)
      /\ \A x \in Nat : x \in LoadLE(data, 0, n) <=> x < 8 * n /\ x % 8 \in data[0 + 1 + x \div 8]
  BY <1>1, LoadBit
<1> QED BY <1>2, <1>3 DEF WordOf, n

LEMMA DivideWord ==
  ASSUME NEW p \in Word, NEW s \in Word, NEW data \in Seq(Byte)
  PROVE  Divide(p, s, data) \in Word /\ Xor(s, WordOf(data)) \in Word
<1>1. Xor(s, WordOf(data)) \in Word /\ 8 * Len(data) \in Nat
  BY WordOfBit, XorWord
<1> QED BY <1>1, ShiftBitsNext DEF Divide

\* The first bytes of a sequence are its low bits.
LEMMA WordOfCat ==
  ASSUME NEW a \in Seq(Byte), NEW b \in Seq(Byte)
  PROVE  WordOf(a \o b) = Xor(WordOf(a), Up(WordOf(b), 8 * Len(a)))
<1> DEFINE c == a \o b
           k == 8 * Len(a)
           wa == WordOf(a)
           wb == WordOf(b)
<1>1. /\ c \in Seq(Byte) /\ Len(c) = Len(a) + Len(b)
      /\ Len(a) \in Nat /\ Len(b) \in Nat /\ k \in Nat
      /\ \A i \in 1..Len(a) : c[i] = a[i]
      /\ \A i \in 1..Len(b) : c[Len(a) + i] = b[i]
  OBVIOUS
<1>2. wa \in Word /\ wb \in Word /\ WordOf(c) \in Word
  BY <1>1, WordOfBit
<1>3. Up(wb, k) \in Word
  BY <1>1, <1>2, UpBit
<1>4. ASSUME NEW x \in Nat PROVE x \in WordOf(c) <=> x \in Xor(wa, Up(wb, k))
  <2>1. x \in WordOf(c) <=> x < 8 * Len(c) /\ x % 8 \in c[1 + x \div 8]
    BY <1>1, WordOfBit
  <2>2. x \in wa <=> x < k /\ x % 8 \in a[1 + x \div 8]
    BY WordOfBit
  <2>3. x \in Up(wb, k) <=> x >= k /\ x - k \in wb
    BY <1>1, <1>2, UpBit
  <2> HIDE DEF c, wa, wb
  <2>0. k \in Nat /\ Len(c) = Len(a) + Len(b) /\ Len(a) \in Nat /\ Len(b) \in Nat /\ k = 8 * Len(a)
    BY <1>1
  <2>4. CASE x < k
    <3>1. 1 + x \div 8 \in 1..Len(a) /\ x < 8 * Len(c)
      BY <1>1, <2>4
    <3>2. x \notin Up(wb, k)
      BY <1>1, <2>3, <2>4
    <3> QED BY <1>1, <2>1, <2>2, <2>4, <3>1, <3>2, XorBit
  <2>5. CASE x >= k
    <3> DEFINE y == x - k
    <3>1. y \in Nat /\ y % 8 = x % 8 /\ 1 + x \div 8 = Len(a) + (1 + y \div 8)
      BY <1>1, <2>5
    <3>2. y \in wb <=> y < 8 * Len(b) /\ y % 8 \in b[1 + y \div 8]
      BY <3>1, WordOfBit DEF wb
    <3>3. x \notin wa
      <4>1. ~ (x < k)
        BY <2>0, <2>5
      <4> QED BY <2>2, <4>1
    <3>4. x < 8 * Len(c) <=> y < 8 * Len(b)
      BY <1>1, <2>5
    <3>5. y < 8 * Len(b) => c[1 + x \div 8] = b[1 + y \div 8]
      <4>1. y < 8 * Len(b) => 1 + y \div 8 \in 1..Len(b)
        <5> HIDE DEF y
        <5> QED BY <2>0, <3>1
      <4> QED BY <1>1, <3>1, <4>1
    <3>6. x \in WordOf(c) <=> y \in wb
      BY <2>1, <3>1, <3>2, <3>4, <3>5
    <3>7. x \in Up(wb, k) <=> y \in wb
      BY <2>3, <2>5
    <3> QED BY <3>3, <3>6, <3>7, XorBit
  <2> QED BY <1>1, <2>4, <2>5
<1>5. Xor(wa, Up(wb, k)) \in Word
  BY <1>2, <1>3, XorWord
<1> QED BY <1>2, <1>4, <1>5, WordEqual

\* The division of two pieces, one after the other, is the division of the whole.
LEMMA DivideCat ==
  ASSUME NEW p \in Word, NEW s \in Word, NEW a \in Seq(Byte), NEW b \in Seq(Byte)
  PROVE  Divide(p, s, a \o b) = Divide(p, Divide(p, s, a), b)
<1> DEFINE m == 8 * Len(a)
           n == 8 * Len(b)
           u == Xor(s, WordOf(a))
           v == WordOf(b)
<1>1. m \in Nat /\ n \in Nat /\ 8 * Len(a \o b) = m + n
  OBVIOUS
<1>2. u \in Word /\ v \in Word
  BY WordOfBit, XorWord
<1>3. Up(v, m) \in Word
  BY <1>1, <1>2, UpBit
<1>4. Xor(s, WordOf(a \o b)) = Xor(u, Up(v, m))
  BY WordOfCat, XorAssoc
<1>5. Divide(p, s, a \o b) = ShiftBits(p, Xor(u, Up(v, m)), m + n)
  BY <1>1, <1>4 DEF Divide
<1>6. Divide(p, s, a) = ShiftBits(p, u, m)
  BY DEF Divide
<1>7. Divide(p, Divide(p, s, a), b) = ShiftBits(p, Xor(ShiftBits(p, u, m), v), n)
  BY <1>6 DEF Divide
<1> HIDE DEF m, n, u, v
<1>8. ShiftBits(p, Xor(u, Up(v, m)), m) = Xor(ShiftBits(p, u, m), v)
  BY <1>1, <1>2, <1>3, ShiftBitsXor, ShiftBitsUp
<1>9. Xor(u, Up(v, m)) \in Word
  BY <1>2, <1>3, XorWord
<1>10. ShiftBits(p, Xor(u, Up(v, m)), m + n) = ShiftBits(p, ShiftBits(p, Xor(u, Up(v, m)), m), n)
  BY <1>1, <1>9, ShiftBitsAdd
<1> QED BY <1>5, <1>7, <1>8, <1>10

-----------------------------------------------------------------------------
(* Tables and instructions.                                                 *)

LEMMA ByteWord == ASSUME NEW b \in Byte PROVE b \in Word
  BY DEF Byte, Word

LEMMA LowByteIs == ASSUME NEW w \in Word PROVE LowByte(w) \in Byte /\ LowByte(w) \in Word
  BY DEF LowByte, Byte, Word

\* Eight steps at once: the table takes care of the low byte.
LEMMA ByteLookup ==
  ASSUME NEW p \in Word, NEW w \in Word
  PROVE  ShiftBits(p, w, 8) = Xor(Shr(w, 8), ShiftBits(p, LowByte(w), 8))
<1> DEFINE low == LowByte(w)
           high == w \ (0..7)
<1>1. low \in Word /\ high \in Word /\ w = Xor(low, high) /\ \A b \in high : b >= 8
  BY DEF LowByte, Word, Xor
<1>2. Shr(high, 8) = Shr(w, 8)
  <2>1. Shr(high, 8) \in Word /\ Shr(w, 8) \in Word
    BY <1>1, ShrBit
  <2>2. ASSUME NEW x \in Nat PROVE x \in Shr(high, 8) <=> x \in Shr(w, 8)
    <3>1. (x \in Shr(high, 8) <=> x + 8 \in high) /\ (x \in Shr(w, 8) <=> x + 8 \in w)
      BY <1>1, ShrBit
    <3>2. x + 8 \notin 0..7
      OBVIOUS
    <3> QED BY <3>1, <3>2
  <2> DEFINE u == Shr(high, 8)
             v == Shr(w, 8)
  <2>3. u \in Word /\ v \in Word /\ \A x \in Nat : x \in u <=> x \in v
    BY <2>1, <2>2
  <2> HIDE DEF u, v
  <2>4. u = v
    BY <2>3, WordEqual
  <2> QED BY <2>4 DEF u, v
<1> HIDE DEF low, high
<1>3. ShiftBits(p, high, 8) = Shr(w, 8)
  BY <1>1, <1>2, ShiftBitsHigh
<1>4. ShiftBits(p, Xor(low, high), 8) = Xor(ShiftBits(p, low, 8), ShiftBits(p, high, 8))
  BY <1>1, ShiftBitsXor
<1> QED BY <1>1, <1>3, <1>4, XorComm DEF low

\* What make_crc_table() computes.
LEMMA TableIs ==
  ASSUME NEW p \in Word
  PROVE  \A slice \in 0..7, i \in Byte : make_crc_table(p)[slice][i] = ShiftBits(p, i, 8 * (slice + 1))
<1> DEFINE W == [Byte -> Word]
           first1 == [i \in Byte |-> ShiftBits(p, i, 8)]
           Row(prev) == [i \in Byte |-> Xor(Shr(prev[i], 8), first1[LowByte(prev[i])])]
           F == [slice \in Nat |-> [v \in W |-> Row(v)]]
           Body(g) == [slice \in 0..7 |-> IF slice = 0 THEN first1 ELSE Row(g[slice - 1])]
           f == CHOOSE g : g = Body(g)
<1>1. first1 \in W
  <2>1. \A i \in Byte : ShiftBits(p, i, 8) \in Word
    BY ShiftBitsNext, ByteWord
  <2> QED BY <2>1
<1>2. ASSUME NEW v \in W PROVE Row(v) \in W
  <2> SUFFICES ASSUME NEW i \in Byte PROVE Xor(Shr(v[i], 8), first1[LowByte(v[i])]) \in Word
    OBVIOUS
  <2> HIDE DEF first1
  <2>1. v[i] \in Word
    OBVIOUS
  <2>2. LowByte(v[i]) \in Byte /\ Shr(v[i], 8) \in Word
    BY <2>1, LowByteIs, ShrBit
  <2>3. first1[LowByte(v[i])] \in Word
    BY <1>1, <2>2
  <2> QED BY <2>2, <2>3, XorWord
<1>4. make_crc_table(p) = f
  BY DEF make_crc_table
<1> HIDE DEF first1, Row, W
<1>3. \A i \in (0 + 1)..7, v \in W : F[i][v] = Row(v) /\ F[i][v] \in W
  BY <1>2
<1> HIDE DEF F
<1>5. f = Body(f)
  <2>1. PICK g : Chain(g, W, first1, 0, 7, F)
    <3>1. \A i \in (0 + 1)..7, v \in W : F[i][v] \in W
      BY <1>3
    <3>2. 0 \in Nat /\ 7 \in Nat /\ 0 <= 7
      OBVIOUS
    <3> QED BY <1>1, <3>1, <3>2, ChainExists
  <2>2. g = Body(g)
    <3>1. g \in [0..7 -> W] /\ g[0] = first1
      BY <2>1 DEF Chain
    <3>2. ASSUME NEW i \in 0..7, i # 0 PROVE g[i] = Row(g[i - 1])
      <4>1. i \in (0 + 1)..7 /\ i - 1 \in 0..7
        BY <3>2
      <4> QED BY <1>3, <2>1, <3>1, <4>1 DEF Chain
    <3> QED BY <3>1, <3>2
  <2> QED BY <2>2
<1> HIDE DEF f
<1>6. f[0] = first1 /\ \A i \in 1..7 : f[i] = Row(f[i - 1])
  BY <1>5
<1> HIDE DEF Body
<1> DEFINE T == {k \in Nat : k <= 7 => \A i \in Byte : f[k][i] = ShiftBits(p, i, 8 * (k + 1))}
<1>7. 0 \in T
  BY <1>6 DEF first1
<1>8. ASSUME NEW k \in Nat, k \in T PROVE k + 1 \in T
  <2> SUFFICES ASSUME k + 1 <= 7, NEW i \in Byte
               PROVE  f[k + 1][i] = ShiftBits(p, i, 8 * ((k + 1) + 1))
    OBVIOUS
  <2> DEFINE prev == f[k][i]
  <2>1. prev = ShiftBits(p, i, 8 * (k + 1)) /\ 8 * (k + 1) \in Nat /\ i \in Word
    BY <1>8, ByteWord
  <2>2. prev \in Word
    BY <2>1, ShiftBitsNext
  <2>3. k + 1 \in 1..7 /\ (k + 1) - 1 = k
    OBVIOUS
  <2>4. f[k + 1] = Row(f[k])
    BY <1>6, <2>3
  <2>5. f[k + 1][i] = Xor(Shr(prev, 8), first1[LowByte(prev)])
    BY <2>4 DEF Row
  <2>6. first1[LowByte(prev)] = ShiftBits(p, LowByte(prev), 8)
    BY <2>2, LowByteIs DEF first1
  <2> HIDE DEF prev
  <2>7. f[k + 1][i] = ShiftBits(p, prev, 8)
    BY <2>2, <2>5, <2>6, ByteLookup
  <2>8. ShiftBits(p, i, 8 * (k + 1) + 8) = ShiftBits(p, ShiftBits(p, i, 8 * (k + 1)), 8)
    BY <2>1, ShiftBitsAdd
  <2>9. 8 * (k + 1) + 8 = 8 * ((k + 1) + 1)
    OBVIOUS
  <2> QED BY <2>1, <2>7, <2>8, <2>9
<1> HIDE DEF T
<1>9. \A k \in Nat : k \in T
  BY <1>7, <1>8, SetInduction
<1> QED BY <1>4, <1>9 DEF T

LEMMA ByteAtBit ==
  ASSUME NEW w \in Word, NEW j \in Nat
  PROVE  /\ ByteAt(w, j) \in Byte /\ ByteAt(w, j) \in Word
         /\ Up(ByteAt(w, j), 8 * j) \in Word
         /\ \A x \in Nat : x \in ByteAt(w, j) <=> x \in 0..7 /\ x + 8 * j \in w
         /\ \A x \in Nat : x \in Up(ByteAt(w, j), 8 * j) <=> x \in w /\ x \div 8 = j
<1> DEFINE n == 8 * j
<1>1. n \in Nat
  OBVIOUS
<1> HIDE DEF n
<1>2. Shr(w, n) \in Word /\ \A x \in Nat : x \in Shr(w, n) <=> x + n \in w
  BY <1>1, ShrBit
<1>3. ByteAt(w, j) = Shr(w, n) \cap (0..7)
  BY DEF ByteAt, LowByte, n
<1>4. ByteAt(w, j) \in Byte /\ ByteAt(w, j) \in Word
  BY <1>3 DEF Byte, Word
<1>5. \A x \in Nat : x \in ByteAt(w, j) <=> x \in 0..7 /\ x + n \in w
  BY <1>2, <1>3
<1>6. Up(ByteAt(w, j), n) \in Word /\ \A x \in Nat : x \in Up(ByteAt(w, j), n) <=> x >= n /\ x - n \in ByteAt(w, j)
  BY <1>1, <1>4, UpBit
<1>7. ASSUME NEW x \in Nat PROVE x \in Up(ByteAt(w, j), n) <=> x \in w /\ x \div 8 = j
  <2>1. CASE x >= n
    <3>1. x - n \in Nat /\ (x - n) + n = x /\ (x - n \in 0..7 <=> x \div 8 = j)
      BY <1>1, <2>1 DEF n
    <3>2. x - n \in ByteAt(w, j) <=> x - n \in 0..7 /\ x \in w
      BY <1>5, <3>1
    <3> QED BY <1>6, <2>1, <3>1, <3>2
  <2>2. CASE ~ (x >= n)
    <3>1. x \div 8 # j
      BY <2>2 DEF n
    <3> QED BY <1>6, <2>2, <3>1
  <2> QED BY <2>1, <2>2
<1> QED BY <1>4, <1>5, <1>6, <1>7 DEF n

\* A word of 64 bits is made of its bytes.
LEMMA EightBytes ==
  ASSUME NEW w, w \subseteq 0..63
  PROVE  LET u(j) == Up(ByteAt(w, j), 8 * j)
         IN  w = Xor(u(7), Xor(u(6), Xor(u(5), Xor(u(4), Xor(u(3), Xor(u(2), Xor(u(1), u(0))))))))
<1> DEFINE u(j) == Up(ByteAt(w, j), 8 * j)
           all == Xor(u(7), Xor(u(6), Xor(u(5), Xor(u(4), Xor(u(3), Xor(u(2), Xor(u(1), u(0))))))))
<1>1. w \in Word
  BY DEF Word
<1>2. ASSUME NEW j \in 0..7
      PROVE  u(j) \in Word /\ \A x \in Nat : x \in u(j) <=> x \in w /\ x \div 8 = j
  <2>1. j \in Nat
    OBVIOUS
  <2> QED BY <1>1, <2>1, ByteAtBit
<1> HIDE DEF u
<1>3. all \in Word
  BY <1>2, XorWord
<1>4. ASSUME NEW x \in Nat PROVE x \in w <=> x \in all
  <2> DEFINE q == x \div 8
  <2>1. q \in Nat /\ (x \in w => q \in 0..7)
    OBVIOUS
  <2>2. \A j \in 0..7 : x \in u(j) <=> x \in w /\ q = j
    BY <1>2
  <2> HIDE DEF q
  <2>3. /\ x \in u(0) <=> x \in w /\ q = 0
        /\ x \in u(1) <=> x \in w /\ q = 1
        /\ x \in u(2) <=> x \in w /\ q = 2
        /\ x \in u(3) <=> x \in w /\ q = 3
        /\ x \in u(4) <=> x \in w /\ q = 4
        /\ x \in u(5) <=> x \in w /\ q = 5
        /\ x \in u(6) <=> x \in w /\ q = 6
        /\ x \in u(7) <=> x \in w /\ q = 7
    BY <2>2
  <2> QED BY <2>1, <2>3 DEF Xor
<1>5. w = all
  BY <1>1, <1>3, <1>4, WordEqual
<1> QED BY <1>5 DEF u

\* Byte j of eight, with 7 - j bytes behind it.
LEMMA PartIs ==
  ASSUME NEW p \in Word, NEW w \in Word, NEW j \in 0..7
  PROVE  make_crc_table(p)[7 - j][ByteAt(w, j)] = ShiftBits(p, Up(ByteAt(w, j), 8 * j), 64)
<1> DEFINE b == ByteAt(w, j)
<1>1. b \in Byte /\ b \in Word /\ Up(b, 8 * j) \in Word
  <2>1. j \in Nat
    OBVIOUS
  <2> QED BY <2>1, ByteAtBit
<1> HIDE DEF b
<1>2. 7 - j \in 0..7 /\ 8 * j \in Nat /\ 8 * ((7 - j) + 1) \in Nat /\ 8 * j + 8 * ((7 - j) + 1) = 64
  OBVIOUS
<1>3. make_crc_table(p)[7 - j][b] = ShiftBits(p, b, 8 * ((7 - j) + 1))
  BY <1>1, <1>2, TableIs
<1>4. ShiftBits(p, Up(b, 8 * j), 8 * j + 8 * ((7 - j) + 1)) = ShiftBits(p, ShiftBits(p, Up(b, 8 * j), 8 * j), 8 * ((7 - j) + 1))
  BY <1>1, <1>2, ShiftBitsAdd
<1>5. ShiftBits(p, Up(b, 8 * j), 8 * j) = b
  BY <1>1, <1>2, ShiftBitsUp
<1> QED BY <1>2, <1>3, <1>4, <1>5 DEF b

\* crc_slice_by_8() divides eight bytes at once, as the instructions do.
LEMMA SliceStepIs ==
  ASSUME NEW p \in Word, NEW c, c \subseteq 0..31, NEW data, NEW at \in Nat,
         \A j \in (at + 1)..(at + 8) : data[j] \in Byte
  PROVE  SliceStep(make_crc_table(p), c, data, at) = ShiftBits(p, Xor(c, LoadLE(data, at, 8)), 64)
<1> DEFINE w == Xor(LoadLE(data, at, 8), c)
           u(j) == Up(ByteAt(w, j), 8 * j)
           s(j) == ShiftBits(p, u(j), 64)
           part(j) == make_crc_table(p)[7 - j][ByteAt(w, j)]
<1>1. w \subseteq 0..63 /\ w \in Word
  <2>1. LoadLE(data, at, 8) \subseteq 0..(8 * 8 - 1)
    BY LoadBit
  <2>2. LoadLE(data, at, 8) \subseteq 0..63 /\ c \subseteq 0..63
    BY <2>1
  <2>3. w \subseteq 0..63
    BY <2>2 DEF Xor
  <2> HIDE DEF w
  <2> QED BY <2>3 DEF Word
<1>2. SliceStep(make_crc_table(p), c, data, at)
        = Xor(part(7), Xor(part(6), Xor(part(5), Xor(part(4), Xor(part(3), Xor(part(2), Xor(part(1), part(0))))))))
  BY DEF SliceStep
<1>3. Xor(c, LoadLE(data, at, 8)) = w
  BY XorComm
<1> HIDE DEF w
<1>4. ASSUME NEW j \in 0..7 PROVE part(j) = s(j) /\ u(j) \in Word
  <2>1. j \in Nat
    OBVIOUS
  <2> QED BY <1>1, <2>1, PartIs, ByteAtBit
<1>5. w = Xor(u(7), Xor(u(6), Xor(u(5), Xor(u(4), Xor(u(3), Xor(u(2), Xor(u(1), u(0))))))))
  BY <1>1, EightBytes
<1> HIDE DEF u, part
<1>6. ASSUME NEW a \in Word, NEW b \in Word
      PROVE  Xor(a, b) \in Word /\ ShiftBits(p, Xor(a, b), 64) = Xor(ShiftBits(p, a, 64), ShiftBits(p, b, 64))
  BY XorWord, ShiftBitsXor
<1>7. /\ u(0) \in Word /\ u(1) \in Word /\ u(2) \in Word /\ u(3) \in Word
      /\ u(4) \in Word /\ u(5) \in Word /\ u(6) \in Word /\ u(7) \in Word
  BY <1>4
<1>8. ShiftBits(p, w, 64) = Xor(s(7), Xor(s(6), Xor(s(5), Xor(s(4), Xor(s(3), Xor(s(2), Xor(s(1), s(0))))))))
  BY <1>5, <1>6, <1>7
<1>9. /\ part(0) = s(0) /\ part(1) = s(1) /\ part(2) = s(2) /\ part(3) = s(3)
      /\ part(4) = s(4) /\ part(5) = s(5) /\ part(6) = s(6) /\ part(7) = s(7)
  BY <1>4
<1> QED BY <1>2, <1>3, <1>8, <1>9

\* The register, and what eight bytes or one byte of the data make of it.
Register == SUBSET (0..31)

WideStep(p, data) ==
  [i \in Nat |-> [v \in Register |-> ShiftBits(p, Xor(v, LoadLE(data, 8 * (i - 1), 8)), 64)]]

NarrowStep(p, data) == [i \in Nat |-> [v \in Register |-> ShiftBits(p, Xor(v, data[i]), 8)]]

LEMMA RegisterWord == ASSUME NEW v \in Register PROVE v \in Word
  BY DEF Register, Word

LEMMA WideStepIs ==
  ASSUME NEW p \in Register, NEW data \in Seq(Byte), NEW i \in 1..(Len(data) \div 8), NEW v \in Register
  PROVE  /\ \A j \in (8 * (i - 1) + 1)..(8 * (i - 1) + 8) : data[j] \in Byte
         /\ 8 * (i - 1) \in Nat
         /\ WideStep(p, data)[i][v] = ShiftBits(p, Xor(v, LoadLE(data, 8 * (i - 1), 8)), 64)
         /\ WideStep(p, data)[i][v] \in Register
<1> DEFINE at == 8 * (i - 1)
           w == LoadLE(data, at, 8)
<1>1. at \in Nat /\ (at + 1)..(at + 8) \subseteq 1..Len(data)
  OBVIOUS
<1>2. \A j \in (at + 1)..(at + 8) : data[j] \in Byte
  BY <1>1
<1>3. WideStep(p, data)[i][v] = ShiftBits(p, Xor(v, w), 64)
  BY DEF WideStep
<1> HIDE DEF at
<1>4. w \subseteq 0..(8 * 8 - 1)
  BY <1>1, <1>2, LoadBit
<1> HIDE DEF w
<1>5. Xor(v, w) \subseteq 0..(31 + 64)
  <2>1. w \subseteq 0..(31 + 64) /\ v \subseteq 0..(31 + 64)
    BY <1>4 DEF Register
  <2> QED BY <2>1 DEF Xor
<1>6. ShiftBits(p, Xor(v, w), 64) \subseteq 0..31
  BY <1>5, ShiftBitsNarrow DEF Register
<1> QED BY <1>1, <1>2, <1>3, <1>6 DEF Register, at, w

LEMMA NarrowStepIs ==
  ASSUME NEW p \in Register, NEW data \in Seq(Byte), NEW i \in 1..Len(data), NEW v \in Register
  PROVE  /\ NarrowStep(p, data)[i][v] = ShiftBits(p, Xor(v, data[i]), 8)
         /\ NarrowStep(p, data)[i][v] \in Register
<1> DEFINE d == data[i]
<1>1. d \in Byte
  OBVIOUS
<1>2. NarrowStep(p, data)[i][v] = ShiftBits(p, Xor(v, d), 8)
  <2>1. i \in Nat
    OBVIOUS
  <2> HIDE DEF d
  <2> QED BY <2>1 DEF NarrowStep, d
<1> HIDE DEF d
<1>3. Xor(v, d) \subseteq 0..(31 + 8)
  <2>1. d \subseteq 0..(31 + 8) /\ v \subseteq 0..(31 + 8)
    BY <1>1 DEF Register, Byte
  <2> QED BY <2>1 DEF Xor
<1>4. ShiftBits(p, Xor(v, d), 8) \in Register
  BY <1>3, ShiftBitsNarrow DEF Register
<1> QED BY <1>2, <1>4 DEF d

\* The bytes from one place to another, on their own.
LEMMA WordOfPiece ==
  ASSUME NEW data \in Seq(Byte), NEW at \in Nat, NEW n \in Nat, at + n <= Len(data)
  PROVE  /\ SubSeq(data, at + 1, at + n) \in Seq(Byte)
         /\ Len(SubSeq(data, at + 1, at + n)) = n
         /\ WordOf(SubSeq(data, at + 1, at + n)) = LoadLE(data, at, n)
         /\ SubSeq(data, 1, at) \in Seq(Byte)
         /\ SubSeq(data, 1, at + n) = SubSeq(data, 1, at) \o SubSeq(data, at + 1, at + n)
<1> DEFINE piece == SubSeq(data, at + 1, at + n)
<1>1. piece \in Seq(Byte) /\ Len(piece) = n /\ \A i \in 1..n : piece[i] = data[at + i]
  OBVIOUS
<1>2. \A j \in (at + 1)..(at + n) : data[j] \in Byte
  OBVIOUS
<1>3. SubSeq(data, 1, at) \in Seq(Byte) /\ SubSeq(data, 1, at + n) = SubSeq(data, 1, at) \o piece
  OBVIOUS
<1> HIDE DEF piece
<1>4. WordOf(piece) \in Word /\ LoadLE(data, at, n) \in Word
  BY <1>1, <1>2, WordOfBit, LoadBit
<1>5. ASSUME NEW x \in Nat PROVE x \in WordOf(piece) <=> x \in LoadLE(data, at, n)
  <2>1. x \in WordOf(piece) <=> x < 8 * n /\ x % 8 \in piece[1 + x \div 8]
    BY <1>1, WordOfBit
  <2>2. x \in LoadLE(data, at, n) <=> x < 8 * n /\ x % 8 \in data[at + 1 + x \div 8]
    BY <1>2, LoadBit
  <2>3. x < 8 * n => 1 + x \div 8 \in 1..n /\ at + (1 + x \div 8) = at + 1 + x \div 8
    OBVIOUS
  <2> QED BY <1>1, <2>1, <2>2, <2>3
<1>6. WordOf(piece) = LoadLE(data, at, n)
  BY <1>4, <1>5, WordEqual
<1> QED BY <1>1, <1>3, <1>6 DEF piece

LEMMA DivideNothing == ASSUME NEW p \in Word, NEW s \in Word PROVE Divide(p, s, <<>>) = s
<1>1. Len(<<>>) = 0 /\ 8 * 0 = 0 /\ 0..(0 - 1) = {}
  OBVIOUS
<1>2. WordOf(<<>>) = {}
  <2>1. WordOf(<<>>) = LoadLE(<<>>, 0, 0)
    BY <1>1 DEF WordOf
  <2> QED BY <1>1, <2>1 DEF LoadLE
<1>3. Divide(p, s, <<>>) = ShiftBits(p, Xor(s, {}), 0)
  BY <1>1, <1>2 DEF Divide
<1> QED BY <1>3, XorZero, ShiftBitsZero

\* After i rounds of eight bytes, 8 i bytes are divided.
LEMMA WideIs ==
  ASSUME NEW p \in Register, NEW crc \in Register, NEW data \in Seq(Byte), NEW g,
         Chain(g, Register, crc, 0, Len(data) \div 8, WideStep(p, data))
  PROVE  \A i \in 0..(Len(data) \div 8) : g[i] = Divide(p, crc, SubSeq(data, 1, 8 * i))
<1> DEFINE blocks == Len(data) \div 8
           T == {i \in Nat : i <= blocks => g[i] = Divide(p, crc, SubSeq(data, 1, 8 * i))}
<1>0. blocks \in Nat /\ 8 * blocks <= Len(data) /\ p \in Word /\ crc \in Word
  BY RegisterWord
<1>1. 0 \in T
  <2>1. SubSeq(data, 1, 8 * 0) = <<>> /\ <<>> \in Seq(Byte) /\ Len(<<>>) = 0
    OBVIOUS
  <2>2. Divide(p, crc, <<>>) = crc
    BY <1>0, DivideNothing
  <2>3. g[0] = crc
    BY DEF Chain
  <2> QED BY <2>1, <2>2, <2>3
<1>2. ASSUME NEW i \in Nat, i \in T PROVE i + 1 \in T
  <2> SUFFICES ASSUME i + 1 <= blocks PROVE g[i + 1] = Divide(p, crc, SubSeq(data, 1, 8 * (i + 1)))
    OBVIOUS
  <2> DEFINE at == 8 * i
             piece == SubSeq(data, at + 1, at + 8)
             done == SubSeq(data, 1, at)
  <2>1. at \in Nat /\ at + 8 <= Len(data) /\ 8 * (i + 1) = at + 8 /\ 8 * ((i + 1) - 1) = at
    BY <1>0
  <2>2. i + 1 \in 1..blocks /\ i + 1 \in (0 + 1)..blocks /\ (i + 1) - 1 = i /\ i \in 0..blocks /\ i <= blocks
    BY <1>0
  <2>3. g[i] = Divide(p, crc, done) /\ g[i] \in Register
    BY <1>2, <2>2 DEF Chain
  <2>4. g[i + 1] = WideStep(p, data)[i + 1][g[i]]
    BY <2>2 DEF Chain
  <2>5. /\ piece \in Seq(Byte) /\ Len(piece) = 8 /\ WordOf(piece) = LoadLE(data, at, 8)
        /\ done \in Seq(Byte) /\ SubSeq(data, 1, at + 8) = done \o piece
    BY <2>1, WordOfPiece
  <2> HIDE DEF at, piece, done, blocks
  <2>6. WideStep(p, data)[i + 1][g[i]] = ShiftBits(p, Xor(g[i], LoadLE(data, at, 8)), 64)
    BY <2>1, <2>2, <2>3, WideStepIs DEF blocks
  <2>7. Divide(p, g[i], piece) = ShiftBits(p, Xor(g[i], LoadLE(data, at, 8)), 64)
    BY <2>5 DEF Divide
  <2>8. Divide(p, crc, done \o piece) = Divide(p, Divide(p, crc, done), piece)
    BY <1>0, <2>5, DivideCat
  <2> QED BY <2>1, <2>3, <2>4, <2>5, <2>6, <2>7, <2>8
<1> HIDE DEF T
<1>3. \A i \in Nat : i \in T
  BY <1>1, <1>2, SetInduction
<1> QED BY <1>3 DEF T

\* And from byte m on, the others one by one.
LEMMA NarrowIs ==
  ASSUME NEW p \in Register, NEW crc \in Register, NEW data \in Seq(Byte), NEW m \in Nat, m <= Len(data),
         NEW h, Chain(h, Register, Divide(p, crc, SubSeq(data, 1, m)), m, Len(data), NarrowStep(p, data))
  PROVE  h[Len(data)] = Divide(p, crc, data)
<1> DEFINE n == Len(data)
           T == {k \in Nat : m + k <= n => h[m + k] = Divide(p, crc, SubSeq(data, 1, m + k))}
<1>0. n \in Nat /\ p \in Word /\ crc \in Word
  BY RegisterWord
<1>1. 0 \in T
  BY DEF Chain
<1>2. ASSUME NEW k \in Nat, k \in T PROVE k + 1 \in T
  <2> SUFFICES ASSUME m + (k + 1) <= n PROVE h[m + (k + 1)] = Divide(p, crc, SubSeq(data, 1, m + (k + 1)))
    OBVIOUS
  <2> DEFINE at == m + k
             piece == SubSeq(data, at + 1, at + 1)
             done == SubSeq(data, 1, at)
  <2>1. at \in Nat /\ at + 1 <= n /\ m + (k + 1) = at + 1 /\ at <= n
    BY <1>0
  <2>2. at + 1 \in 1..n /\ at + 1 \in (m + 1)..n /\ (at + 1) - 1 = at /\ at \in m..n
    BY <1>0
  <2>3. h[at] = Divide(p, crc, done) /\ h[at] \in Register
    BY <1>2, <2>1, <2>2 DEF Chain
  <2>4. h[at + 1] = NarrowStep(p, data)[at + 1][h[at]]
    BY <2>2 DEF Chain
  <2>5. /\ piece \in Seq(Byte) /\ Len(piece) = 1 /\ WordOf(piece) = LoadLE(data, at, 1)
        /\ done \in Seq(Byte) /\ SubSeq(data, 1, at + 1) = done \o piece
    BY <2>1, WordOfPiece
  <2>6. LoadLE(data, at, 1) = data[at + 1]
    <3>1. \A j \in 0..(1 - 1) : j = 0
      OBVIOUS
    <3>2. data[at + 1] \in Byte
      BY <2>2
    <3> DEFINE d == data[at + 1]
    <3>3. LoadLE(data, at, 1) = {b + 8 * 0 : b \in d}
      <4>1. at + 1 + 0 = at + 1
        BY <2>1
      <4>2. LoadLE(data, at, 1) = {b + 8 * 0 : b \in data[at + 1 + 0]}
        BY <3>1 DEF LoadLE
      <4> QED BY <4>1, <4>2
    <3> HIDE DEF d
    <3>4. \A b \in d : b + 8 * 0 = b
      BY <3>2 DEF Byte, d
    <3>5. {b + 8 * 0 : b \in d} = d
      BY <3>4
    <3> QED BY <3>3, <3>5 DEF d
  <2> HIDE DEF at, piece, done, n
  <2>7. NarrowStep(p, data)[at + 1][h[at]] = ShiftBits(p, Xor(h[at], data[at + 1]), 8)
    BY <2>2, <2>3, NarrowStepIs DEF n
  <2>8. Divide(p, h[at], piece) = ShiftBits(p, Xor(h[at], data[at + 1]), 8)
    BY <2>5, <2>6 DEF Divide
  <2>9. Divide(p, crc, done \o piece) = Divide(p, Divide(p, crc, done), piece)
    BY <1>0, <2>5, DivideCat
  <2> QED BY <2>1, <2>3, <2>4, <2>5, <2>7, <2>8, <2>9
<1> HIDE DEF T
<1>3. \A k \in Nat : k \in T
  BY <1>1, <1>2, SetInduction
<1>4. n - m \in Nat /\ m + (n - m) = n /\ SubSeq(data, 1, n) = data
  BY <1>0
<1>5. n - m \in T
  BY <1>3, <1>4
<1>6. h[m + (n - m)] = Divide(p, crc, SubSeq(data, 1, m + (n - m)))
  BY <1>0, <1>4, <1>5 DEF T
<1> QED BY <1>4, <1>6

\* What a routine computes that takes eight bytes and then one at a time, as long as
\* its register has 32 bits.
TakesEightThenOne(wide, all, p, crc, data) ==
  LET blocks == Len(data) \div 8
  IN  /\ wide = [i \in 0..blocks |-> wide[i]] /\ wide[0] = crc
      /\ \A i \in 1..blocks : wide[i - 1] \in Register => wide[i] = WideStep(p, data)[i][wide[i - 1]]
      /\ all = [i \in (8 * blocks)..Len(data) |-> all[i]] /\ all[8 * blocks] = wide[blocks]
      /\ \A i \in (8 * blocks + 1)..Len(data) :
           all[i - 1] \in Register => all[i] = NarrowStep(p, data)[i][all[i - 1]]

LEMMA EightThenOneIs ==
  ASSUME NEW p \in Register, NEW crc \in Register, NEW data \in Seq(Byte), NEW wide, NEW all,
         TakesEightThenOne(wide, all, p, crc, data)
  PROVE  all[Len(data)] = Divide(p, crc, data)
<1> DEFINE blocks == Len(data) \div 8
           n == Len(data)
           F == WideStep(p, data)
           G == NarrowStep(p, data)
           m == 8 * blocks
<1>1. n \in Nat /\ blocks \in Nat /\ m \in Nat /\ m <= n /\ 0 <= blocks /\ 0 + 1 = 1 /\ 0 \in Nat
  OBVIOUS
<1>2. \A i \in 1..blocks, v \in Register : F[i][v] \in Register
  BY WideStepIs
<1>3. \A i \in (m + 1)..n, v \in Register : G[i][v] \in Register
  <2>1. \A i \in (m + 1)..n : i \in 1..n
    BY <1>1
  <2> QED BY <2>1, NarrowStepIs
<1>4. /\ wide = [i \in 0..blocks |-> wide[i]] /\ wide[0] = crc
      /\ \A i \in 1..blocks : wide[i - 1] \in Register => wide[i] = F[i][wide[i - 1]]
      /\ all = [i \in m..n |-> all[i]] /\ all[m] = wide[blocks]
      /\ \A i \in (m + 1)..n : all[i - 1] \in Register => all[i] = G[i][all[i - 1]]
  BY DEF TakesEightThenOne
<1> HIDE DEF blocks, F, G, n, m
<1>5. Chain(wide, Register, crc, 0, blocks, F)
  BY <1>1, <1>2, <1>4, ChainOf
<1>6. wide[blocks] = Divide(p, crc, SubSeq(data, 1, m)) /\ wide[blocks] \in Register
  <2>1. blocks \in 0..blocks
    BY <1>1
  <2>2. wide[blocks] = Divide(p, crc, SubSeq(data, 1, m))
    BY <1>5, <2>1, WideIs DEF blocks, F, m
  <2> QED BY <1>5, <2>1, <2>2 DEF Chain
<1>7. Chain(all, Register, wide[blocks], m, n, G)
  BY <1>1, <1>3, <1>4, <1>6, ChainOf
<1> QED BY <1>1, <1>6, <1>7, NarrowIs DEF n, G

\* There are such functions.
LEMMA EightThenOneExists ==
  ASSUME NEW p \in Register, NEW crc \in Register, NEW data \in Seq(Byte)
  PROVE  /\ \E wide : Chain(wide, Register, crc, 0, Len(data) \div 8, WideStep(p, data))
         /\ \A c \in Register : \E all :
              Chain(all, Register, c, 8 * (Len(data) \div 8), Len(data), NarrowStep(p, data))
<1> DEFINE blocks == Len(data) \div 8
           n == Len(data)
           F == WideStep(p, data)
           G == NarrowStep(p, data)
           m == 8 * blocks
<1>1. n \in Nat /\ blocks \in Nat /\ m \in Nat /\ m <= n /\ 0 <= blocks /\ 0 + 1 = 1 /\ 0 \in Nat
  OBVIOUS
<1>2. \A i \in 1..blocks, v \in Register : F[i][v] \in Register
  BY WideStepIs
<1>3. \A i \in (m + 1)..n, v \in Register : G[i][v] \in Register
  <2>1. \A i \in (m + 1)..n : i \in 1..n
    BY <1>1
  <2> QED BY <2>1, NarrowStepIs
<1> HIDE DEF blocks, F, G, n, m
<1>4. \E wide : Chain(wide, Register, crc, 0, blocks, F)
  BY <1>1, <1>2, ChainExists
<1>5. \A c \in Register : \E all : Chain(all, Register, c, m, n, G)
  BY <1>1, <1>3, ChainExists
<1> QED BY <1>4, <1>5 DEF blocks, F, G, n, m

\* One byte through the table.
LEMMA NarrowLookup ==
  ASSUME NEW p \in Word, NEW c \in Word, NEW b \in Byte
  PROVE  Xor(make_crc_table(p)[0][LowByte(Xor(c, b))], Shr(c, 8)) = ShiftBits(p, Xor(c, b), 8)
<1>1. Xor(c, b) \in Word
  BY ByteWord, XorWord
<1>2. make_crc_table(p)[0][LowByte(Xor(c, b))] = ShiftBits(p, LowByte(Xor(c, b)), 8)
  <2>1. 0 \in 0..7 /\ 8 * (0 + 1) = 8 /\ LowByte(Xor(c, b)) \in Byte
    BY <1>1, LowByteIs
  <2> QED BY <2>1, TableIs
<1>3. Shr(Xor(c, b), 8) = Shr(c, 8)
  <2>1. Shr(b, 8) = {}
    BY DEF Shr, Byte
  <2> QED BY <2>1, ByteWord, ShrXor, XorZero
<1> QED BY <1>1, <1>2, <1>3, ByteLookup, XorComm

\* crc_slice_by_8() divides.
LEMMA SliceIs ==
  ASSUME NEW p \in Register, NEW crc \in Register, NEW data \in Seq(Byte)
  PROVE  crc_slice_by_8(make_crc_table(p), crc, data) = Divide(p, crc, data)
<1> DEFINE table == make_crc_table(p)
           blocks == Len(data) \div 8
           WideBody(g) == [i \in 0..blocks |-> IF i = 0 THEN crc ELSE SliceStep(table, g[i - 1], data, 8 * (i - 1))]
           wide == CHOOSE g : g = WideBody(g)
           AllBody(g) == [i \in (8 * blocks)..Len(data) |->
                            IF i = 8 * blocks THEN wide[blocks]
                            ELSE Xor(table[0][LowByte(Xor(g[i - 1], data[i]))], Shr(g[i - 1], 8))]
           all == CHOOSE g : g = AllBody(g)
<1>1. crc_slice_by_8(table, crc, data) = all[Len(data)]
  BY DEF crc_slice_by_8, EightThenOne
<1>2. blocks \in Nat /\ 8 * blocks \in Nat /\ 8 * blocks <= Len(data) /\ Len(data) \in Nat
  OBVIOUS
<1>3. p \in Word
  BY RegisterWord
<1> HIDE DEF table, blocks
<1>4. ASSUME NEW i \in 1..blocks, NEW v \in Register
      PROVE  SliceStep(table, v, data, 8 * (i - 1)) = WideStep(p, data)[i][v]
  <2>1. v \subseteq 0..31 /\ \A j \in (8 * (i - 1) + 1)..(8 * (i - 1) + 8) : data[j] \in Byte
    BY WideStepIs DEF blocks, Register
  <2>2. 8 * (i - 1) \in Nat /\ WideStep(p, data)[i][v] = ShiftBits(p, Xor(v, LoadLE(data, 8 * (i - 1), 8)), 64)
    BY WideStepIs DEF blocks
  <2> QED BY <1>3, <2>1, <2>2, SliceStepIs DEF table
<1>5. ASSUME NEW i \in (8 * blocks + 1)..Len(data), NEW v \in Register
      PROVE  Xor(table[0][LowByte(Xor(v, data[i]))], Shr(v, 8)) = NarrowStep(p, data)[i][v]
  <2>1. i \in 1..Len(data) /\ data[i] \in Byte
    BY <1>2
  <2>2. NarrowStep(p, data)[i][v] = ShiftBits(p, Xor(v, data[i]), 8)
    BY <2>1, NarrowStepIs
  <2> QED BY <1>3, <2>1, <2>2, RegisterWord, NarrowLookup DEF table
<1>6. wide = WideBody(wide)
  <2>1. PICK g : Chain(g, Register, crc, 0, blocks, WideStep(p, data))
    BY EightThenOneExists DEF blocks
  <2>2. g = WideBody(g)
    <3>1. g \in [0..blocks -> Register] /\ g[0] = crc
      BY <2>1 DEF Chain
    <3>2. ASSUME NEW i \in 0..blocks, i # 0 PROVE g[i] = SliceStep(table, g[i - 1], data, 8 * (i - 1))
      <4>1. i \in (0 + 1)..blocks /\ i \in 1..blocks /\ i - 1 \in 0..blocks
        BY <1>2, <3>2
      <4>2. g[i] = WideStep(p, data)[i][g[i - 1]] /\ g[i - 1] \in Register
        BY <2>1, <3>1, <4>1 DEF Chain
      <4> QED BY <1>4, <4>1, <4>2
    <3> QED BY <3>1, <3>2
  <2> QED BY <2>2
<1> HIDE DEF wide
<1>7. /\ wide = [i \in 0..blocks |-> wide[i]] /\ wide[0] = crc
      /\ \A i \in 1..blocks : wide[i - 1] \in Register => wide[i] = WideStep(p, data)[i][wide[i - 1]]
  <2>1. wide[0] = crc /\ \A i \in 1..blocks : wide[i] = SliceStep(table, wide[i - 1], data, 8 * (i - 1))
    BY <1>2, <1>6
  <2>2. wide = [i \in 0..blocks |-> wide[i]]
    BY <1>6
  <2> QED BY <1>4, <2>1, <2>2
<1>8. wide[blocks] \in Register
  <2>1. \A i \in (0 + 1)..blocks, v \in Register : WideStep(p, data)[i][v] \in Register
    BY WideStepIs DEF blocks
  <2>2. 0 <= blocks /\ 0 \in Nat /\ 0 + 1 = 1 /\ blocks \in 0..blocks
    BY <1>2
  <2>3. Chain(wide, Register, crc, 0, blocks, WideStep(p, data))
    BY <1>2, <1>7, <2>1, <2>2, ChainOf
  <2> QED BY <2>2, <2>3 DEF Chain
<1>9. all = AllBody(all)
  <2>1. PICK g : Chain(g, Register, wide[blocks], 8 * blocks, Len(data), NarrowStep(p, data))
    BY <1>8, EightThenOneExists DEF blocks
  <2>2. g = AllBody(g)
    <3>1. g \in [(8 * blocks)..Len(data) -> Register] /\ g[8 * blocks] = wide[blocks]
      BY <2>1 DEF Chain
    <3>2. ASSUME NEW i \in (8 * blocks)..Len(data), i # 8 * blocks PROVE g[i] = Xor(table[0][LowByte(Xor(g[i - 1], data[i]))], Shr(g[i - 1], 8))
      <4>1. i \in (8 * blocks + 1)..Len(data) /\ i - 1 \in (8 * blocks)..Len(data)
        BY <1>2, <3>2
      <4>2. g[i] = NarrowStep(p, data)[i][g[i - 1]] /\ g[i - 1] \in Register
        BY <2>1, <3>1, <4>1 DEF Chain
      <4> QED BY <1>5, <4>1, <4>2
    <3> QED BY <3>1, <3>2
  <2> QED BY <2>2
<1> HIDE DEF all
<1>10. /\ all = [i \in (8 * blocks)..Len(data) |-> all[i]] /\ all[8 * blocks] = wide[blocks]
       /\ \A i \in (8 * blocks + 1)..Len(data) :
            all[i - 1] \in Register => all[i] = NarrowStep(p, data)[i][all[i - 1]]
  <2>1. all[8 * blocks] = wide[blocks] /\ \A i \in (8 * blocks + 1)..Len(data) : all[i] = Xor(table[0][LowByte(Xor(all[i - 1], data[i]))], Shr(all[i - 1], 8))
    BY <1>2, <1>9
  <2>2. all = [i \in (8 * blocks)..Len(data) |-> all[i]]
    BY <1>9
  <2> QED BY <1>5, <2>1, <2>2
<1>11. TakesEightThenOne(wide, all, p, crc, data)
  BY <1>7, <1>10 DEF TakesEightThenOne, blocks
<1>12. all[Len(data)] = Divide(p, crc, data)
  BY <1>11, EightThenOneIs
<1> QED BY <1>1, <1>12 DEF table

\* crc32c_hardware() divides by the polynomial of CRC-32C.
LEMMA HardwareIs ==
  ASSUME NEW crc \in Register, NEW data \in Seq(Byte), Polynomial(Crc32c) \in Register
  PROVE  crc32c_hardware(crc, data) = Divide(Polynomial(Crc32c), crc, data)
<1> DEFINE p == Polynomial(Crc32c)
           blocks == Len(data) \div 8
           WideBody(g) == [i \in 0..blocks |-> IF i = 0 THEN crc ELSE CrcInstruction(g[i - 1], LoadLE(data, 8 * (i - 1), 8), 64)]
           wide == CHOOSE g : g = WideBody(g)
           AllBody(g) == [i \in (8 * blocks)..Len(data) |->
                            IF i = 8 * blocks THEN wide[blocks] ELSE CrcInstruction(g[i - 1], data[i], 8)]
           all == CHOOSE g : g = AllBody(g)
<1>0. p \in Register
  OBVIOUS
<1>1. crc32c_hardware(crc, data) = all[Len(data)]
  BY DEF crc32c_hardware, EightThenOne
<1>2. blocks \in Nat /\ 8 * blocks \in Nat /\ 8 * blocks <= Len(data) /\ Len(data) \in Nat
  OBVIOUS
<1> HIDE DEF blocks, p
<1>4. ASSUME NEW i \in 1..blocks, NEW v \in Register
      PROVE  CrcInstruction(v, LoadLE(data, 8 * (i - 1), 8), 64) = WideStep(p, data)[i][v]
  <2>1. WideStep(p, data)[i][v] = ShiftBits(p, Xor(v, LoadLE(data, 8 * (i - 1), 8)), 64)
    BY <1>0, WideStepIs DEF blocks
  <2> QED BY <2>1 DEF CrcInstruction, p
<1>5. ASSUME NEW i \in (8 * blocks + 1)..Len(data), NEW v \in Register
      PROVE  CrcInstruction(v, data[i], 8) = NarrowStep(p, data)[i][v]
  <2>1. i \in 1..Len(data) /\ data[i] \in Byte
    BY <1>2
  <2>2. NarrowStep(p, data)[i][v] = ShiftBits(p, Xor(v, data[i]), 8)
    BY <1>0, <2>1, NarrowStepIs
  <2> QED BY <2>2 DEF CrcInstruction, p
<1>6. wide = WideBody(wide)
  <2>1. PICK g : Chain(g, Register, crc, 0, blocks, WideStep(p, data))
    BY <1>0, EightThenOneExists DEF blocks
  <2>2. g = WideBody(g)
    <3>1. g \in [0..blocks -> Register] /\ g[0] = crc
      BY <2>1 DEF Chain
    <3>2. ASSUME NEW i \in 0..blocks, i # 0 PROVE g[i] = CrcInstruction(g[i - 1], LoadLE(data, 8 * (i - 1), 8), 64)
      <4>1. i \in (0 + 1)..blocks /\ i \in 1..blocks /\ i - 1 \in 0..blocks
        BY <1>2, <3>2
      <4>2. g[i] = WideStep(p, data)[i][g[i - 1]] /\ g[i - 1] \in Register
        BY <2>1, <3>1, <4>1 DEF Chain
      <4> QED BY <1>4, <4>1, <4>2
    <3> QED BY <3>1, <3>2
  <2> QED BY <2>2
<1> HIDE DEF wide
<1>7. /\ wide = [i \in 0..blocks |-> wide[i]] /\ wide[0] = crc
      /\ \A i \in 1..blocks : wide[i - 1] \in Register => wide[i] = WideStep(p, data)[i][wide[i - 1]]
  <2>1. wide[0] = crc /\ \A i \in 1..blocks : wide[i] = CrcInstruction(wide[i - 1], LoadLE(data, 8 * (i - 1), 8), 64)
    BY <1>2, <1>6
  <2>2. wide = [i \in 0..blocks |-> wide[i]]
    BY <1>6
  <2> QED BY <1>4, <2>1, <2>2
<1>8. wide[blocks] \in Register
  <2>1. \A i \in (0 + 1)..blocks, v \in Register : WideStep(p, data)[i][v] \in Register
    BY <1>0, WideStepIs DEF blocks
  <2>2. 0 <= blocks /\ 0 \in Nat /\ 0 + 1 = 1 /\ blocks \in 0..blocks
    BY <1>2
  <2>3. Chain(wide, Register, crc, 0, blocks, WideStep(p, data))
    BY <1>2, <1>7, <2>1, <2>2, ChainOf
  <2> QED BY <2>2, <2>3 DEF Chain
<1>9. all = AllBody(all)
  <2>1. PICK g : Chain(g, Register, wide[blocks], 8 * blocks, Len(data), NarrowStep(p, data))
    BY <1>8, <1>0, EightThenOneExists DEF blocks
  <2>2. g = AllBody(g)
    <3>1. g \in [(8 * blocks)..Len(data) -> Register] /\ g[8 * blocks] = wide[blocks]
      BY <2>1 DEF Chain
    <3>2. ASSUME NEW i \in (8 * blocks)..Len(data), i # 8 * blocks PROVE g[i] = CrcInstruction(g[i - 1], data[i], 8)
      <4>1. i \in (8 * blocks + 1)..Len(data) /\ i - 1 \in (8 * blocks)..Len(data)
        BY <1>2, <3>2
      <4>2. g[i] = NarrowStep(p, data)[i][g[i - 1]] /\ g[i - 1] \in Register
        BY <2>1, <3>1, <4>1 DEF Chain
      <4> QED BY <1>5, <4>1, <4>2
    <3> QED BY <3>1, <3>2
  <2> QED BY <2>2
<1> HIDE DEF all
<1>10. /\ all = [i \in (8 * blocks)..Len(data) |-> all[i]] /\ all[8 * blocks] = wide[blocks]
       /\ \A i \in (8 * blocks + 1)..Len(data) :
            all[i - 1] \in Register => all[i] = NarrowStep(p, data)[i][all[i - 1]]
  <2>1. all[8 * blocks] = wide[blocks] /\ \A i \in (8 * blocks + 1)..Len(data) : all[i] = CrcInstruction(all[i - 1], data[i], 8)
    BY <1>2, <1>9
  <2>2. all = [i \in (8 * blocks)..Len(data) |-> all[i]]
    BY <1>9
  <2> QED BY <1>5, <2>1, <2>2
<1>11. TakesEightThenOne(wide, all, p, crc, data)
  BY <1>7, <1>10 DEF TakesEightThenOne, blocks
<1>12. all[Len(data)] = Divide(p, crc, data)
  BY <1>0, <1>11, EightThenOneIs
<1> QED BY <1>1, <1>12 DEF p

\* The bitwise definition divides byte by byte.
LEMMA ReferenceIs ==
  ASSUME NEW kind, NEW data \in Seq(Byte), Polynomial(kind) \in Register
  PROVE  ReferenceCrc(kind, data) = finish(Divide(Polynomial(kind), begin, data))
<1> DEFINE p == Polynomial(kind)
           n == Len(data)
           Body(g) == [i \in 0..n |-> IF i = 0 THEN begin ELSE ShiftBits(p, Xor(g[i - 1], data[i]), 8)]
           f == CHOOSE g : g = Body(g)
<1>0. p \in Register /\ begin \in Register /\ n \in Nat
  <2>1. begin \in Register
    BY DEF begin, Register
  <2> QED BY <2>1
<1>1. ReferenceCrc(kind, data) = finish(f[n])
  BY DEF ReferenceCrc
<1> HIDE DEF p, n
<1>2. ASSUME NEW i \in (0 + 1)..n, NEW v \in Register
      PROVE  NarrowStep(p, data)[i][v] = ShiftBits(p, Xor(v, data[i]), 8) /\ NarrowStep(p, data)[i][v] \in Register
  <2>1. i \in 1..Len(data)
    BY <1>0 DEF n
  <2> QED BY <1>0, <2>1, NarrowStepIs
<1>3. 0 \in Nat /\ 0 <= n /\ \A i \in (0 + 1)..n, v \in Register : NarrowStep(p, data)[i][v] \in Register
  BY <1>0, <1>2
<1>4. f = Body(f)
  <2>1. PICK g : Chain(g, Register, begin, 0, n, NarrowStep(p, data))
    BY <1>0, <1>3, ChainExists
  <2>2. g = Body(g)
    <3>1. g \in [0..n -> Register] /\ g[0] = begin
      BY <2>1 DEF Chain
    <3>2. ASSUME NEW i \in 0..n, i # 0 PROVE g[i] = ShiftBits(p, Xor(g[i - 1], data[i]), 8)
      <4>1. i \in (0 + 1)..n /\ i - 1 \in 0..n
        BY <1>0, <3>2
      <4>2. g[i] = NarrowStep(p, data)[i][g[i - 1]] /\ g[i - 1] \in Register
        BY <2>1, <3>1, <4>1 DEF Chain
      <4> QED BY <1>2, <4>1, <4>2
    <3> QED BY <3>1, <3>2
  <2> QED BY <2>2
<1> HIDE DEF f
<1>5. Chain(f, Register, begin, 0, n, NarrowStep(p, data))
  <2>1. f[0] = begin /\ \A i \in (0 + 1)..n : f[i] = ShiftBits(p, Xor(f[i - 1], data[i]), 8)
    BY <1>0, <1>4
  <2>2. f = [i \in 0..n |-> f[i]]
    BY <1>4
  <2>3. \A i \in (0 + 1)..n : f[i - 1] \in Register => f[i] = NarrowStep(p, data)[i][f[i - 1]]
    BY <1>2, <2>1
  <2> QED BY <1>0, <1>3, <2>1, <2>2, <2>3, ChainOf
<1>6. begin = Divide(p, begin, SubSeq(data, 1, 0))
  <2>1. SubSeq(data, 1, 0) = <<>>
    OBVIOUS
  <2> QED BY <1>0, <2>1, RegisterWord, DivideNothing
<1>7. f[Len(data)] = Divide(p, begin, data)
  BY <1>0, <1>3, <1>5, <1>6, NarrowIs DEF n
<1> QED BY <1>1, <1>7 DEF n, p

LEMMA PolynomialRegister == ASSUME NEW kind PROVE Polynomial(kind) \in Register
  BY DEF Polynomial, Register

\* Whatever the producer or the consumer uses, update() divides.
LEMMA UpdateIs ==
  ASSUME NEW kind \in Kinds, NEW hardware \in BOOLEAN, NEW crc \in Register, NEW data \in Seq(Byte)
  PROVE  /\ update(kind, hardware, crc, data) = Divide(Polynomial(kind), crc, data)
         /\ update(kind, hardware, crc, data) \in Register
<1> DEFINE p == Polynomial(kind)
<1>1. p \in Register /\ Polynomial(Crc32) \in Register /\ Polynomial(Crc32c) \in Register
  BY PolynomialRegister
<1>2. update(kind, hardware, crc, data) = Divide(p, crc, data)
  <2>1. CASE kind = Crc32
    <3>1. update(kind, hardware, crc, data) = crc_slice_by_8(kCrc32Table, crc, data)
      BY <2>1 DEF update, Crc32, Crc32c
    <3> QED BY <1>1, <2>1, <3>1, SliceIs DEF kCrc32Table
  <2>2. CASE kind = Crc32c /\ hardware
    <3>1. update(kind, hardware, crc, data) = crc32c_hardware(crc, data)
      BY <2>2 DEF update, Crc32, Crc32c
    <3> QED BY <1>1, <2>2, <3>1, HardwareIs
  <2>3. CASE kind = Crc32c /\ ~hardware
    <3>1. update(kind, hardware, crc, data) = crc_slice_by_8(kCrc32cTable, crc, data)
      BY <2>3 DEF update, Crc32, Crc32c
    <3> QED BY <1>1, <2>3, <3>1, SliceIs DEF kCrc32cTable
  <2> QED BY <2>1, <2>2, <2>3 DEF Kinds
<1>3. Divide(p, crc, data) \in Register
  <2> HIDE DEF p
  <2> DEFINE w == WordOf(data)
             n == 8 * Len(data)
  <2>1. w \subseteq 0..(n - 1) /\ n \in Nat
    BY WordOfBit
  <2>2. Divide(p, crc, data) = ShiftBits(p, Xor(crc, w), n)
    BY DEF Divide
  <2> HIDE DEF w, n
  <2>3. w \subseteq 0..(31 + n) /\ crc \subseteq 0..(31 + n)
    BY <2>1 DEF Register
  <2>4. Xor(crc, w) \subseteq 0..(31 + n)
    BY <2>3 DEF Xor
  <2>5. ShiftBits(p, Xor(crc, w), n) \subseteq 0..31
    BY <1>1, <2>1, <2>4, ShiftBitsNarrow DEF Register
  <2> QED BY <2>2, <2>5 DEF Register
<1> QED BY <1>2, <1>3

-----------------------------------------------------------------------------
(* Payload generators.                                                      *)

LEMMA HighPowers == ASSUME NEW b \in 8..30 PROVE 2^b \in Nat /\ 2^b >= 256
<1> DEFINE powers == {2^8, 2^9, 2^10, 2^11, 2^12, 2^13, 2^14, 2^15, 2^16, 2^17,
                      2^18, 2^19, 2^20, 2^21, 2^22, 2^23, 2^24, 2^25, 2^26, 2^27, 2^28, 2^29, 2^30}
<1>1. \A x \in powers : x \in Nat /\ x >= 256
  BY SMT
<1>2. b \in {8, 9, 10, 11, 12, 13, 14, 15, 16, 17, 18, 19, 20, 21, 22, 23, 24, 25, 26, 27, 28, 29, 30}
  BY SMT
<1>3. 2^b \in powers
  BY <1>2, Zenon
<1> HIDE DEF powers
<1> QED BY <1>1, <1>3, Zenon

LEMMA ToBitsWord == ASSUME NEW n PROVE ToBits(n) \subseteq 0..30 /\ ToBits(n) \in Word
  BY DEF ToBits, Word

LEMMA ToBitsByte == ASSUME NEW n \in 0..255 PROVE ToBits(n) \in Byte
<1>1. ASSUME NEW b \in 8..30 PROVE (n \div 2^b) % 2 # 1
  <2> DEFINE d == 2^b
  <2>1. d \in Nat /\ d >= 256
    BY HighPowers
  <2> HIDE DEF d
  <2>2. n \div d = 0
    BY <2>1
  <2>3. (n \div d) % 2 = 0
    BY <2>2
  <2> QED BY <2>3 DEF d
<1>2. ASSUME NEW b \in ToBits(n) PROVE b \in 0..7
  <2>1. b \in 0..30 /\ (n \div 2^b) % 2 = 1
    BY Zenon DEF ToBits
  <2>2. b \notin 8..30
    BY <1>1, <2>1, Zenon
  <2> QED BY <2>1, <2>2
<1> QED BY <1>2 DEF Byte

\* Quotients and remainders by the block size.
LEMMA DivModUnique ==
  ASSUME NEW d \in Nat \ {0}, NEW q \in Int, NEW r \in 0..(d - 1), NEW x \in Int, x = q * d + r
  PROVE  x \div d = q /\ x % d = r
  BY SMT

LEMMA WholeBlocks ==
  ASSUME NEW d \in Nat \ {0}, NEW q \in Nat, NEW x \in Nat
  PROVE  /\ (q * d + x) \div d = q + x \div d /\ (q * d + x) % d = x % d
         /\ q * d \in Nat /\ x \div d \in Nat /\ x % d \in Nat
<1> DEFINE k == x \div d
           r == x % d
<1>1. k \in Nat /\ r \in 0..(d - 1) /\ x = d * k + r
  BY SMT
<1>2. q * d \in Nat /\ (q + k) * d = q * d + k * d /\ k * d = d * k
  BY <1>1, SMT
<1> HIDE DEF k, r
<1>3. q * d + x = (q + k) * d + r /\ q * d + x \in Int /\ q + k \in Int
  BY <1>1, <1>2
<1>4. (q * d + x) \div d = q + k /\ (q * d + x) % d = r
  BY <1>1, <1>3, DivModUnique
<1> QED BY <1>1, <1>2, <1>4 DEF k, r

Counting(k, j) == [i \in 1..j |-> ToBits((k + i - 1) % 256)]

LEMMA CountingBytes ==
  ASSUME NEW k \in Nat, NEW j \in Nat
  PROVE  Counting(k, j) \in Seq(Byte) /\ Len(Counting(k, j)) = j
<1>1. ASSUME NEW i \in 1..j PROVE ToBits((k + i - 1) % 256) \in Byte
  <2>1. (k + i - 1) % 256 \in 0..255
    OBVIOUS
  <2> QED BY <2>1, ToBitsByte
<1> QED BY <1>1 DEF Counting

\* One fill() in the place of two.
Joins(whole, one, two) == whole.bytes = one.bytes \o two.bytes /\ whole.gen = two.gen

\* fill() of one piece after the other is fill() of the whole, if the pieces before
\* the last are whole blocks; a fill() of something moves the sequential counter
\* unless it comes round, and the random generator always.
LEMMA SequentialPieces ==
  ASSUME NEW g \in 0..255, NEW m \in Nat, NEW n \in Nat
  PROVE  /\ SequentialFill(g, m).bytes \in Seq(Byte) /\ Len(SequentialFill(g, m).bytes) = m
         /\ SequentialFill(g, m).gen \in 0..255
         /\ Joins(SequentialFill(g, m + n), SequentialFill(g, m), SequentialFill(SequentialFill(g, m).gen, n))
         /\ m \in 1..255 => SequentialFill(g, m).gen # g
<1> DEFINE h == (g + m) % 256
           a == [i \in 1..m |-> ToBits((g + i - 1) % 256)]
           b == [i \in 1..n |-> ToBits((h + i - 1) % 256)]
           c == [i \in 1..(m + n) |-> ToBits((g + i - 1) % 256)]
<1>1. /\ SequentialFill(g, m).bytes = a /\ SequentialFill(g, m).gen = h
      /\ SequentialFill(h, n).bytes = b /\ SequentialFill(h, n).gen = (h + n) % 256
      /\ SequentialFill(g, m + n).bytes = c /\ SequentialFill(g, m + n).gen = (g + (m + n)) % 256
  BY DEF SequentialFill
<1>2. h \in 0..255 /\ (h + n) % 256 = (g + (m + n)) % 256 /\ (m \in 1..255 => h # g)
  <2>1. h \in 0..255
    OBVIOUS
  <2>2. (h + n) % 256 = (g + (m + n)) % 256
    OBVIOUS
  <2>3. m \in 1..255 => h # g
    OBVIOUS
  <2> QED BY <2>1, <2>2, <2>3
<1> HIDE DEF h
<1>5. a \in Seq(Byte) /\ Len(a) = m /\ b \in Seq(Byte) /\ Len(b) = n /\ c \in Seq(Byte) /\ Len(c) = m + n
  <2>1. g \in Nat /\ h \in Nat /\ m + n \in Nat
    BY <1>2
  <2>2. a = Counting(g, m) /\ b = Counting(h, n) /\ c = Counting(g, m + n)
    BY DEF Counting
  <2> HIDE DEF a, b, c
  <2> QED BY <2>1, <2>2, CountingBytes
<1>6. ASSUME NEW i \in 1..n PROVE b[i] = ToBits((g + (m + i) - 1) % 256)
  <2>1. (h + i - 1) % 256 = (g + (m + i) - 1) % 256
    BY DEF h
  <2> QED BY <2>1
<1>7. c = a \o b
  <2> DEFINE e == a \o b
  <2>1. e \in Seq(Byte) /\ Len(e) = m + n
    BY <1>5
  <2>2. ASSUME NEW i \in 1..(m + n) PROVE c[i] = e[i]
    <3>1. CASE i <= m
      BY <1>5, <3>1
    <3>2. CASE i > m
      <4>1. i - m \in 1..n /\ m + (i - m) = i
        BY <3>2
      <4>2. e[i] = b[i - m]
        BY <1>5, <3>2, <4>1
      <4> HIDE DEF b, e
      <4> QED BY <1>6, <4>1, <4>2
    <3> QED BY <3>1, <3>2
  <2> HIDE DEF c, e
  <2>3. c = e
    BY <1>5, <2>1, <2>2, SameSeq
  <2> QED BY <2>3 DEF e
<1> HIDE DEF a, b, c
<1> QED BY <1>1, <1>2, <1>5, <1>7 DEF Joins

LEMMA RandomBytes ==
  ASSUME NEW g \in Nat, NEW n \in Nat
  PROVE  RandomFill(g, n).bytes \in Seq(Byte) /\ Len(RandomFill(g, n).bytes) = n
<1> DEFINE b == [i \in 1..n |-> Output(g + (i - 1) \div kBlockBytes, (i - 1) % kBlockBytes)]
<1>1. RandomFill(g, n).bytes = b
  BY DEF RandomFill
<1>2. ASSUME NEW i \in 1..n PROVE Output(g + (i - 1) \div kBlockBytes, (i - 1) % kBlockBytes) \in Byte
  <2> DEFINE k == g + (i - 1) \div kBlockBytes
             j == (i - 1) % kBlockBytes
             x == (kBlockBytes * k + j) * 73
  <2>1. k \in Nat /\ j \in Nat
    BY WholeBlocks, IntegrityAssumption
  <2>2. x \in Nat
    <3> HIDE DEF k, j
    <3>1. kBlockBytes * k \in Nat
      BY <2>1, IntegrityAssumption
    <3> QED BY <2>1, <3>1
  <2> HIDE DEF x
  <2>3. x % 256 \in 0..255
    BY <2>2
  <2>4. ToBits(x % 256) \in Byte
    BY <2>3, ToBitsByte
  <2> QED BY <2>4 DEF Output, x
<1>3. b \in Seq(Byte) /\ Len(b) = n
  BY <1>2
<1> QED BY <1>1, <1>3

LEMMA RandomPieces ==
  ASSUME NEW g \in Nat, NEW q \in Nat, NEW n \in Nat
  PROVE  /\ LET m == q * kBlockBytes
            IN  Joins(RandomFill(g, m + n), RandomFill(g, m), RandomFill(RandomFill(g, m).gen, n))
         /\ RandomFill(g, n).gen \in Nat
         /\ n > 0 => RandomFill(g, n).gen # g
<1> DEFINE d == kBlockBytes
           m == q * d
           h == g + q
           a == RandomFill(g, m).bytes
           b == RandomFill(h, n).bytes
           c == RandomFill(g, m + n).bytes
<1>0. d \in Nat \ {0} /\ d - 1 \in Nat
  BY IntegrityAssumption
<1>1. m \in Nat /\ m + n \in Nat /\ h \in Nat
  BY <1>0
<1>2. RandomFill(g, m).gen = h
  <2>1. RandomFill(g, m).gen = g + (m + d - 1) \div d
    BY DEF RandomFill
  <2>2. m + d - 1 = q * d + (d - 1) /\ (d - 1) \div d = 0
    BY <1>0, <1>1
  <2>3. (q * d + (d - 1)) \div d = q + (d - 1) \div d
    BY <1>0, WholeBlocks
  <2> QED BY <2>1, <2>2, <2>3
<1>3. /\ RandomFill(h, n).gen = h + (n + d - 1) \div d
      /\ RandomFill(g, m + n).gen = g + ((m + n) + d - 1) \div d
      /\ RandomFill(g, n).gen = g + (n + d - 1) \div d
  BY DEF RandomFill
<1>4. ((m + n) + d - 1) \div d = q + (n + d - 1) \div d /\ (n + d - 1) \div d \in Nat
  <2> DEFINE x == n + d - 1
  <2>1. x \in Nat /\ (m + n) + d - 1 = q * d + x
    BY <1>0, <1>1
  <2> HIDE DEF x
  <2>2. (q * d + x) \div d = q + x \div d /\ x \div d \in Nat
    BY <1>0, <2>1, WholeBlocks
  <2> QED BY <2>1, <2>2 DEF x
<1>5. n > 0 => (n + d - 1) \div d > 0
  <2> SUFFICES ASSUME n > 0 PROVE (n + d - 1) \div d > 0
    OBVIOUS
  <2>1. n + d - 1 = 1 * d + (n - 1) /\ n - 1 \in Nat
    BY <1>0
  <2> QED BY <1>0, <2>1, WholeBlocks
<1>6. /\ a \in Seq(Byte) /\ Len(a) = m /\ b \in Seq(Byte) /\ Len(b) = n
      /\ c \in Seq(Byte) /\ Len(c) = m + n
  BY <1>1, RandomBytes
<1>7. /\ \A i \in 1..m : a[i] = Output(g + (i - 1) \div d, (i - 1) % d)
      /\ \A i \in 1..n : b[i] = Output(h + (i - 1) \div d, (i - 1) % d)
      /\ \A i \in 1..(m + n) : c[i] = Output(g + (i - 1) \div d, (i - 1) % d)
  BY DEF RandomFill
<1> DEFINE e == a \o b
<1> HIDE DEF a, b, c, d, h
<1>8. c = e
  <2>1. e \in Seq(Byte) /\ Len(e) = m + n
    BY <1>6
  <2>2. ASSUME NEW i \in 1..(m + n) PROVE c[i] = e[i]
    <3>1. CASE i <= m
      <4>1. i \in 1..m /\ e[i] = a[i]
        BY <1>1, <1>6, <3>1
      <4> QED BY <1>7, <4>1
    <3>2. CASE i > m
      <4> DEFINE j == i - m
      <4>1. j \in 1..n /\ j - 1 \in Nat /\ e[i] = b[j] /\ i - 1 = q * d + (j - 1)
        BY <1>1, <1>6, <3>2
      <4>2. (i - 1) \div d = q + (j - 1) \div d /\ (i - 1) % d = (j - 1) % d /\ (j - 1) \div d \in Nat
        <5> DEFINE y == j - 1
        <5>1. y \in Nat /\ i - 1 = q * d + y
          BY <4>1
        <5> HIDE DEF y
        <5>2. (q * d + y) \div d = q + y \div d /\ (q * d + y) % d = y % d /\ y \div d \in Nat
          BY <1>0, <5>1, WholeBlocks
        <5> QED BY <5>1, <5>2 DEF y
      <4>3. g + (i - 1) \div d = h + (j - 1) \div d
        BY <4>2 DEF h
      <4>4. b[j] = Output(h + (j - 1) \div d, (j - 1) % d) /\ c[i] = Output(g + (i - 1) \div d, (i - 1) % d)
        BY <1>7, <4>1
      <4> QED BY <4>1, <4>2, <4>3, <4>4
    <3>3. i <= m \/ i > m
      <4> HIDE DEF m
      <4> QED BY <1>1
    <3> QED BY <3>1, <3>2, <3>3
  <2> HIDE DEF e
  <2> QED BY <1>6, <2>1, <2>2, SameSeq
<1>9. g + (q + (n + d - 1) \div d) = h + (n + d - 1) \div d /\ h \in Nat
  BY <1>1, <1>4 DEF h
<1>10. /\ RandomFill(g, m + n).gen = RandomFill(h, n).gen
       /\ RandomFill(g, n).gen \in Nat
       /\ n > 0 => RandomFill(g, n).gen # g
  BY <1>3, <1>4, <1>5, <1>9
<1> QED BY <1>2, <1>8, <1>10 DEF a, b, c, d, Joins

-----------------------------------------------------------------------------
(* The header and its fields.                                               *)

LEMMA BytesIs ==
  ASSUME NEW w \in Word, NEW n \in Nat
  PROVE  /\ Bytes(w, n) \in Seq(Byte) /\ Len(Bytes(w, n)) = n
         /\ \A j \in 0..(n - 1) : Bytes(w, n)[1 + j] = ByteAt(w, j)
<1>1. \A i \in 1..n : ByteAt(w, i - 1) \in Byte
  BY ByteAtBit
<1>2. Bytes(w, n) \in Seq(Byte) /\ Len(Bytes(w, n)) = n
  BY <1>1 DEF Bytes
<1>3. ASSUME NEW j \in 0..(n - 1) PROVE Bytes(w, n)[1 + j] = ByteAt(w, j)
  <2>1. 1 + j \in 1..n /\ (1 + j) - 1 = j
    OBVIOUS
  <2> QED BY <2>1 DEF Bytes
<1> QED BY <1>2, <1>3

\* data holds the little-endian bytes of w after the first at bytes.
Holds(data, at, w, n) == \A j \in 0..(n - 1) : data[at + 1 + j] = ByteAt(w, j)

\* What is read from there is w.
LEMMA LoadHolds ==
  ASSUME NEW data, NEW at \in Nat, NEW n \in Nat, NEW w \in SUBSET (0..(8 * n - 1)), Holds(data, at, w, n)
  PROVE  LoadLE(data, at, n) = w
<1>0. w \in Word /\ \A j \in 0..(n - 1) : j \in Nat
  BY DEF Word
<1>1. ASSUME NEW j \in (at + 1)..(at + n) PROVE data[j] \in Byte
  <2> DEFINE k == j - at - 1
  <2>1. k \in 0..(n - 1) /\ k \in Nat /\ at + 1 + k = j
    OBVIOUS
  <2> HIDE DEF k
  <2>2. data[at + 1 + k] = ByteAt(w, k) /\ ByteAt(w, k) \in Byte
    BY <1>0, <2>1, ByteAtBit DEF Holds
  <2> QED BY <2>1, <2>2
<1>2. /\ LoadLE(data, at, n) \in Word
      /\ \A x \in Nat : x \in LoadLE(data, at, n) <=> x < 8 * n /\ x % 8 \in data[at + 1 + x \div 8]
  BY <1>1, LoadBit
<1>3. ASSUME NEW x \in Nat PROVE x \in LoadLE(data, at, n) <=> x \in w
  <2> DEFINE k == x \div 8
             r == x % 8
  <2>1. k \in Nat /\ r \in 0..7 /\ r \in Nat /\ x = r + 8 * k
    OBVIOUS
  <2>2. CASE x < 8 * n
    <3>1. k \in 0..(n - 1)
      BY <2>2
    <3>2. x \in LoadLE(data, at, n) <=> r \in data[at + 1 + k]
      BY <1>2, <2>2
    <3> HIDE DEF k, r
    <3>3. data[at + 1 + k] = ByteAt(w, k)
      BY <3>1 DEF Holds
    <3>4. r \in ByteAt(w, k) <=> r + 8 * k \in w
      BY <1>0, <2>1, ByteAtBit
    <3> QED BY <2>1, <3>2, <3>3, <3>4
  <2>3. CASE ~ (x < 8 * n)
    BY <1>2, <2>3
  <2> QED BY <2>2, <2>3
<1> QED BY <1>0, <1>2, <1>3, WordEqual

LEMMA CatIs ==
  ASSUME NEW a \in Seq(Byte), NEW b \in Seq(Byte)
  PROVE  /\ a \o b \in Seq(Byte) /\ Len(a \o b) = Len(a) + Len(b)
         /\ \A i \in 1..Len(a) : (a \o b)[i] = a[i]
         /\ \A i \in 1..Len(b) : (a \o b)[Len(a) + i] = b[i]
  OBVIOUS

\* Where the pieces of a header are.
PiecesAt(h, b1, b2, b3, b4, b5, b6, b7, b8) ==
  /\ h \in Seq(Byte)
  /\ Len(h) = Len(b1) + Len(b2) + Len(b3) + Len(b4) + Len(b5) + Len(b6) + Len(b7) + Len(b8)
  /\ \A i \in 1..Len(b1) : h[i] = b1[i]
  /\ \A i \in 1..Len(b2) : h[Len(b1) + i] = b2[i]
  /\ \A i \in 1..Len(b3) : h[Len(b1) + Len(b2) + i] = b3[i]
  /\ \A i \in 1..Len(b4) : h[Len(b1) + Len(b2) + Len(b3) + i] = b4[i]
  /\ \A i \in 1..Len(b5) : h[Len(b1) + Len(b2) + Len(b3) + Len(b4) + i] = b5[i]
  /\ \A i \in 1..Len(b6) : h[Len(b1) + Len(b2) + Len(b3) + Len(b4) + Len(b5) + i] = b6[i]

LEMMA PiecesIs ==
  ASSUME NEW b1 \in Seq(Byte), NEW b2 \in Seq(Byte), NEW b3 \in Seq(Byte), NEW b4 \in Seq(Byte),
         NEW b5 \in Seq(Byte), NEW b6 \in Seq(Byte), NEW b7 \in Seq(Byte), NEW b8 \in Seq(Byte)
  PROVE  PiecesAt(b1 \o b2 \o b3 \o b4 \o b5 \o b6 \o b7 \o b8, b1, b2, b3, b4, b5, b6, b7, b8)
<1> DEFINE h == b1 \o b2 \o b3 \o b4 \o b5 \o b6 \o b7 \o b8
<1> DEFINE h2 == b1 \o b2
           h3 == h2 \o b3
           h4 == h3 \o b4
           h5 == h4 \o b5
           h6 == h5 \o b6
           h7 == h6 \o b7
           h8 == h7 \o b8
<1> HIDE DEF h
<1>1. /\ h2 \in Seq(Byte) /\ Len(h2) = Len(b1) + Len(b2)
      /\ \A i \in 1..Len(b1) : h2[i] = b1[i]
      /\ \A i \in 1..Len(b2) : h2[Len(b1) + i] = b2[i]
  BY CatIs
<1> HIDE DEF h2
<1>2. /\ h3 \in Seq(Byte) /\ Len(h3) = Len(h2) + Len(b3)
      /\ \A i \in 1..Len(h2) : h3[i] = h2[i]
      /\ \A i \in 1..Len(b3) : h3[Len(h2) + i] = b3[i]
  BY <1>1, CatIs
<1> HIDE DEF h3
<1>3. /\ h4 \in Seq(Byte) /\ Len(h4) = Len(h3) + Len(b4)
      /\ \A i \in 1..Len(h3) : h4[i] = h3[i]
      /\ \A i \in 1..Len(b4) : h4[Len(h3) + i] = b4[i]
  BY <1>2, CatIs
<1> HIDE DEF h4
<1>4. /\ h5 \in Seq(Byte) /\ Len(h5) = Len(h4) + Len(b5)
      /\ \A i \in 1..Len(h4) : h5[i] = h4[i]
      /\ \A i \in 1..Len(b5) : h5[Len(h4) + i] = b5[i]
  BY <1>3, CatIs
<1> HIDE DEF h5
<1>5. /\ h6 \in Seq(Byte) /\ Len(h6) = Len(h5) + Len(b6)
      /\ \A i \in 1..Len(h5) : h6[i] = h5[i]
      /\ \A i \in 1..Len(b6) : h6[Len(h5) + i] = b6[i]
  BY <1>4, CatIs
<1> HIDE DEF h6
<1>6. /\ h7 \in Seq(Byte) /\ Len(h7) = Len(h6) + Len(b7)
      /\ \A i \in 1..Len(h6) : h7[i] = h6[i]
      /\ \A i \in 1..Len(b7) : h7[Len(h6) + i] = b7[i]
  BY <1>5, CatIs
<1> HIDE DEF h7
<1>7. /\ h8 \in Seq(Byte) /\ Len(h8) = Len(h7) + Len(b8)
      /\ \A i \in 1..Len(h7) : h8[i] = h7[i]
      /\ \A i \in 1..Len(b8) : h8[Len(h7) + i] = b8[i]
  BY <1>6, CatIs
<1> HIDE DEF h8
<1>8. h = h8
  BY DEF h, h2, h3, h4, h5, h6, h7, h8
<1>9. /\ Len(b1) \in Nat /\ Len(b2) \in Nat /\ Len(b3) \in Nat /\ Len(b4) \in Nat
      /\ Len(b5) \in Nat /\ Len(b6) \in Nat /\ Len(b7) \in Nat /\ Len(b8) \in Nat
  OBVIOUS
<1>10. /\ Len(h2) = Len(b1) + Len(b2)
       /\ Len(h3) = Len(b1) + Len(b2) + Len(b3)
       /\ Len(h4) = Len(b1) + Len(b2) + Len(b3) + Len(b4)
       /\ Len(h5) = Len(b1) + Len(b2) + Len(b3) + Len(b4) + Len(b5)
       /\ Len(h) = Len(b1) + Len(b2) + Len(b3) + Len(b4) + Len(b5) + Len(b6) + Len(b7) + Len(b8)
  BY <1>1, <1>2, <1>3, <1>4, <1>5, <1>6, <1>7, <1>8, <1>9
<1>11. /\ Len(h2) \in Nat /\ Len(b1) <= Len(h2)
       /\ Len(h3) \in Nat /\ Len(h2) <= Len(h3)
       /\ Len(h4) \in Nat /\ Len(h3) <= Len(h4)
       /\ Len(h5) \in Nat /\ Len(h4) <= Len(h5)
       /\ Len(h6) \in Nat /\ Len(h5) <= Len(h6)
       /\ Len(h7) \in Nat /\ Len(h6) <= Len(h7)
  <2>1. Len(h2) \in Nat /\ Len(b1) <= Len(h2)
    BY <1>1, <1>9
  <2>2. Len(h3) \in Nat /\ Len(h2) <= Len(h3)
    BY <1>2, <1>9, <2>1
  <2>3. Len(h4) \in Nat /\ Len(h3) <= Len(h4)
    BY <1>3, <1>9, <2>2
  <2>4. Len(h5) \in Nat /\ Len(h4) <= Len(h5)
    BY <1>4, <1>9, <2>3
  <2>5. Len(h6) \in Nat /\ Len(h5) <= Len(h6)
    BY <1>5, <1>9, <2>4
  <2>6. Len(h7) \in Nat /\ Len(h6) <= Len(h7)
    BY <1>6, <1>9, <2>5
  <2> QED BY <2>1, <2>2, <2>3, <2>4, <2>5, <2>6
<1>12. /\ \A i \in 1..Len(h6) : h[i] = h6[i]
       /\ \A i \in 1..Len(h5) : h[i] = h5[i]
       /\ \A i \in 1..Len(h4) : h[i] = h4[i]
       /\ \A i \in 1..Len(h3) : h[i] = h3[i]
       /\ \A i \in 1..Len(h2) : h[i] = h2[i]
       /\ \A i \in 1..Len(b1) : h[i] = b1[i]
  <2>1. /\ 1..Len(b1) \subseteq 1..Len(h2) /\ 1..Len(h2) \subseteq 1..Len(h3) /\ 1..Len(h3) \subseteq 1..Len(h4)
        /\ 1..Len(h4) \subseteq 1..Len(h5) /\ 1..Len(h5) \subseteq 1..Len(h6) /\ 1..Len(h6) \subseteq 1..Len(h7)
    BY <1>9, <1>11
  <2>2. \A i \in 1..Len(h7) : h[i] = h7[i]
    BY <1>7, <1>8, Zenon
  <2>3. \A i \in 1..Len(h6) : h[i] = h6[i]
    BY <1>6, <2>1, <2>2, Zenon
  <2>4. \A i \in 1..Len(h5) : h[i] = h5[i]
    BY <1>5, <2>1, <2>3, Zenon
  <2>5. \A i \in 1..Len(h4) : h[i] = h4[i]
    BY <1>4, <2>1, <2>4, Zenon
  <2>6. \A i \in 1..Len(h3) : h[i] = h3[i]
    BY <1>3, <2>1, <2>5, Zenon
  <2>7. \A i \in 1..Len(h2) : h[i] = h2[i]
    BY <1>2, <2>1, <2>6, Zenon
  <2>8. \A i \in 1..Len(b1) : h[i] = b1[i]
    BY <1>1, <2>1, <2>7, Zenon
  <2> QED BY <2>3, <2>4, <2>5, <2>6, <2>7, <2>8
<1>13. ASSUME NEW i \in 1..Len(b2) PROVE h[Len(b1) + i] = b2[i]
  <2>1. Len(b1) + i \in 1..Len(h2)
    BY <1>1, <1>9, <1>9
  <2> QED BY <1>1, <1>12, <2>1, Zenon
<1>14. ASSUME NEW i \in 1..Len(b3) PROVE h[Len(h2) + i] = b3[i]
  <2>1. Len(h2) + i \in 1..Len(h3)
    BY <1>2, <1>9, <1>1
  <2> QED BY <1>2, <1>12, <2>1, Zenon
<1>15. ASSUME NEW i \in 1..Len(b4) PROVE h[Len(h3) + i] = b4[i]
  <2>1. Len(h3) + i \in 1..Len(h4)
    BY <1>3, <1>9, <1>2
  <2> QED BY <1>3, <1>12, <2>1, Zenon
<1>16. ASSUME NEW i \in 1..Len(b5) PROVE h[Len(h4) + i] = b5[i]
  <2>1. Len(h4) + i \in 1..Len(h5)
    BY <1>4, <1>9, <1>3
  <2> QED BY <1>4, <1>12, <2>1, Zenon
<1>17. ASSUME NEW i \in 1..Len(b6) PROVE h[Len(h5) + i] = b6[i]
  <2>1. Len(h5) + i \in 1..Len(h6)
    BY <1>5, <1>9, <1>4
  <2> QED BY <1>5, <1>12, <2>1, Zenon
<1> QED BY <1>7, <1>8, <1>10, <1>12, <1>13, <1>14, <1>15, <1>16, <1>17 DEF PiecesAt, h

\* What a header holds; its checksum field is clear.
HeaderHolds(rec, size, kind) ==
  /\ Holds(rec, 0, ToBits(kPacketMagic), 4)
  /\ Holds(rec, 4, ToBits(kPacketVersion), 1)
  /\ Holds(rec, 5, ToBits(kind), 1)
  /\ Holds(rec, 6, ToBits(kHeaderSize), 2)
  /\ Holds(rec, 8, ToBits(size), 4)

LEMMA HoldsBytes ==
  ASSUME NEW h, NEW w \in Word, NEW n \in Nat, NEW at \in Nat, \A i \in 1..n : h[at + i] = Bytes(w, n)[i]
  PROVE  Holds(h, at, w, n)
<1>1. ASSUME NEW j \in 0..(n - 1) PROVE h[at + 1 + j] = ByteAt(w, j)
  <2>1. 1 + j \in 1..n /\ at + 1 + j = at + (1 + j)
    OBVIOUS
  <2>2. h[at + (1 + j)] = Bytes(w, n)[1 + j]
    BY <2>1
  <2> QED BY <2>1, <2>2, BytesIs
<1> QED BY <1>1 DEF Holds

LEMMA HeaderIs ==
  ASSUME NEW size, NEW kind, NEW seq
  PROVE  /\ write_header(size, kind, seq) \in Seq(Byte)
         /\ Len(write_header(size, kind, seq)) = kHeaderSize
         /\ HeaderHolds(write_header(size, kind, seq), size, kind)
         /\ Holds(write_header(size, kind, seq), ChecksumAt, {}, 4)
<1> DEFINE w1 == ToBits(kPacketMagic)
           w2 == ToBits(kPacketVersion)
           w3 == ToBits(kind)
           w4 == ToBits(kHeaderSize)
           w5 == ToBits(size)
           w6 == {}
           w7 == ToBits(seq)
           b1 == Bytes(w1, 4)
           b2 == Bytes(w2, 1)
           b3 == Bytes(w3, 1)
           b4 == Bytes(w4, 2)
           b5 == Bytes(w5, 4)
           b6 == Bytes(w6, 4)
           b7 == Bytes(w7, 8)
           h == write_header(size, kind, seq)
<1>0. h = b1 \o b2 \o b3 \o b4 \o b5 \o b6 \o b7 \o b7
  BY DEF write_header
<1>1. w1 \in Word /\ w2 \in Word /\ w3 \in Word /\ w4 \in Word /\ w5 \in Word /\ w6 \in Word /\ w7 \in Word
  BY ToBitsWord DEF Word
<1> HIDE DEF w1, w2, w3, w4, w5, w6, w7, h
<1>2. /\ b1 \in Seq(Byte) /\ b2 \in Seq(Byte) /\ b3 \in Seq(Byte) /\ b4 \in Seq(Byte)
      /\ b5 \in Seq(Byte) /\ b6 \in Seq(Byte) /\ b7 \in Seq(Byte)
  BY <1>1, BytesIs
<1>3. /\ Len(b1) = 4 /\ Len(b2) = 1 /\ Len(b3) = 1 /\ Len(b4) = 2
      /\ Len(b5) = 4 /\ Len(b6) = 4 /\ Len(b7) = 8
  BY <1>1, BytesIs
<1> HIDE DEF b1, b2, b3, b4, b5, b6, b7
<1>4. /\ h \in Seq(Byte)
      /\ Len(h) = Len(b1) + Len(b2) + Len(b3) + Len(b4) + Len(b5) + Len(b6) + Len(b7) + Len(b7)
      /\ \A i \in 1..Len(b1) : h[i] = b1[i]
      /\ \A i \in 1..Len(b2) : h[Len(b1) + i] = b2[i]
      /\ \A i \in 1..Len(b3) : h[Len(b1) + Len(b2) + i] = b3[i]
      /\ \A i \in 1..Len(b4) : h[Len(b1) + Len(b2) + Len(b3) + i] = b4[i]
      /\ \A i \in 1..Len(b5) : h[Len(b1) + Len(b2) + Len(b3) + Len(b4) + i] = b5[i]
      /\ \A i \in 1..Len(b6) : h[Len(b1) + Len(b2) + Len(b3) + Len(b4) + Len(b5) + i] = b6[i]
  <2>1. PiecesAt(h, b1, b2, b3, b4, b5, b6, b7, b7)
    BY <1>0, <1>2, PiecesIs
  <2> QED BY <2>1, Zenon DEF PiecesAt
<1>5. Len(h) = 32
  BY <1>3, <1>4
<1>6. /\ \A i \in 1..4 : h[0 + i] = b1[i]
      /\ \A i \in 1..1 : h[4 + i] = b2[i]
      /\ \A i \in 1..1 : h[5 + i] = b3[i]
      /\ \A i \in 1..2 : h[6 + i] = b4[i]
      /\ \A i \in 1..4 : h[8 + i] = b5[i]
      /\ \A i \in 1..4 : h[12 + i] = b6[i]
  BY <1>3, <1>4
<1>7. Holds(h, 0, w1, 4)
  BY <1>1, <1>6, HoldsBytes DEF b1
<1>8. Holds(h, 4, w2, 1)
  BY <1>1, <1>6, HoldsBytes DEF b2
<1>9. Holds(h, 5, w3, 1)
  BY <1>1, <1>6, HoldsBytes DEF b3
<1>10. Holds(h, 6, w4, 2)
  BY <1>1, <1>6, HoldsBytes DEF b4
<1>11. Holds(h, 8, w5, 4)
  BY <1>1, <1>6, HoldsBytes DEF b5
<1>12. Holds(h, 12, w6, 4)
  BY <1>1, <1>6, HoldsBytes DEF b6
<1> QED BY <1>4, <1>5, <1>7, <1>8, <1>9, <1>10, <1>11, <1>12
        DEF HeaderHolds, ChecksumAt, kHeaderSize, h, w1, w2, w3, w4, w5, w6

-----------------------------------------------------------------------------
(* The checksum field.                                                      *)

LEMMA ByteAtZero == ASSUME NEW j \in Nat PROVE ByteAt({}, j) = {}
  BY DEF ByteAt, LowByte, Shr

LEMMA FinishRegister == ASSUME NEW s \in Register PROVE finish(s) \in Register
  BY DEF finish, Register, Xor

\* patch_checksum() writes the field and nothing else.
LEMMA PatchIs ==
  ASSUME NEW rec \in Seq(Byte), NEW c \in Word
  PROVE  /\ patch_checksum(rec, c) \in Seq(Byte) /\ Len(patch_checksum(rec, c)) = Len(rec)
         /\ \A i \in 1..Len(rec) : i \notin 13..16 => patch_checksum(rec, c)[i] = rec[i]
         /\ \A i \in 1..Len(rec) : i \in 13..16 => patch_checksum(rec, c)[i] = ByteAt(c, i - 13)
<1> DEFINE v(i) == IF i \in 13..16 THEN ByteAt(c, i - 13) ELSE rec[i]
           q == [i \in 1..Len(rec) |-> v(i)]
<1>1. patch_checksum(rec, c) = q
  <2>1. DOMAIN rec = 1..Len(rec) /\ (ChecksumAt + 1)..(ChecksumAt + 4) = 13..16
    BY DEF ChecksumAt
  <2>2. \A i \in 1..Len(rec) : i - ChecksumAt - 1 = i - 13
    BY DEF ChecksumAt
  <2> QED BY <2>1, <2>2 DEF patch_checksum
<1>2. ASSUME NEW i \in 1..Len(rec) PROVE v(i) \in Byte
  <2>1. CASE i \in 13..16
    <3>1. i - 13 \in Nat
      BY <2>1
    <3>2. ByteAt(c, i - 13) \in Byte
      BY <3>1, ByteAtBit
    <3> QED BY <2>1, <3>2
  <2>2. CASE i \notin 13..16
    BY <2>2
  <2> QED BY <2>1, <2>2
<1>3. q \in Seq(Byte) /\ Len(q) = Len(rec) /\ \A i \in 1..Len(rec) : q[i] = v(i)
  <2> HIDE DEF v
  <2>1. Len(rec) \in Nat
    OBVIOUS
  <2> QED BY <1>2, <2>1
<1> HIDE DEF q
<1> QED BY <1>1, <1>3

\* What is held before the field stays, and the field holds the checksum.
LEMMA PatchHolds ==
  ASSUME NEW rec \in Seq(Byte), 16 <= Len(rec), NEW c \in Word
  PROVE  /\ Holds(patch_checksum(rec, c), ChecksumAt, c, 4)
         /\ \A w : \A at \in Nat, n \in Nat : at + n <= 12 /\ Holds(rec, at, w, n) => Holds(patch_checksum(rec, c), at, w, n)
<1> DEFINE q == patch_checksum(rec, c)
<1>1. /\ \A i \in 1..Len(rec) : i \notin 13..16 => q[i] = rec[i]
      /\ \A i \in 1..Len(rec) : i \in 13..16 => q[i] = ByteAt(c, i - 13)
  BY PatchIs
<1> HIDE DEF q
<1>2. ASSUME NEW j \in 0..3 PROVE q[12 + 1 + j] = ByteAt(c, j)
  <2>1. 12 + 1 + j \in 1..Len(rec) /\ 12 + 1 + j \in 13..16 /\ (12 + 1 + j) - 13 = j
    OBVIOUS
  <2> QED BY <1>1, <2>1
<1>3. ASSUME NEW at \in Nat, NEW n \in Nat, NEW w, at + n <= 12, Holds(rec, at, w, n), NEW j \in 0..(n - 1)
      PROVE  q[at + 1 + j] = ByteAt(w, j)
  <2>1. at + 1 + j \in 1..Len(rec) /\ at + 1 + j \notin 13..16
    BY <1>3
  <2>2. q[at + 1 + j] = rec[at + 1 + j]
    BY <1>1, <2>1
  <2> QED BY <1>3, <2>2 DEF Holds
<1>4. Holds(q, 12, c, 4)
  BY <1>2 DEF Holds
<1>5. ASSUME NEW at \in Nat, NEW n \in Nat, NEW w, at + n <= 12, Holds(rec, at, w, n)
      PROVE  Holds(q, at, w, n)
  BY <1>3, <1>5 DEF Holds
<1> QED BY <1>4, <1>5 DEF q, ChecksumAt

\* Clearing the field takes the checksum out again.
LEMMA PatchBack ==
  ASSUME NEW rec \in Seq(Byte), 16 <= Len(rec), Holds(rec, ChecksumAt, {}, 4), NEW c \in Word
  PROVE  patch_checksum(patch_checksum(rec, c), {}) = rec
<1> DEFINE q == patch_checksum(rec, c)
           r == patch_checksum(q, {})
<1>0. {} \in Word
  BY DEF Word
<1>1. q \in Seq(Byte) /\ Len(q) = Len(rec) /\ \A i \in 1..Len(rec) : i \notin 13..16 => q[i] = rec[i]
  BY PatchIs
<1> HIDE DEF q
<1>2. /\ r \in Seq(Byte) /\ Len(r) = Len(q)
      /\ \A i \in 1..Len(q) : i \notin 13..16 => r[i] = q[i]
      /\ \A i \in 1..Len(q) : i \in 13..16 => r[i] = ByteAt({}, i - 13)
  BY <1>0, <1>1, PatchIs
<1> HIDE DEF r
<1>3. ASSUME NEW i \in 1..Len(rec) PROVE r[i] = rec[i]
  <2>1. CASE i \notin 13..16
    BY <1>1, <1>2, <2>1
  <2>2. CASE i \in 13..16
    <3> DEFINE j == i - 13
    <3>1. j \in 0..3 /\ i = 12 + 1 + j
      BY <2>2
    <3>2. r[i] = ByteAt({}, j)
      BY <1>1, <1>2, <2>2
    <3> HIDE DEF j
    <3>3. rec[12 + 1 + j] = ByteAt({}, j)
      BY <3>1 DEF Holds, ChecksumAt
    <3> QED BY <3>1, <3>2, <3>3
  <2> QED BY <2>1, <2>2
<1>4. Len(r) = Len(rec) /\ \A i \in 1..Len(r) : r[i] = rec[i]
  BY <1>1, <1>2, <1>3
<1>5. r = rec
  BY <1>2, <1>4, SameSeq
<1> QED BY <1>5 DEF q, r

-----------------------------------------------------------------------------
(* A sealed record.                                                         *)

LEMMA KindFields ==
  ASSUME NEW kind \in Kinds
  PROVE  {k \in Kinds : ToBits(k) = ToBits(kind)} = {kind}
<1>1. 0 \in 0..30 /\ 2^0 = 1 /\ 1 \div 1 = 1 /\ 2 \div 1 = 2 /\ 1 % 2 = 1 /\ 2 % 2 = 0
  BY SMT
<1>2. 0 \in ToBits(1) /\ 0 \notin ToBits(2)
  BY <1>1 DEF ToBits
<1> QED BY <1>2 DEF Kinds, Crc32, Crc32c

\* Each field of the header fits its width.
LEMMA FieldWidths ==
  ASSUME NEW kind \in Kinds, NEW size
  PROVE  /\ ToBits(kPacketMagic) \in SUBSET (0..(8 * 4 - 1)) /\ ToBits(size) \in SUBSET (0..(8 * 4 - 1))
         /\ ToBits(kPacketVersion) \in SUBSET (0..(8 * 1 - 1)) /\ ToBits(kind) \in SUBSET (0..(8 * 1 - 1))
         /\ ToBits(kHeaderSize) \in SUBSET (0..(8 * 2 - 1))
<1>1. 0..30 \subseteq 0..(8 * 4 - 1) /\ 0..7 = 0..(8 * 1 - 1) /\ 0..7 \subseteq 0..(8 * 2 - 1)
  OBVIOUS
<1>2. kPacketVersion \in 0..255 /\ kind \in 0..255 /\ kHeaderSize \in 0..255
  BY DEF kPacketVersion, kHeaderSize, Kinds, Crc32, Crc32c
<1>3. ToBits(kPacketVersion) \in Byte /\ ToBits(kind) \in Byte /\ ToBits(kHeaderSize) \in Byte
  BY <1>2, ToBitsByte
<1>4. ToBits(kPacketMagic) \subseteq 0..30 /\ ToBits(size) \subseteq 0..30
  BY ToBitsWord
<1> QED BY <1>1, <1>3, <1>4, Zenon DEF Byte

\* The whole record with a checksum in its field.
Seal(kind, rec) == patch_checksum(rec, finish(Divide(Polynomial(kind), begin, rec)))

LEMMA DivideRegister ==
  ASSUME NEW kind \in Kinds, NEW crc \in Register, NEW data \in Seq(Byte)
  PROVE  Divide(Polynomial(kind), crc, data) \in Register
<1>1. TRUE \in BOOLEAN
  OBVIOUS
<1>2. update(kind, TRUE, crc, data) = Divide(Polynomial(kind), crc, data) /\ update(kind, TRUE, crc, data) \in Register
  BY <1>1, UpdateIs
<1> QED BY <1>2

LEMMA SubSeqIs ==
  ASSUME NEW s \in Seq(Byte), NEW m \in Nat, NEW n \in Nat, m <= n, n <= Len(s)
  PROVE  /\ SubSeq(s, m + 1, n) \in Seq(Byte) /\ Len(SubSeq(s, m + 1, n)) = n - m
         /\ \A i \in 1..(n - m) : SubSeq(s, m + 1, n)[i] = s[m + i]
<1>1. /\ SubSeq(s, m + 1, n) \in Seq(Byte)
      /\ Len(SubSeq(s, m + 1, n)) = IF m + 1 <= n THEN n - (m + 1) + 1 ELSE 0
      /\ \A i \in 1..(n - (m + 1) + 1) : SubSeq(s, m + 1, n)[i] = s[(m + 1) + i - 1]
  OBVIOUS
<1>2. \A i \in 1..(n - m) : i \in 1..(n - (m + 1) + 1) /\ (m + 1) + i - 1 = m + i
  OBVIOUS
<1> QED BY <1>1, <1>2

\* What packet_checksum() computes of a record with any checksum in its field.
LEMMA PacketChecksumIs ==
  ASSUME NEW kind \in Kinds, NEW hardware \in BOOLEAN, NEW rec \in Seq(Byte), kHeaderSize <= Len(rec)
  PROVE  packet_checksum(rec, kind, hardware) = finish(Divide(Polynomial(kind), begin, patch_checksum(rec, {})))
<1> DEFINE q == patch_checksum(rec, {})
           h == SubSeq(q, 1, kHeaderSize)
           b == SubSeq(rec, kHeaderSize + 1, Len(rec))
           p == Polynomial(kind)
<1>0. {} \in Word /\ begin \in Register /\ kHeaderSize \in Nat /\ kHeaderSize = 32
  BY DEF Word, begin, Register, kHeaderSize
<1>1. q \in Seq(Byte) /\ Len(q) = Len(rec) /\ \A i \in 1..Len(rec) : i \notin 13..16 => q[i] = rec[i]
  BY <1>0, PatchIs
<1> HIDE DEF q, p
<1>2. /\ h \in Seq(Byte) /\ Len(h) = kHeaderSize /\ \A i \in 1..kHeaderSize : h[i] = q[i]
      /\ b \in Seq(Byte) /\ Len(b) = Len(rec) - kHeaderSize
      /\ \A i \in 1..(Len(rec) - kHeaderSize) : b[i] = rec[kHeaderSize + i]
  <2> DEFINE k == kHeaderSize
  <2>1. k \in Nat /\ k <= Len(q) /\ 0 \in Nat /\ 0 <= k /\ 0 + 1 = 1 /\ k - 0 = k /\ Len(rec) \in Nat
    BY <1>0, <1>1
  <2>2. \A i \in 1..k : 0 + i = i
    BY <2>1
  <2> HIDE DEF k
  <2>3. /\ SubSeq(q, 0 + 1, k) \in Seq(Byte) /\ Len(SubSeq(q, 0 + 1, k)) = k - 0
        /\ \A i \in 1..(k - 0) : SubSeq(q, 0 + 1, k)[i] = q[0 + i]
    BY <1>1, <2>1, SubSeqIs
  <2>4. /\ SubSeq(q, 1, k) \in Seq(Byte) /\ Len(SubSeq(q, 1, k)) = k
        /\ \A i \in 1..k : SubSeq(q, 1, k)[i] = q[i]
    BY <2>1, <2>2, <2>3
  <2>5. /\ SubSeq(rec, k + 1, Len(rec)) \in Seq(Byte) /\ Len(SubSeq(rec, k + 1, Len(rec))) = Len(rec) - k
        /\ \A i \in 1..(Len(rec) - k) : SubSeq(rec, k + 1, Len(rec))[i] = rec[k + i]
    BY <1>1, <2>1, SubSeqIs
  <2> QED BY <2>4, <2>5 DEF k
<1>3. packet_checksum(rec, kind, hardware) = finish(update(kind, hardware, update(kind, hardware, begin, h), b))
  BY DEF packet_checksum, q
<1> HIDE DEF h, b
<1>4. q = h \o b
  <2> DEFINE e == h \o b
  <2>1. e \in Seq(Byte) /\ Len(e) = Len(h) + Len(b)
        /\ (\A i \in 1..Len(h) : e[i] = h[i]) /\ (\A i \in 1..Len(b) : e[Len(h) + i] = b[i])
    BY <1>2, CatIs
  <2> HIDE DEF e
  <2>2. ASSUME NEW i \in 1..Len(q) PROVE q[i] = e[i]
    <3>1. CASE i <= kHeaderSize
      <4>1. i \in 1..kHeaderSize
        BY <1>0, <3>1
      <4> QED BY <1>2, <2>1, <4>1
    <3>2. CASE i > kHeaderSize
      <4> DEFINE j == i - kHeaderSize
      <4>1. j \in 1..(Len(rec) - kHeaderSize) /\ i = kHeaderSize + j /\ i \in 1..Len(rec) /\ i \notin 13..16
        BY <1>0, <1>1, <3>2
      <4> HIDE DEF j
      <4>2. q[i] = rec[i] /\ rec[i] = b[j] /\ e[i] = b[j]
        BY <1>1, <1>2, <2>1, <4>1
      <4> QED BY <4>2
    <3> QED BY <1>0, <3>1, <3>2
  <2>3. Len(q) = Len(e)
    BY <1>0, <1>1, <1>2, <2>1
  <2>4. q = e
    BY <1>1, <2>1, <2>2, <2>3, SameSeq
  <2> QED BY <2>4 DEF e
<1>5. update(kind, hardware, begin, h) = Divide(p, begin, h) /\ update(kind, hardware, begin, h) \in Register
  BY <1>0, <1>2, UpdateIs DEF p
<1>6. update(kind, hardware, update(kind, hardware, begin, h), b) = Divide(p, Divide(p, begin, h), b)
  BY <1>2, <1>5, UpdateIs DEF p
<1>7. Divide(p, begin, h \o b) = Divide(p, Divide(p, begin, h), b)
  BY <1>0, <1>2, RegisterWord, PolynomialRegister, DivideCat DEF p
<1> QED BY <1>3, <1>4, <1>6, <1>7 DEF p, q

\* What read_header() finds.
FieldsRight(rec, size, kind) ==
  /\ Field(rec, 0, 4) = ToBits(kPacketMagic) /\ Field(rec, 4, 1) = ToBits(kPacketVersion)
  /\ Field(rec, 5, 1) = ToBits(kind) /\ Field(rec, 6, 2) = ToBits(kHeaderSize) /\ Field(rec, 8, 4) = ToBits(size)

\* Nothing is wrong with a sealed record, and its field holds the division of the
\* record with the field clear.
LEMMA SealIs ==
  ASSUME NEW kind \in Kinds, NEW rec \in Seq(Byte), kHeaderSize <= Len(rec),
         HeaderHolds(rec, Len(rec) - kHeaderSize, kind), Holds(rec, ChecksumAt, {}, 4)
  PROVE  /\ Seal(kind, rec) \in Seq(Byte) /\ Len(Seal(kind, rec)) = Len(rec)
         /\ \A i \in 1..Len(rec) : i > kHeaderSize => Seal(kind, rec)[i] = rec[i]
         /\ patch_checksum(Seal(kind, rec), {}) = rec
         /\ FieldsRight(Seal(kind, rec), Len(rec) - kHeaderSize, kind)
         /\ \A hardware \in BOOLEAN : Defects(Seal(kind, rec), hardware) = {}
         /\ Field(Seal(kind, rec), ChecksumAt, 4) = ReferenceCrc(kind, rec)
<1> DEFINE p == Polynomial(kind)
           c == finish(Divide(p, begin, rec))
           q == Seal(kind, rec)
           size == Len(rec) - kHeaderSize
<1>0. begin \in Register /\ kHeaderSize \in Nat /\ kHeaderSize = 32 /\ 16 <= Len(rec) /\ ChecksumAt = 12
  BY DEF begin, Register, kHeaderSize, ChecksumAt
<1>1. c \in Register /\ c \in Word
  BY <1>0, DivideRegister, FinishRegister, RegisterWord
<1>2. q = patch_checksum(rec, c)
  BY DEF Seal
<1> HIDE DEF q, c, p
<1>3. /\ q \in Seq(Byte) /\ Len(q) = Len(rec)
      /\ \A i \in 1..Len(rec) : i \notin 13..16 => q[i] = rec[i]
  BY <1>1, <1>2, PatchIs
<1>4. ASSUME NEW i \in 1..Len(rec), i > kHeaderSize PROVE q[i] = rec[i]
  <2>1. i \notin 13..16
    BY <1>0, <1>4
  <2> QED BY <1>3, <2>1
<1>5. patch_checksum(q, {}) = rec
  BY <1>0, <1>1, <1>2, PatchBack
<1>6. Holds(q, 12, c, 4) /\ \A w : \A at \in Nat, n \in Nat : at + n <= 12 /\ Holds(rec, at, w, n) => Holds(q, at, w, n)
  BY <1>0, <1>1, <1>2, PatchHolds
<1>7. Field(q, ChecksumAt, 4) = c
  <2>1. c \in SUBSET (0..(8 * 4 - 1))
    BY <1>1 DEF Register
  <2> QED BY <1>0, <1>6, <2>1, LoadHolds DEF Field
<1>8. ReferenceCrc(kind, rec) = c
  BY PolynomialRegister, ReferenceIs DEF c, p
<1>9. /\ Field(q, 0, 4) = ToBits(kPacketMagic) /\ Field(q, 4, 1) = ToBits(kPacketVersion)
      /\ Field(q, 5, 1) = ToBits(kind) /\ Field(q, 6, 2) = ToBits(kHeaderSize) /\ Field(q, 8, 4) = ToBits(size)
  <2> HIDE DEF size
  <2> DEFINE w1 == ToBits(kPacketMagic)
             w2 == ToBits(kPacketVersion)
             w3 == ToBits(kind)
             w4 == ToBits(kHeaderSize)
             w5 == ToBits(size)
  <2>1. /\ w1 \in SUBSET (0..(8 * 4 - 1)) /\ w5 \in SUBSET (0..(8 * 4 - 1))
        /\ w2 \in SUBSET (0..(8 * 1 - 1)) /\ w3 \in SUBSET (0..(8 * 1 - 1))
        /\ w4 \in SUBSET (0..(8 * 2 - 1))
    BY FieldWidths
  <2>2. Holds(rec, 0, w1, 4) /\ Holds(rec, 4, w2, 1) /\ Holds(rec, 5, w3, 1) /\ Holds(rec, 6, w4, 2) /\ Holds(rec, 8, w5, 4)
    BY DEF HeaderHolds, size
  <2> HIDE DEF w1, w2, w3, w4, w5
  <2>3. Holds(q, 0, w1, 4) /\ Holds(q, 4, w2, 1) /\ Holds(q, 5, w3, 1) /\ Holds(q, 6, w4, 2) /\ Holds(q, 8, w5, 4)
    BY <1>6, <2>2
  <2>4. LoadLE(q, 0, 4) = w1
    BY <2>1, <2>3, LoadHolds
  <2>5. LoadLE(q, 4, 1) = w2
    BY <2>1, <2>3, LoadHolds
  <2>6. LoadLE(q, 5, 1) = w3
    BY <2>1, <2>3, LoadHolds
  <2>7. LoadLE(q, 6, 2) = w4
    BY <2>1, <2>3, LoadHolds
  <2>8. LoadLE(q, 8, 4) = w5
    BY <2>1, <2>3, LoadHolds
  <2> QED BY <2>4, <2>5, <2>6, <2>7, <2>8 DEF Field, w1, w2, w3, w4, w5
<1>10. ASSUME NEW hardware \in BOOLEAN PROVE Defects(q, hardware) = {}
  <2>1. packet_checksum(q, kind, hardware) = c
    <3>1. kHeaderSize <= Len(q)
      BY <1>3
    <3>2. packet_checksum(q, kind, hardware) = finish(Divide(p, begin, patch_checksum(q, {})))
      BY <1>3, <3>1, PacketChecksumIs DEF p
    <3> QED BY <1>5, <3>2 DEF c
  <2>2. {k \in Kinds : ToBits(k) = Field(q, 5, 1)} = {kind}
    BY <1>9, KindFields, Zenon
  <2>3. Len(q) - kHeaderSize = size
    BY <1>3
  <2> HIDE DEF size
  <2> QED BY <1>7, <1>9, <2>1, <2>2, <2>3, Zenon DEF Defects
<1> QED BY <1>3, <1>4, <1>5, <1>7, <1>8, <1>9, <1>10 DEF q, FieldsRight

-----------------------------------------------------------------------------
(* fill() of either generator.                                              *)

Generators == {"random", "sequential"}

\* The states of a generator: next_ is a byte.
GenOK(generator, g) == g \in Nat /\ (generator # "random" => g \in 0..255)

LEMMA FillIs ==
  ASSUME NEW generator \in Generators, NEW g, GenOK(generator, g), NEW n \in Nat
  PROVE  /\ fill(generator, g, n).bytes \in Seq(Byte) /\ Len(fill(generator, g, n).bytes) = n
         /\ GenOK(generator, fill(generator, g, n).gen)
         /\ n \in 1..255 => fill(generator, g, n).gen # g
<1>1. CASE generator = "random"
  <2>1. g \in Nat /\ 0 \in Nat /\ fill(generator, g, n) = RandomFill(g, n)
    BY <1>1 DEF fill, GenOK
  <2>2. RandomFill(g, n).bytes \in Seq(Byte) /\ Len(RandomFill(g, n).bytes) = n
    BY <2>1, RandomBytes
  <2>3. RandomFill(g, n).gen \in Nat /\ (n > 0 => RandomFill(g, n).gen # g)
    BY <2>1, RandomPieces
  <2> QED BY <1>1, <2>1, <2>2, <2>3 DEF GenOK
<1>2. CASE generator # "random"
  <2>1. g \in 0..255 /\ 0 \in Nat /\ fill(generator, g, n) = SequentialFill(g, n)
    BY <1>2 DEF fill, GenOK
  <2>2. /\ SequentialFill(g, n).bytes \in Seq(Byte) /\ Len(SequentialFill(g, n).bytes) = n
        /\ SequentialFill(g, n).gen \in 0..255
        /\ n \in 1..255 => SequentialFill(g, n).gen # g
    BY <2>1, SequentialPieces
  <2>3. \A x \in 0..255 : x \in Nat
    OBVIOUS
  <2> QED BY <1>2, <2>1, <2>2, <2>3, Zenon DEF GenOK
<1> QED BY <1>1, <1>2

LEMMA FillNothing ==
  ASSUME NEW generator \in Generators, NEW g, GenOK(generator, g)
  PROVE  fill(generator, g, 0).bytes = <<>> /\ fill(generator, g, 0).gen = g
<1>0. 0 \in Nat /\ fill(generator, g, 0).bytes \in Seq(Byte) /\ Len(fill(generator, g, 0).bytes) = 0
  BY FillIs
<1>1. CASE generator = "random"
  <2>1. g \in Nat /\ fill(generator, g, 0).gen = g + (0 + kBlockBytes - 1) \div kBlockBytes
    BY <1>1 DEF fill, GenOK, RandomFill
  <2>2. (0 + kBlockBytes - 1) \div kBlockBytes = 0
    BY IntegrityAssumption
  <2> QED BY <1>0, <2>1, <2>2
<1>2. CASE generator # "random"
  <2>1. g \in 0..255 /\ fill(generator, g, 0).gen = (g + 0) % 256
    BY <1>2 DEF fill, GenOK, SequentialFill
  <2>2. (g + 0) % 256 = g
    BY <2>1
  <2>3. fill(generator, g, 0).bytes = <<>>
    BY <1>0
  <2> QED BY <2>1, <2>2, <2>3
<1> QED BY <1>1, <1>2

LEMMA FillPieces ==
  ASSUME NEW generator \in Generators, NEW g, GenOK(generator, g), NEW m \in Nat, NEW n \in Nat, m % kBlockBytes = 0
  PROVE  Joins(fill(generator, g, m + n), fill(generator, g, m), fill(generator, fill(generator, g, m).gen, n))
<1>1. CASE generator = "random"
  <2> DEFINE q == m \div kBlockBytes
             k == q * kBlockBytes
  <2>1. g \in Nat /\ q \in Nat /\ m = k
    BY <1>1, IntegrityAssumption DEF GenOK
  <2> HIDE DEF q
  <2>2. Joins(RandomFill(g, k + n), RandomFill(g, k), RandomFill(RandomFill(g, k).gen, n))
    BY <2>1, RandomPieces
  <2> HIDE DEF k
  <2> QED BY <1>1, <2>1, <2>2 DEF fill
<1>2. CASE generator # "random"
  <2>1. g \in 0..255
    BY <1>2 DEF GenOK
  <2>2. Joins(SequentialFill(g, m + n), SequentialFill(g, m), SequentialFill(SequentialFill(g, m).gen, n))
    BY <2>1, SequentialPieces
  <2> QED BY <1>2, <2>2 DEF fill
<1> QED BY <1>1, <1>2

-----------------------------------------------------------------------------
(* The inductive invariant.                                                 *)

Header == write_header(run.size, run.kind, sequence)

\* The first n bytes of the payload of the current packet, from one fill().
Payload(n) == fill(run.generator, first, n)

Plain(n) == Header \o Payload(n).bytes

TypeOK ==
  /\ run \in [size : PayloadSizes, kind : Kinds, generator : Generators, hardware : BOOLEAN]
  /\ GenOK(run.generator, gen) /\ GenOK(run.generator, first)
  /\ phase \in {"idle", "fill", "sealed", "damaged"}

\* While n bytes of payload are written they are those of one fill(), all blocks
\* but the last are whole, and the running checksum is the division of the record.
Filling ==
  phase = "fill" =>
    \E n \in 0..run.size :
      /\ n = run.size \/ n % kBlockBytes = 0
      /\ record = Plain(n)
      /\ gen = Payload(n).gen
      /\ state = Divide(Polynomial(run.kind), begin, record)

Sealed ==
  phase = "sealed" =>
    /\ record = Seal(run.kind, Plain(run.size))
    /\ gen = Payload(run.size).gen

IInv == TypeOK /\ Filling /\ Sealed

LEMMA PlainIs ==
  ASSUME TypeOK, NEW n \in Nat
  PROVE  /\ run.size \in Nat /\ run.kind \in Kinds /\ run.generator \in Generators /\ run.hardware \in BOOLEAN
         /\ Header \in Seq(Byte) /\ Len(Header) = kHeaderSize
         /\ Payload(n).bytes \in Seq(Byte) /\ Len(Payload(n).bytes) = n
         /\ GenOK(run.generator, Payload(n).gen)
         /\ n \in 1..255 => Payload(n).gen # first
         /\ Plain(n) \in Seq(Byte) /\ Len(Plain(n)) = kHeaderSize + n
         /\ \A i \in 1..n : Plain(n)[kHeaderSize + i] = Payload(n).bytes[i]
         /\ HeaderHolds(Plain(n), run.size, run.kind)
         /\ Holds(Plain(n), ChecksumAt, {}, 4)
<1> DEFINE h == Header
           b == Payload(n).bytes
           s == run.size
           k == run.kind
<1>1. s \in Nat /\ k \in Kinds /\ run.generator \in Generators /\ run.hardware \in BOOLEAN
  BY IntegrityAssumption DEF TypeOK
<1>2. h \in Seq(Byte) /\ Len(h) = kHeaderSize /\ HeaderHolds(h, s, k) /\ Holds(h, ChecksumAt, {}, 4)
  BY HeaderIs DEF Header
<1>3. b \in Seq(Byte) /\ Len(b) = n /\ GenOK(run.generator, Payload(n).gen) /\ (n \in 1..255 => Payload(n).gen # first)
  BY <1>1, FillIs DEF Payload, TypeOK
<1> DEFINE e == h \o b
<1>4. e = Plain(n)
  BY DEF Plain
<1> HIDE DEF h, b, s, k
<1>5. /\ e \in Seq(Byte) /\ Len(e) = Len(h) + Len(b)
      /\ \A i \in 1..Len(h) : e[i] = h[i]
      /\ \A i \in 1..Len(b) : e[Len(h) + i] = b[i]
  BY <1>2, <1>3, CatIs
<1> HIDE DEF e
<1>6. ASSUME NEW at \in Nat, NEW m \in Nat, NEW w, at + m <= 32, Holds(h, at, w, m) PROVE Holds(e, at, w, m)
  <2>1. ASSUME NEW j \in 0..(m - 1) PROVE e[at + 1 + j] = ByteAt(w, j)
    <3>1. Len(h) = 32
      BY <1>2 DEF kHeaderSize
    <3>2. at + 1 + j \in 1..Len(h)
      BY <1>6, <3>1
    <3>3. e[at + 1 + j] = h[at + 1 + j]
      BY <1>5, <3>2
    <3> QED BY <1>6, <3>3 DEF Holds
  <2> QED BY <2>1 DEF Holds
<1>7. HeaderHolds(e, s, k) /\ Holds(e, ChecksumAt, {}, 4)
  BY <1>2, <1>6 DEF HeaderHolds, ChecksumAt
<1> QED BY <1>1, <1>2, <1>3, <1>4, <1>5, <1>7 DEF h, b, s, k

-----------------------------------------------------------------------------
(* Invariance.                                                              *)

LEMMA CatAssoc ==
  ASSUME NEW a \in Seq(Byte), NEW b \in Seq(Byte), NEW c \in Seq(Byte)
  PROVE  (a \o b) \o c = a \o (b \o c)
  OBVIOUS

LEMMA InitIInv == Init => IInv
<1> SUFFICES ASSUME Init PROVE IInv
  OBVIOUS
<1>1. TypeOK
  BY DEF Init, TypeOK, GenOK, Generators
<1>2. Filling /\ Sealed
  BY DEF Init, Filling, Sealed
<1> QED BY <1>1, <1>2 DEF IInv

LEMMA BeginIInv == ASSUME IInv, Begin PROVE IInv'
<1>0. TypeOK /\ 0 \in Nat
  BY DEF IInv
<1>1. TypeOK'
  BY DEF IInv, TypeOK, Begin
<1>2. /\ run.size \in Nat /\ run.kind \in Kinds /\ run.generator \in Generators /\ run.hardware \in BOOLEAN
      /\ Header \in Seq(Byte) /\ Len(Header) = kHeaderSize
  BY <1>0, PlainIs
<1> DEFINE h == Header
<1>3. /\ record' = h /\ state' = update(run.kind, run.hardware, begin, h)
      /\ first' = gen /\ phase' = "fill" /\ run' = run /\ gen' = gen /\ sequence' = sequence
  BY DEF Begin, Header
<1>4. state' = Divide(Polynomial(run.kind), begin, h)
  <2>1. begin \in Register
    BY DEF begin, Register
  <2> QED BY <1>2, <1>3, <2>1, UpdateIs
<1>5. Header' = h
  BY <1>3 DEF Header
<1>6. Payload(0)' = fill(run.generator, gen, 0)
  BY <1>3 DEF Payload
<1>7. Payload(0)'.bytes = <<>> /\ Payload(0)'.gen = gen
  BY <1>2, <1>6, FillNothing DEF IInv, TypeOK
<1>8. Plain(0)' = h
  <2>1. h \o <<>> = h
    BY <1>2
  <2> QED BY <1>5, <1>7, <2>1 DEF Plain
<1>9. 0 \in 0..run.size /\ 0 % kBlockBytes = 0
  BY <1>2, IntegrityAssumption
<1>10. Filling'
  <2> HIDE DEF h
  <2> QED BY <1>3, <1>4, <1>7, <1>8, <1>9 DEF Filling
<1>11. Sealed'
  BY <1>3 DEF Sealed
<1> QED BY <1>1, <1>10, <1>11 DEF IInv

LEMMA FillChunkIInv == ASSUME IInv, FillChunk PROVE IInv'
<1>0. TypeOK /\ phase = "fill"
  BY DEF IInv, FillChunk
<1>1. PICK n \in 0..run.size :
        /\ n = run.size \/ n % kBlockBytes = 0
        /\ record = Plain(n)
        /\ gen = Payload(n).gen
        /\ state = Divide(Polynomial(run.kind), begin, record)
  BY <1>0 DEF IInv, Filling
<1>2. /\ run.size \in Nat /\ run.kind \in Kinds /\ run.generator \in Generators /\ run.hardware \in BOOLEAN
      /\ Payload(n).bytes \in Seq(Byte)
      /\ Header \in Seq(Byte)
      /\ Plain(n) \in Seq(Byte) /\ Len(Plain(n)) = kHeaderSize + n
  <2>1. n \in Nat
    BY <1>0, PlainIs
  <2> QED BY <1>0, <2>1, PlainIs
<1>3. Left = run.size - n /\ Left > 0 /\ kHeaderSize \in Nat
  BY <1>1, <1>2 DEF Left, FillChunk, kHeaderSize
<1>4. n % kBlockBytes = 0 /\ n \in Nat
  BY <1>1, <1>2, <1>3
<1> DEFINE k == IF Left < kChunkBytes THEN Left ELSE kChunkBytes
           chunk == fill(run.generator, gen, k)
<1>5. kChunkBytes \in Nat /\ kChunkBytes > 0
  BY IntegrityAssumption DEF kChunkBytes
<1>6. k \in Nat /\ n + k \in 0..run.size /\ (n + k = run.size \/ k = kChunkBytes)
  BY <1>2, <1>3, <1>4, <1>5
<1>7. n + k = run.size \/ (n + k) % kBlockBytes = 0
  <2> SUFFICES ASSUME k = kChunkBytes PROVE (n + k) % kBlockBytes = 0
    BY <1>6
  <2>1. n + k = ChunkBlocks * kBlockBytes + n
    BY <1>4, <1>5 DEF kChunkBytes
  <2>2. ChunkBlocks \in Nat /\ kBlockBytes \in Nat \ {0}
    BY IntegrityAssumption
  <2>3. (ChunkBlocks * kBlockBytes + n) % kBlockBytes = n % kBlockBytes
    BY <1>4, <2>2, WholeBlocks
  <2> QED BY <1>4, <2>1, <2>3
<1>m. PICK m \in 0..run.size : m = n + k
  BY <1>6
<1>8. /\ record' = record \o chunk.bytes /\ gen' = chunk.gen
      /\ state' = update(run.kind, run.hardware, state, chunk.bytes)
      /\ run' = run /\ first' = first /\ sequence' = sequence /\ phase' = "fill"
  BY <1>0 DEF FillChunk
<1> HIDE DEF k
<1>9. Joins(Payload(m), Payload(n), chunk)
  <2>1. GenOK(run.generator, first)
    BY <1>0 DEF TypeOK
  <2> QED BY <1>1, <1>2, <1>4, <1>6, <1>m, <2>1, FillPieces DEF Payload
<1>10. chunk.bytes \in Seq(Byte) /\ GenOK(run.generator, chunk.gen)
  BY <1>0, <1>2, <1>6, FillIs DEF TypeOK
<1> HIDE DEF chunk
<1>11. Header' = Header /\ Payload(m)' = Payload(m)
  BY <1>8 DEF Header, Payload
<1>12. record' = Plain(m)'
  <2>1. Plain(m)' = Header \o (Payload(n).bytes \o chunk.bytes)
    BY <1>9, <1>11 DEF Plain, Joins
  <2>2. (Header \o Payload(n).bytes) \o chunk.bytes = Header \o (Payload(n).bytes \o chunk.bytes)
    BY <1>2, <1>10, CatAssoc
  <2> QED BY <1>1, <1>8, <2>1, <2>2 DEF Plain
<1>13. gen' = Payload(m)'.gen
  BY <1>8, <1>9, <1>11 DEF Joins
<1>14. state' = Divide(Polynomial(run.kind), begin, record')
  <2> DEFINE p == Polynomial(run.kind)
  <2>1. begin \in Register /\ p \in Register
    BY PolynomialRegister DEF begin, Register
  <2>2. record \in Seq(Byte) /\ state = Divide(p, begin, record)
    BY <1>1, <1>2
  <2>3. state \in Register
    BY <1>2, <2>1, <2>2, DivideRegister
  <2>4. state' = Divide(p, state, chunk.bytes)
    BY <1>2, <1>8, <1>10, <2>3, UpdateIs
  <2> HIDE DEF p
  <2>5. Divide(p, begin, record \o chunk.bytes) = Divide(p, Divide(p, begin, record), chunk.bytes)
    BY <1>10, <2>1, <2>2, RegisterWord, DivideCat
  <2> QED BY <1>8, <2>2, <2>4, <2>5 DEF p
<1>15. TypeOK'
  BY <1>0, <1>8, <1>10 DEF TypeOK
<1>16. Filling'
  <2>1. /\ m \in 0..run.size
        /\ m = run.size \/ (m) % kBlockBytes = 0
        /\ record' = Plain(m)'
        /\ gen' = Payload(m)'.gen
        /\ state' = Divide(Polynomial(run.kind), begin, record')
    BY <1>6, <1>7, <1>m, <1>12, <1>13, <1>14
  <2> QED BY <1>8, <2>1 DEF Filling
<1>17. Sealed'
  BY <1>8 DEF Sealed
<1> QED BY <1>15, <1>16, <1>17 DEF IInv

LEMMA PatchIInv == ASSUME IInv, Patch PROVE IInv'
<1>0. TypeOK /\ phase = "fill" /\ Left = 0
  BY DEF IInv, Patch
<1>1. PICK n \in 0..run.size :
        /\ record = Plain(n)
        /\ gen = Payload(n).gen
        /\ state = Divide(Polynomial(run.kind), begin, record)
  BY <1>0 DEF IInv, Filling
<1>2. run.size \in Nat /\ Len(Plain(n)) = kHeaderSize + n
  <2>1. n \in Nat
    BY <1>0, PlainIs
  <2> QED BY <1>0, <2>1, PlainIs
<1>3. n = run.size
  BY <1>0, <1>1, <1>2 DEF Left, kHeaderSize
<1>4. /\ record' = patch_checksum(record, finish(state)) /\ phase' = "sealed"
      /\ run' = run /\ gen' = gen /\ first' = first /\ sequence' = sequence
  BY DEF Patch
<1>5. Plain(run.size)' = Plain(run.size) /\ Payload(run.size)' = Payload(run.size)
  BY <1>4 DEF Plain, Payload, Header
<1>6. TypeOK' /\ Filling'
  BY <1>0, <1>4 DEF TypeOK, Filling
<1>7. Sealed'
  BY <1>1, <1>3, <1>4, <1>5 DEF Sealed, Seal
<1> QED BY <1>6, <1>7 DEF IInv

LEMMA OtherIInv == ASSUME IInv, NextPacket \/ Damage \/ UNCHANGED vars PROVE IInv'
<1>1. CASE NextPacket
  BY <1>1 DEF NextPacket, IInv, TypeOK, Filling, Sealed
<1>2. CASE Damage
  <2>1. phase' = "damaged" /\ run' = run /\ gen' = gen /\ first' = first
    BY <1>2 DEF Damage
  <2> QED BY <2>1 DEF IInv, TypeOK, Filling, Sealed
<1>3. CASE UNCHANGED vars
  BY <1>3 DEF vars, IInv, TypeOK, Filling, Sealed, Plain, Payload, Header
<1> QED BY <1>1, <1>2, <1>3

LEMMA Invariance == Spec => []IInv
<1>1. ASSUME IInv, [Next]_vars PROVE IInv'
  BY <1>1, BeginIInv, FillChunkIInv, PatchIInv, OtherIInv DEF Next
<1> QED BY <1>1, InitIInv, PTL DEF Spec

LEMMA SealedIs == ASSUME IInv, phase = "sealed" PROVE SealAgrees /\ ChunksInvisible
<1> DEFINE s == run.size
           k == run.kind
           rec == Plain(s)
           b == Payload(s).bytes
<1>0. TypeOK
  BY DEF IInv
<1>1. s \in Nat
  BY <1>0, IntegrityAssumption DEF TypeOK
<1>2. /\ k \in Kinds
      /\ b \in Seq(Byte) /\ Len(b) = s
      /\ s \in 1..255 => Payload(s).gen # first
      /\ rec \in Seq(Byte) /\ Len(rec) = kHeaderSize + s
      /\ \A i \in 1..s : rec[kHeaderSize + i] = b[i]
      /\ HeaderHolds(rec, s, k)
      /\ Holds(rec, ChecksumAt, {}, 4)
  BY <1>0, <1>1, PlainIs
<1>3. record = Seal(k, rec) /\ gen = Payload(s).gen
  BY DEF IInv, Sealed
<1> HIDE DEF rec, b, k, s
<1>4. kHeaderSize \in Nat /\ kHeaderSize <= Len(rec) /\ Len(rec) - kHeaderSize = s
  BY <1>1, <1>2 DEF kHeaderSize
<1>5. /\ record \in Seq(Byte) /\ Len(record) = Len(rec)
      /\ \A i \in 1..Len(rec) : i > kHeaderSize => record[i] = rec[i]
      /\ patch_checksum(record, {}) = rec
      /\ \A hardware \in BOOLEAN : Defects(record, hardware) = {}
      /\ Field(record, ChecksumAt, 4) = ReferenceCrc(k, rec)
  BY <1>2, <1>3, <1>4, SealIs
<1>6. SealAgrees
  BY <1>5 DEF SealAgrees, k
<1>7. SubSeq(record, kHeaderSize + 1, Len(record)) = b
  <2> DEFINE e == SubSeq(record, kHeaderSize + 1, Len(record))
  <2>1. /\ e \in Seq(Byte) /\ Len(e) = Len(record) - kHeaderSize
        /\ \A i \in 1..(Len(record) - kHeaderSize) : e[i] = record[kHeaderSize + i]
    <3>1. Len(record) \in Nat /\ kHeaderSize <= Len(record)
      BY <1>4, <1>5
    <3> QED BY <1>4, <1>5, <3>1, SubSeqIs
  <2> HIDE DEF e
  <2>2. Len(e) = s /\ Len(record) - kHeaderSize = s
    BY <1>4, <1>5, <2>1
  <2>3. ASSUME NEW i \in 1..s PROVE e[i] = b[i]
    <3>0. Len(rec) = kHeaderSize + s
      BY <1>2
    <3>1. kHeaderSize + i \in 1..Len(rec) /\ kHeaderSize + i > kHeaderSize
      BY <1>1, <1>4, <3>0
    <3>2. e[i] = record[kHeaderSize + i]
      BY <2>1, <2>2
    <3>3. record[kHeaderSize + i] = rec[kHeaderSize + i]
      BY <1>5, <3>1
    <3>4. rec[kHeaderSize + i] = b[i]
      BY <1>2
    <3> QED BY <3>2, <3>3, <3>4
  <2>4. e = b
    BY <1>2, <2>1, <2>2, <2>3, SameSeq
  <2> QED BY <2>4 DEF e
<1>8. ChunksInvisible
  BY <1>2, <1>3, <1>7 DEF ChunksInvisible, Payload, b, s
<1> QED BY <1>6, <1>8

\* For payloads of every size, both generators and both algorithms: the slicing
\* tables and the CPU instructions that checksum.cpp uses divide as the bit-wise
\* definition does, wherever the input is cut into pieces, so that the checksum that
\* PacketBuilder::build() patches in is the one that packet_checksum() finds at every
\* consumer.
THEOREM ChecksumsAgree == Spec => []SealAgrees
<1>1. IInv => SealAgrees
  BY SealedIs DEF SealAgrees
<1> QED BY <1>1, Invariance, PTL

\* The payload that build() fills chunk by chunk, for any chunk of whole generator
\* blocks, is the one that a single fill() would give, in every packet of a run.
THEOREM ChunksDoNotMatter == Spec => []ChunksInvisible
<1>1. IInv => ChunksInvisible
  BY SealedIs DEF ChunksInvisible
<1> QED BY <1>1, Invariance, PTL

-----------------------------------------------------------------------------
(* Damage.                                                                  *)

\* The bits of the damaged record.
LEMMA FlipIs ==
  ASSUME NEW rec \in Seq(Byte), NEW bits \in Word
  PROVE  /\ Flip(rec, bits) \in Seq(Byte) /\ Len(Flip(rec, bits)) = Len(rec)
         /\ \A i \in 1..Len(rec), x \in 0..7 : x \in Flip(rec, bits)[i] <=> ~ (x \in rec[i] <=> x + 8 * (i - 1) \in bits)
<1> DEFINE part(i) == {b - 8 * (i - 1) : b \in bits \cap ((8 * (i - 1))..(8 * i - 1))}
           v(i) == Xor(rec[i], part(i))
           q == [i \in 1..Len(rec) |-> v(i)]
<1>0. DOMAIN rec = 1..Len(rec) /\ Len(rec) \in Nat /\ bits \subseteq Nat
  BY DEF Word
<1>1. Flip(rec, bits) = q
  BY <1>0 DEF Flip
<1>2. ASSUME NEW i \in 1..Len(rec)
      PROVE  part(i) \in Byte /\ \A x \in 0..7 : x \in part(i) <=> x + 8 * (i - 1) \in bits
  <2> DEFINE m == 8 * (i - 1)
  <2>1. m \in Nat /\ 8 * i - 1 = m + 7
    BY <1>0
  <2> HIDE DEF m
  <2>2. part(i) = {b - m : b \in bits \cap (m..(m + 7))}
    BY <2>1 DEF m
  <2>3. ASSUME NEW x \in part(i) PROVE x \in 0..7 /\ x + m \in bits
    <3>1. PICK b \in bits \cap (m..(m + 7)) : x = b - m
      BY <2>2
    <3>2. b \in Nat /\ b \in bits /\ m <= b /\ b <= m + 7
      BY <1>0, <2>1, <3>1
    <3>3. x + m = b /\ x \in 0..7
      BY <2>1, <3>1, <3>2
    <3> QED BY <3>2, <3>3
  <2>4. ASSUME NEW x \in 0..7, x + m \in bits PROVE x \in part(i)
    <3>1. x + m \in bits \cap (m..(m + 7)) /\ x = (x + m) - m
      BY <2>1, <2>4
    <3> QED BY <2>2, <3>1
  <2>5. part(i) \in Byte
    BY <2>3 DEF Byte
  <2> QED BY <2>3, <2>4, <2>5 DEF m
<1> HIDE DEF part
<1>3. ASSUME NEW i \in 1..Len(rec)
      PROVE  v(i) \in Byte /\ \A x \in 0..7 : x \in v(i) <=> ~ (x \in rec[i] <=> x + 8 * (i - 1) \in bits)
  <2>1. rec[i] \in Byte /\ part(i) \in Byte
    BY <1>0, <1>2
  <2>2. v(i) \in Byte
    BY <2>1 DEF Xor, Byte
  <2>3. ASSUME NEW x \in 0..7 PROVE x \in v(i) <=> ~ (x \in rec[i] <=> x + 8 * (i - 1) \in bits)
    <3>1. x \in v(i) <=> ~ (x \in rec[i] <=> x \in part(i))
      BY DEF Xor
    <3>2. x \in part(i) <=> x + 8 * (i - 1) \in bits
      BY <1>2
    <3> QED BY <3>1, <3>2
  <2> QED BY <2>2, <2>3
<1> HIDE DEF v
<1>4. q \in Seq(Byte) /\ Len(q) = Len(rec) /\ \A i \in 1..Len(rec) : q[i] = v(i)
  BY <1>0, <1>3
<1> HIDE DEF q
<1>5. \A i \in 1..Len(rec), x \in 0..7 : x \in q[i] <=> ~ (x \in rec[i] <=> x + 8 * (i - 1) \in bits)
  BY <1>3, <1>4
<1> QED BY <1>1, <1>4, <1>5

\* A field of the damaged record, bit by bit.
LEMMA FlipLoad ==
  ASSUME NEW rec \in Seq(Byte), NEW bits \in Word, NEW at \in Nat, NEW n \in Nat, at + n <= Len(rec)
  PROVE  /\ LoadLE(Flip(rec, bits), at, n) \in Word /\ LoadLE(rec, at, n) \in Word
         /\ LoadLE(Flip(rec, bits), at, n) \subseteq 0..(8 * n - 1) /\ LoadLE(rec, at, n) \subseteq 0..(8 * n - 1)
         /\ \A x \in Nat : x < 8 * n =>
              (x \in LoadLE(Flip(rec, bits), at, n) <=> ~ (x \in LoadLE(rec, at, n) <=> x + 8 * at \in bits))
<1> DEFINE q == Flip(rec, bits)
           u == LoadLE(q, at, n)
           v == LoadLE(rec, at, n)
<1>1. q \in Seq(Byte) /\ Len(q) = Len(rec)
      /\ \A i \in 1..Len(rec), x \in 0..7 : x \in q[i] <=> ~ (x \in rec[i] <=> x + 8 * (i - 1) \in bits)
  BY FlipIs
<1> HIDE DEF q
<1>2. \A j \in (at + 1)..(at + n) : q[j] \in Byte /\ rec[j] \in Byte
  <2>1. ASSUME NEW j \in (at + 1)..(at + n) PROVE j \in 1..Len(rec)
    OBVIOUS
  <2>2. \A j \in 1..Len(rec) : q[j] \in Byte /\ rec[j] \in Byte
    BY <1>1
  <2> QED BY <2>1, <2>2
<1>3. /\ u \in Word /\ u \subseteq 0..(8 * n - 1)
      /\ \A x \in Nat : x \in u <=> x < 8 * n /\ x % 8 \in q[at + 1 + x \div 8]
  BY <1>2, LoadBit
<1>4. /\ v \in Word /\ v \subseteq 0..(8 * n - 1)
      /\ \A x \in Nat : x \in v <=> x < 8 * n /\ x % 8 \in rec[at + 1 + x \div 8]
  BY <1>2, LoadBit
<1> HIDE DEF u, v
<1>5. ASSUME NEW x \in Nat, x < 8 * n PROVE x \in u <=> ~ (x \in v <=> x + 8 * at \in bits)
  <2> DEFINE r == x % 8
             i == at + 1 + x \div 8
  <2>1. r \in 0..7 /\ i \in 1..Len(rec) /\ r + 8 * (i - 1) = x + 8 * at
    BY <1>5
  <2>2. (x \in u <=> r \in q[i]) /\ (x \in v <=> r \in rec[i])
    BY <1>3, <1>4, <1>5
  <2> HIDE DEF r, i
  <2>3. r \in q[i] <=> ~ (r \in rec[i] <=> r + 8 * (i - 1) \in bits)
    BY <1>1, <2>1
  <2>4. r \in rec[i] <=> x \in v
    BY <2>2
  <2> QED BY <2>1, <2>2, <2>3, <2>4
<1> QED BY <1>3, <1>4, <1>5 DEF q, u, v

\* None of n bits is damaged.
Untouched(bits, from, n) == \A b \in bits : b < from \/ b >= from + n

\* A field without damage reads as before ...
LEMMA FlipSame ==
  ASSUME NEW rec \in Seq(Byte), NEW bits \in Word, NEW at \in Nat, NEW n \in Nat, at + n <= Len(rec),
         Untouched(bits, 8 * at, 8 * n)
  PROVE  LoadLE(Flip(rec, bits), at, n) = LoadLE(rec, at, n)
<1> DEFINE u == LoadLE(Flip(rec, bits), at, n)
           v == LoadLE(rec, at, n)
<1>1. /\ u \in Word /\ v \in Word /\ u \subseteq 0..(8 * n - 1) /\ v \subseteq 0..(8 * n - 1)
      /\ \A x \in Nat : x < 8 * n => (x \in u <=> ~ (x \in v <=> x + 8 * at \in bits))
  BY FlipLoad
<1> HIDE DEF u, v
<1>2. ASSUME NEW x \in Nat PROVE x \in u <=> x \in v
  <2>1. CASE x < 8 * n
    <3>1. x + 8 * at \notin bits
      BY <2>1 DEF Untouched
    <3>2. x \in u <=> ~ (x \in v <=> x + 8 * at \in bits)
      BY <1>1, <2>1
    <3>3. x + 8 * at \notin bits
      BY <3>1
    <3> QED BY <3>2, <3>3
  <2>2. CASE ~ (x < 8 * n)
    BY <1>1, <2>2
  <2> QED BY <2>1, <2>2
<1>3. u = v
  BY <1>1, <1>2, WordEqual
<1> QED BY <1>3 DEF u, v

\* ... and one with damage does not.
LEMMA FlipDiffers ==
  ASSUME NEW rec \in Seq(Byte), NEW bits \in Word, NEW at \in Nat, NEW n \in Nat, at + n <= Len(rec),
         NEW b \in bits, 8 * at <= b, b < 8 * at + 8 * n
  PROVE  LoadLE(Flip(rec, bits), at, n) # LoadLE(rec, at, n)
<1> DEFINE u == LoadLE(Flip(rec, bits), at, n)
           v == LoadLE(rec, at, n)
           x == b - 8 * at
<1>1. \A y \in Nat : y < 8 * n => (y \in u <=> ~ (y \in v <=> y + 8 * at \in bits))
  BY FlipLoad
<1>2. x \in Nat /\ x < 8 * n /\ x + 8 * at = b
  BY DEF Word
<1> HIDE DEF u, v, x
<1>3. x \in u <=> ~ (x \in v <=> x + 8 * at \in bits)
  BY <1>1, <1>2
<1>4. x + 8 * at \in bits
  BY <1>2
<1>5. u # v
  BY <1>3, <1>4
<1> QED BY <1>5 DEF u, v

LEMMA SeqByte == ASSUME NEW s \in Seq(Byte) PROVE \A i \in 1..Len(s) : s[i] \in Byte
  OBVIOUS

\* Damage in the checksum field alone is gone when the field is cleared, damage
\* elsewhere is still there.
LEMMA FlipPatch ==
  ASSUME NEW rec \in Seq(Byte), NEW bits \in Word, 16 <= Len(rec)
  PROVE  /\ bits \subseteq 96..127 => patch_checksum(Flip(rec, bits), {}) = patch_checksum(rec, {})
         /\ (\A b \in bits : b >= 128) =>
               patch_checksum(Flip(rec, bits), {}) = Flip(patch_checksum(rec, {}), bits)
<1> DEFINE f == Flip(rec, bits)
           u == patch_checksum(f, {})
           v == patch_checksum(rec, {})
           w == Flip(v, bits)
<1>0. {} \in Word /\ bits \subseteq Nat
  BY DEF Word
<1>1. f \in Seq(Byte) /\ Len(f) = Len(rec)
      /\ \A i \in 1..Len(rec), x \in 0..7 : x \in f[i] <=> ~ (x \in rec[i] <=> x + 8 * (i - 1) \in bits)
  BY FlipIs
<1> HIDE DEF f
<1>2. /\ v \in Seq(Byte) /\ Len(v) = Len(rec)
      /\ \A i \in 1..Len(rec) : i \notin 13..16 => v[i] = rec[i]
      /\ \A i \in 1..Len(rec) : i \in 13..16 => v[i] = ByteAt({}, i - 13)
  BY <1>0, PatchIs
<1>3. /\ u \in Seq(Byte) /\ Len(u) = Len(rec)
      /\ \A i \in 1..Len(rec) : i \notin 13..16 => u[i] = f[i]
      /\ \A i \in 1..Len(rec) : i \in 13..16 => u[i] = ByteAt({}, i - 13)
  BY <1>0, <1>1, PatchIs
<1> HIDE DEF u, v
<1>4. w \in Seq(Byte) /\ Len(w) = Len(rec)
      /\ \A i \in 1..Len(rec), x \in 0..7 : x \in w[i] <=> ~ (x \in v[i] <=> x + 8 * (i - 1) \in bits)
  BY <1>2, FlipIs
<1> HIDE DEF w
<1>b. \A i \in 1..Len(rec) : f[i] \in Byte /\ rec[i] \in Byte /\ u[i] \in Byte /\ v[i] \in Byte /\ w[i] \in Byte
  BY <1>1, <1>2, <1>3, <1>4, SeqByte, Zenon
<1>5. ASSUME bits \subseteq 96..127 PROVE u = v
  <2>1. ASSUME NEW i \in 1..Len(rec) PROVE u[i] = v[i]
    <3>1. CASE i \in 13..16
      BY <1>2, <1>3, <3>1
    <3>2. CASE i \notin 13..16
      <4>1. ASSUME NEW x \in 0..7 PROVE x + 8 * (i - 1) \notin 96..127
        BY <3>2
      <4>2. ASSUME NEW x \in 0..7 PROVE x \in f[i] <=> x \in rec[i]
        <5>1. x + 8 * (i - 1) \notin bits
          BY <1>5, <4>1
        <5> QED BY <1>1, <5>1
      <4>3. f[i] = rec[i]
        BY <1>b, <4>2 DEF Byte
      <4> QED BY <1>2, <1>3, <3>2, <4>3
    <3> QED BY <3>1, <3>2
  <2>2. Len(u) = Len(v) /\ \A i \in 1..Len(u) : u[i] = v[i]
    BY <1>2, <1>3, <2>1
  <2> QED BY <1>2, <1>3, <2>2, SameSeq
<1>6. ASSUME \A b \in bits : b >= 128 PROVE u = w
  <2>1. ASSUME NEW i \in 1..Len(rec) PROVE u[i] = w[i]
    <3>1. CASE i \in 13..16
      <4>1. u[i] = v[i]
        BY <1>2, <1>3, <3>1
      <4>2. ASSUME NEW x \in 0..7 PROVE x \in w[i] <=> x \in v[i]
        <5>1. ~ (x + 8 * (i - 1) >= 128)
          BY <3>1
        <5>2. x + 8 * (i - 1) \notin bits
          BY <1>6, <5>1
        <5> QED BY <1>4, <5>2
      <4>3. w[i] = v[i]
        BY <1>b, <4>2 DEF Byte
      <4> QED BY <4>1, <4>3
    <3>2. CASE i \notin 13..16
      <4>1. u[i] = f[i] /\ v[i] = rec[i]
        BY <1>2, <1>3, <3>2
      <4>2. ASSUME NEW x \in 0..7 PROVE x \in f[i] <=> x \in w[i]
        BY <1>1, <1>4, <4>1
      <4>3. f[i] = w[i]
        BY <1>b, <4>2 DEF Byte
      <4> QED BY <4>1, <4>3
    <3> QED BY <3>1, <3>2
  <2>2. Len(u) = Len(w) /\ \A i \in 1..Len(u) : u[i] = w[i]
    BY <1>3, <1>4, <2>1
  <2> QED BY <1>3, <1>4, <2>2, SameSeq
<1> QED BY <1>5, <1>6 DEF f, u, v, w

\* The division is linear: damage changes it by its own remainder.
LEMMA FlipDivide ==
  ASSUME NEW p \in Word, NEW s \in Word, NEW rec \in Seq(Byte), NEW bits, bits \subseteq 0..(8 * Len(rec) - 1)
  PROVE  Divide(p, s, Flip(rec, bits)) = Xor(Divide(p, s, rec), ShiftBits(p, bits, 8 * Len(rec)))
<1> DEFINE f == Flip(rec, bits)
           u == WordOf(f)
           v == WordOf(rec)
           n == Len(rec)
<1>0. bits \in Word /\ n \in Nat /\ 8 * n \in Nat
  BY DEF Word
<1>1. f \in Seq(Byte) /\ Len(f) = n
  BY <1>0, FlipIs
<1>2. u = LoadLE(f, 0, n) /\ v = LoadLE(rec, 0, n)
  BY <1>1 DEF WordOf
<1>3. 0 \in Nat /\ 0 + n <= n
  BY <1>0
<1>4. /\ u \in Word /\ v \in Word /\ u \subseteq 0..(8 * n - 1) /\ v \subseteq 0..(8 * n - 1)
      /\ \A x \in Nat : x < 8 * n => (x \in u <=> ~ (x \in v <=> x + 8 * 0 \in bits))
  BY <1>0, <1>2, <1>3, FlipLoad
<1>5. Divide(p, s, f) = ShiftBits(p, Xor(s, u), 8 * n) /\ Divide(p, s, rec) = ShiftBits(p, Xor(s, v), 8 * n)
  BY <1>1 DEF Divide
<1> HIDE DEF f, u, v, n
<1>6. u = Xor(v, bits)
  <2>1. ASSUME NEW x \in Nat PROVE x \in u <=> x \in Xor(v, bits)
    <3>1. CASE x < 8 * n
      <4>1. x + 8 * 0 = x
        OBVIOUS
      <4>2. x \in u <=> ~ (x \in v <=> x \in bits)
        BY <1>4, <3>1, <4>1
      <4> QED BY <4>2 DEF Xor
    <3>2. CASE ~ (x < 8 * n)
      <4>1. x \notin u /\ x \notin v /\ x \notin bits
        BY <1>0, <1>4, <3>2 DEF n
      <4> QED BY <4>1 DEF Xor
    <3> QED BY <3>1, <3>2
  <2>2. Xor(v, bits) \in Word
    BY <1>0, <1>4, XorWord
  <2> QED BY <1>4, <2>1, <2>2, WordEqual
<1>7. Xor(s, u) = Xor(Xor(s, v), bits) /\ Xor(s, v) \in Word
  BY <1>4, <1>6, XorAssoc, XorWord
<1>8. ShiftBits(p, Xor(Xor(s, v), bits), 8 * n) = Xor(ShiftBits(p, Xor(s, v), 8 * n), ShiftBits(p, bits, 8 * n))
  BY <1>0, <1>7, ShiftBitsXor
<1> QED BY <1>5, <1>7, <1>8 DEF f, n

\* A word of at most 32 bits with a one does not become zero: the polynomial has
\* its highest bit.
LEMMA StaysNonzero ==
  ASSUME NEW p \in Register, 31 \in p, NEW w \in Register, w # {}, NEW n \in Nat
  PROVE  ShiftBits(p, w, n) # {}
<1> DEFINE T == {k \in Nat : ShiftBits(p, w, k) \in Register /\ ShiftBits(p, w, k) # {}}
<1>0. p \in Word /\ w \in Word
  BY RegisterWord
<1>1. 0 \in T
  BY <1>0, ShiftBitsZero
<1>2. ASSUME NEW k \in Nat, k \in T PROVE k + 1 \in T
  <2> DEFINE v == ShiftBits(p, w, k)
  <2>1. v \in Register /\ v # {}
    BY <1>2
  <2>2. ShiftBits(p, w, k + 1) = ShiftBit(p, v)
    BY <1>0, ShiftBitsNext
  <2> HIDE DEF v
  <2>3. /\ v \in Word /\ Shr(v, 1) \in Word /\ \A x \in Nat : x \in Shr(v, 1) <=> x + 1 \in v
    BY <2>1, RegisterWord, ShrBit
  <2>4. Shr(v, 1) \subseteq 0..30
    <3>1. ASSUME NEW x \in Shr(v, 1) PROVE x \in 0..30
      <4>1. x \in Nat
        BY <2>3 DEF Word
      <4>2. x + 1 \in v
        BY <2>3, <4>1
      <4>3. x + 1 \in 0..31
        BY <2>1, <4>2 DEF Register
      <4> QED BY <4>1, <4>3
    <3> QED BY <3>1
  <2>5. ShiftBit(p, v) \in Register
    <3>1. Shr(v, 1) \subseteq 0..31
      BY <2>4
    <3> QED BY <3>1 DEF ShiftBit, Xor, Register
  <2>6. ShiftBit(p, v) # {}
    <3>1. CASE 0 \in v
      <4>1. 31 \notin Shr(v, 1)
        BY <2>4
      <4>2. 31 \in Xor(p, Shr(v, 1))
        BY <4>1 DEF Xor
      <4> QED BY <3>1, <4>2 DEF ShiftBit
    <3>2. CASE 0 \notin v
      <4>1. PICK b \in v : b # 0
        BY <2>1, <3>2
      <4>2. b - 1 \in Nat /\ (b - 1) + 1 = b
        BY <2>1, <4>1 DEF Register
      <4>3. b - 1 \in Shr(v, 1)
        BY <2>3, <4>1, <4>2
      <4> QED BY <3>2, <4>3 DEF ShiftBit
    <3> QED BY <3>1, <3>2
  <2> QED BY <2>2, <2>5, <2>6
<1>3. \A k \in Nat : k \in T
  BY <1>1, <1>2, SetInduction
<1> QED BY <1>3

\* A burst within 32 bits leaves a remainder.
LEMMA BurstRemains ==
  ASSUME NEW p \in Register, 31 \in p, NEW bits, NEW at \in Nat, NEW m \in Nat,
         bits \subseteq at..(at + 31), bits # {}, at <= m
  PROVE  ShiftBits(p, bits, m) # {}
<1> DEFINE u == Shr(bits, at)
           k == m - at
<1>1. bits \in Word /\ p \in Word /\ k \in Nat /\ m = at + k
  BY RegisterWord DEF Word
<1>2. u \in Word /\ \A x \in Nat : x \in u <=> x + at \in bits
  BY <1>1, ShrBit
<1>3. ShiftBits(p, bits, at) = u
  BY <1>1, ShiftBitsHigh
<1>4. ShiftBits(p, bits, at + k) = ShiftBits(p, ShiftBits(p, bits, at), k)
  BY <1>1, ShiftBitsAdd
<1> HIDE DEF u, k
<1>5. u \in Register
  <2>1. ASSUME NEW x \in u PROVE x \in 0..31
    <3>1. x \in Nat
      BY <1>2 DEF Word
    <3>2. x + at \in at..(at + 31)
      BY <1>2, <3>1
    <3> QED BY <3>1, <3>2
  <2> QED BY <2>1 DEF Register
<1>6. u # {}
  <2>1. PICK b \in bits : TRUE
    OBVIOUS
  <2>2. b - at \in Nat /\ (b - at) + at = b
    BY <2>1
  <2> QED BY <1>2, <2>1, <2>2
<1> QED BY <1>1, <1>3, <1>4, <1>5, <1>6, StaysNonzero

LEMMA DefectShows ==
  ASSUME NEW rec, NEW hardware,
         \/ Field(rec, 0, 4) # ToBits(kPacketMagic)
         \/ Field(rec, 4, 1) # ToBits(kPacketVersion)
         \/ Field(rec, 6, 2) # ToBits(kHeaderSize)
         \/ Field(rec, 8, 4) # ToBits(Len(rec) - kHeaderSize)
         \/ {k \in Kinds : ToBits(k) = Field(rec, 5, 1)} = {}
         \/ \E k \in {j \in Kinds : ToBits(j) = Field(rec, 5, 1)} : packet_checksum(rec, k, hardware) # Field(rec, ChecksumAt, 4)
  PROVE  Defects(rec, hardware) # {}
<1>1. CASE Field(rec, 0, 4) # ToBits(kPacketMagic)
  <2>1. "BadMagic" \in Defects(rec, hardware)
    BY <1>1 DEF Defects
  <2> QED BY <2>1
<1>2. CASE Field(rec, 4, 1) # ToBits(kPacketVersion)
  <2>1. "BadVersion" \in Defects(rec, hardware)
    BY <1>2 DEF Defects
  <2> QED BY <2>1
<1>3. CASE Field(rec, 6, 2) # ToBits(kHeaderSize)
  <2>1. "BadHeaderSize" \in Defects(rec, hardware)
    BY <1>3 DEF Defects
  <2> QED BY <2>1
<1>4. CASE Field(rec, 8, 4) # ToBits(Len(rec) - kHeaderSize)
  <2>1. "SizeMismatch" \in Defects(rec, hardware)
    BY <1>4 DEF Defects
  <2> QED BY <2>1
<1>5. CASE {k \in Kinds : ToBits(k) = Field(rec, 5, 1)} = {}
  <2>1. "UnknownChecksum" \in Defects(rec, hardware)
    BY <1>5 DEF Defects
  <2> QED BY <2>1
<1>6. CASE \E k \in {j \in Kinds : ToBits(j) = Field(rec, 5, 1)} : packet_checksum(rec, k, hardware) # Field(rec, ChecksumAt, 4)
  <2>1. "BadChecksum" \in Defects(rec, hardware)
    BY <1>6 DEF Defects
  <2> QED BY <2>1
<1> QED BY <1>1, <1>2, <1>3, <1>4, <1>5, <1>6

\* Damage before the checksum field is seen in the fields that are compared, damage to
\* the checksum field alone in the checksum, and damage after it in the remainder.
LEMMA FlipShows ==
  ASSUME NEW kind \in Kinds, NEW plain \in Seq(Byte), kHeaderSize <= Len(plain),
         HeaderHolds(plain, Len(plain) - kHeaderSize, kind), Holds(plain, ChecksumAt, {}, 4),
         NEW at \in Nat, NEW bits, bits \subseteq at..(at + 31), bits # {},
         bits \subseteq 0..(8 * Len(plain) - 1), ~ Straddles(bits),
         NEW hardware \in BOOLEAN,
         ~ KindSwapped(Flip(Seal(kind, plain), bits), kind)
  PROVE  Defects(Flip(Seal(kind, plain), bits), hardware) # {}
<1> DEFINE rec == Seal(kind, plain)
           f == Flip(rec, bits)
           p == Polynomial(kind)
           n == Len(plain)
<1>0. kHeaderSize \in Nat /\ kHeaderSize = 32 /\ ChecksumAt = 12 /\ begin \in Register /\ bits \in Word /\ n \in Nat
  BY DEF kHeaderSize, ChecksumAt, begin, Register, Word
<1>1. /\ rec \in Seq(Byte) /\ Len(rec) = n
      /\ patch_checksum(rec, {}) = plain
      /\ FieldsRight(rec, n - kHeaderSize, kind)
      /\ Field(rec, 12, 4) = ReferenceCrc(kind, plain)
  BY <1>0, SealIs
<1>2. f \in Seq(Byte) /\ Len(f) = n
  BY <1>0, <1>1, FlipIs
<1> SUFFICES Defects(f, hardware) # {}
  OBVIOUS
<1> HIDE DEF rec, n, p
<1>3. 16 <= n /\ 32 <= n
  BY <1>0 DEF n
<1>4. Field(rec, 12, 4) = finish(Divide(p, begin, plain))
  BY <1>1, PolynomialRegister, ReferenceIs DEF p
<1>5. ASSUME NEW a \in Nat, NEW m \in Nat, a + m <= 16
      PROVE  /\ Untouched(bits, 8 * a, 8 * m) => Field(f, a, m) = Field(rec, a, m)
             /\ (\E b \in bits : 8 * a <= b /\ b < 8 * a + 8 * m) => Field(f, a, m) # Field(rec, a, m)
  <2>1. a + m <= Len(rec)
    BY <1>0, <1>1, <1>3, <1>5
  <2>2. ASSUME Untouched(bits, 8 * a, 8 * m) PROVE Field(f, a, m) = Field(rec, a, m)
    <3>1. LoadLE(Flip(rec, bits), a, m) = LoadLE(rec, a, m)
      BY <1>0, <1>1, <2>1, <2>2, FlipSame
    <3> QED BY <3>1 DEF Field, f
  <2>3. ASSUME NEW b \in bits, 8 * a <= b, b < 8 * a + 8 * m PROVE Field(f, a, m) # Field(rec, a, m)
    BY <1>0, <1>1, <2>1, <2>3, FlipDiffers DEF Field, f
  <2> QED BY <2>2, <2>3
<1>6. packet_checksum(f, kind, hardware) = finish(Divide(p, begin, patch_checksum(f, {})))
  <2>1. kHeaderSize <= Len(f)
    BY <1>0, <1>2, <1>3
  <2> HIDE DEF f
  <2> QED BY <1>2, <2>1, PacketChecksumIs DEF p
<1>s. ~ KindSwapped(f, kind)
  BY DEF rec
<1> HIDE DEF f
<1>7. CASE \E b \in bits : b \in 0..95
  <2>1. PICK b \in bits : b \in 0..95
    BY <1>7
  <2>2. CASE b < 32
    <3>1. Field(f, 0, 4) # Field(rec, 0, 4)
      BY <1>5, <2>1, <2>2
    <3> QED BY <1>1, <3>1, DefectShows DEF FieldsRight
  <2>3. CASE 32 <= b /\ b < 40
    <3>1. Field(f, 4, 1) # Field(rec, 4, 1)
      BY <1>5, <2>1, <2>3
    <3> QED BY <1>1, <3>1, DefectShows DEF FieldsRight
  <2>4. CASE 40 <= b /\ b < 48
    <3>1. Field(f, 5, 1) # Field(rec, 5, 1)
      BY <1>5, <2>1, <2>4
    <3>2. {k \in Kinds : ToBits(k) = Field(f, 5, 1)} = {}
      BY <1>1, <1>s, <3>1, Zenon DEF KindSwapped, FieldsRight
    <3> QED BY <3>2, DefectShows
  <2>5. CASE 48 <= b /\ b < 64
    <3>1. Field(f, 6, 2) # Field(rec, 6, 2)
      BY <1>5, <2>1, <2>5
    <3> QED BY <1>1, <3>1, DefectShows DEF FieldsRight
  <2>6. CASE 64 <= b
    <3>1. Field(f, 8, 4) # Field(rec, 8, 4)
      BY <1>5, <2>1, <2>6
    <3> QED BY <1>1, <1>2, <3>1, DefectShows DEF FieldsRight
  <2> QED BY <2>1, <2>2, <2>3, <2>4, <2>5, <2>6
<1>8. ASSUME Field(f, 5, 1) = Field(rec, 5, 1), packet_checksum(f, kind, hardware) # Field(f, 12, 4)
      PROVE  Defects(f, hardware) # {}
  <2>1. ToBits(kind) = Field(f, 5, 1)
    BY <1>1, <1>8 DEF FieldsRight
  <2>2. \E k \in {j \in Kinds : ToBits(j) = Field(f, 5, 1)} : packet_checksum(f, k, hardware) # Field(f, ChecksumAt, 4)
    BY <1>0, <1>8, <2>1
  <2> QED BY <2>2, DefectShows
<1>9. CASE bits \subseteq 96..127
  <2>1. PICK b \in bits : b \in 96..127
    BY <1>9
  <2>2. Field(f, 12, 4) # Field(rec, 12, 4)
    BY <1>5, <2>1
  <2>3. Field(f, 5, 1) = Field(rec, 5, 1)
    <3>1. Untouched(bits, 8 * 5, 8 * 1)
      BY <1>9 DEF Untouched
    <3> QED BY <1>5, <3>1
  <2>4. patch_checksum(f, {}) = plain
    BY <1>0, <1>1, <1>3, <1>9, FlipPatch DEF f
  <2>5. packet_checksum(f, kind, hardware) # Field(f, 12, 4)
    BY <1>4, <1>6, <2>2, <2>4
  <2> QED BY <1>8, <2>3, <2>5
<1>10. CASE bits \subseteq 128..(8 * n - 1)
  <2>0. \A x \in bits : x >= 128
    BY <1>0, <1>10
  <2>1. Field(f, 12, 4) = Field(rec, 12, 4)
    <3>1. Untouched(bits, 8 * 12, 8 * 4)
      BY <2>0 DEF Untouched
    <3> QED BY <1>5, <3>1
  <2>2. Field(f, 5, 1) = Field(rec, 5, 1)
    <3>1. Untouched(bits, 8 * 5, 8 * 1)
      BY <2>0 DEF Untouched
    <3> QED BY <1>5, <3>1
  <2>3. patch_checksum(f, {}) = Flip(plain, bits)
    BY <1>0, <1>1, <1>3, <2>0, FlipPatch DEF f
  <2> DEFINE d == Divide(p, begin, plain)
             r == ShiftBits(p, bits, 8 * n)
  <2>4. p \in Register /\ p \in Word /\ begin \in Word /\ 31 \in p
    BY <1>0, PolynomialRegister, RegisterWord DEF p, Polynomial
  <2>5. Divide(p, begin, Flip(plain, bits)) = Xor(d, r)
    <3>1. bits \subseteq 0..(8 * n - 1)
      BY <1>0, <1>10
    <3> QED BY <2>4, <3>1, FlipDivide DEF n
  <2>6. r # {}
    <3>1. PICK b \in bits : TRUE
      OBVIOUS
    <3>2. 8 * n \in Nat /\ at <= 8 * n
      BY <1>0, <1>10, <3>1
    <3> QED BY <2>4, <3>2, BurstRemains
  <2> HIDE DEF d, r
  <2>7. finish(Xor(d, r)) # finish(d)
    <3>1. PICK x \in r : TRUE
      BY <2>6
    <3>2. x \in Xor(d, r) <=> x \notin d
      BY <3>1 DEF Xor
    <3>3. x \in finish(Xor(d, r)) <=> x \notin finish(d)
      BY <3>2 DEF finish, Xor
    <3> QED BY <3>3
  <2>8. packet_checksum(f, kind, hardware) # Field(f, 12, 4)
    BY <1>4, <1>6, <2>1, <2>3, <2>5, <2>7 DEF d
  <2> QED BY <1>8, <2>2, <2>8
<1>11. (\E b \in bits : b \in 0..95) \/ bits \subseteq 96..127 \/ bits \subseteq 128..(8 * n - 1)
  <2> SUFFICES ASSUME \A b \in bits : b \notin 0..95
               PROVE  bits \subseteq 96..127 \/ bits \subseteq 128..(8 * n - 1)
    BY Zenon
  <2>1. \A b \in bits : b \in Nat /\ b >= 96 /\ b <= 8 * n - 1
    BY <1>0 DEF n
  <2>2. (\A b \in bits : b < 128) \/ (\A b \in bits : b >= 128)
    BY <1>0, <2>1 DEF Straddles
  <2> QED BY <1>0, <2>1, <2>2
<1> QED BY <1>7, <1>9, <1>10, <1>11, Zenon

LEMMA DamageStep == ASSUME IInv, Damage PROVE DamageShows'
<1> DEFINE s == run.size
           k == run.kind
           plain == Plain(s)
<1>0. TypeOK /\ phase = "sealed"
  BY DEF IInv, Damage
<1>1. s \in Nat
  BY <1>0, IntegrityAssumption DEF TypeOK
<1>2. /\ k \in Kinds
      /\ plain \in Seq(Byte) /\ Len(plain) = kHeaderSize + s
      /\ HeaderHolds(plain, s, k)
      /\ Holds(plain, ChecksumAt, {}, 4)
  BY <1>0, <1>1, PlainIs
<1>3. record = Seal(k, plain)
  BY <1>0 DEF IInv, Sealed
<1> HIDE DEF s, k, plain
<1>4. kHeaderSize \in Nat /\ kHeaderSize <= Len(plain) /\ Len(plain) - kHeaderSize = s /\ ChecksumAt = 12
  BY <1>1, <1>2 DEF kHeaderSize, ChecksumAt
<1>5. Len(record) = Len(plain) /\ Len(plain) \in Nat
  BY <1>1, <1>2, <1>3, <1>4, SealIs
<1>6. PICK burst \in Bursts, at \in 0..(8 * Len(record) - 1) : damage' = {at + b : b \in burst}
  BY DEF Damage
<1> DEFINE bits == {at + b : b \in burst}
<1>7. damage' = bits /\ record' = Flip(record, bits) /\ bits \subseteq 0..(8 * Len(plain) - 1) /\ run' = run
  BY <1>5, <1>6 DEF Damage
<1>8. at \in Nat /\ burst \subseteq 0..31 /\ burst # {}
  <2> DEFINE end == 8 * Len(record) - 1
  <2>1. end \in Int /\ at \in 0..end
    BY <1>5
  <2> HIDE DEF end
  <2>2. at \in Nat
    BY <2>1
  <2> QED BY <2>2, IntegrityAssumption
<1>9. bits \subseteq at..(at + 31) /\ bits # {}
  <2>1. ASSUME NEW b \in burst PROVE at + b \in at..(at + 31)
    BY <1>8
  <2> QED BY <1>8, <2>1
<1> HIDE DEF bits
<1>14. record' = Flip(Seal(k, plain), bits)
  BY <1>3, <1>7
<1>15. ASSUME ~ KindSwapped(Flip(Seal(k, plain), bits), k), ~ Straddles(bits), NEW hardware \in BOOLEAN
       PROVE  Defects(Flip(Seal(k, plain), bits), hardware) # {}
  BY <1>2, <1>4, <1>7, <1>8, <1>9, <1>15, FlipShows
<1>16. ASSUME ~ KindSwapped(record', run'.kind), ~ Straddles(damage'), NEW hardware \in BOOLEAN
       PROVE  Defects(record', hardware) # {}
  BY <1>7, <1>14, <1>15, <1>16 DEF k
<1>17. KindSwapped(record, run.kind)' = KindSwapped(record', run'.kind) /\ Straddles(damage)' = Straddles(damage')
  BY DEF KindSwapped, Straddles
<1> QED BY <1>16, <1>17 DEF DamageShows

\* Whatever the size and the contents of the payload, validate() reports a burst of
\* damage of at most 32 bits, of any pattern and at any place, unless it crosses the
\* end of the checksum field or makes one algorithm's number the other's.
THEOREM BurstsAreSeen == Spec => []DamageShows
<1>1. Init => DamageShows
  BY DEF Init, DamageShows
<1>2. ASSUME IInv, DamageShows, [Next]_vars PROVE DamageShows'
  <2>1. CASE Damage
    BY <1>2, <2>1, DamageStep
  <2>2. CASE Begin \/ FillChunk \/ Patch \/ NextPacket
    <3>1. phase' # "damaged"
      BY <2>2 DEF Begin, FillChunk, Patch, NextPacket
    <3> QED BY <3>1 DEF DamageShows
  <2>3. CASE UNCHANGED vars
    BY <1>2, <2>3 DEF vars, DamageShows, KindSwapped, Straddles
  <2> QED BY <1>2, <2>1, <2>2, <2>3 DEF Next
<1> QED BY <1>1, <1>2, Invariance, PTL DEF Spec
=============================================================================
