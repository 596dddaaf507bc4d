------------------------------ MODULE Checksum ------------------------------
(***************************************************************************)
(* The two checksums of common/src/checksum.cpp in their real widths.  A   *)
(* word is the set of the numbers of its one bits, bit 0 being the least   *)
(* significant, so that exclusive or is the symmetric difference.          *)
(***************************************************************************)
EXTENDS Naturals, Sequences

Byte == SUBSET (0..7)

Xor(a, b)  == (a \ b) \cup (b \ a)
Shr(w, n)  == {b - n : b \in {c \in w : c >= n}}
LowByte(w) == w \cap (0..7)
ByteAt(w, j) == LowByte(Shr(w, 8 * j))

\* Little-endian bytes of a word, and the word that n bytes after the first at
\* ones stand for (load_le32, memcpy into an integer).
Bytes(w, n) == [i \in 1..n |-> ByteAt(w, i - 1)]
LoadLE(data, at, n) == UNION {{b + 8 * j : b \in data[at + 1 + j]} : j \in 0..(n - 1)}

\* The algorithms by their number in the packet header, and their polynomials
\* 0xEDB88320 (crc32) and 0x82F63B78 (crc32c).
Crc32  == 1
Crc32c == 2
Kinds  == {Crc32, Crc32c}

Polynomial(kind) ==
  IF kind = Crc32 THEN {5, 8, 9, 15, 19, 20, 21, 23, 24, 26, 27, 29, 30, 31}
                  ELSE {3, 4, 5, 6, 8, 9, 11, 12, 13, 17, 18, 20, 21, 22, 23, 25, 31}

\* Mutant of ShiftBit: no feedback.
ShiftBitPlain(polynomial, crc) == Shr(crc, 1)

\* One step of the division: the body of the inner loop of make_crc_table().
ShiftBit(polynomial, crc) ==
  IF 0 \in crc THEN Xor(polynomial, Shr(crc, 1)) ELSE Shr(crc, 1)

\* n steps; zero stays zero.
ShiftBits(polynomial, crc, n) ==
  LET after[i \in 0..n] == IF i = 0 THEN crc ELSE ShiftBit(polynomial, after[i - 1])
  IN  IF crc = {} THEN {} ELSE after[n]

\* table[slice][i]: what byte i contributes after slice further zero bytes.
make_crc_table(polynomial) ==
  LET first == [i \in Byte |-> ShiftBits(polynomial, i, 8)]
      table[slice \in 0..7] ==
        IF slice = 0 THEN first
        ELSE [i \in Byte |-> LET prev == table[slice - 1][i]
                             IN  Xor(Shr(prev, 8), first[LowByte(prev)])]
  IN  table

kCrc32Table  == make_crc_table(Polynomial(Crc32))
kCrc32cTable == make_crc_table(Polynomial(Crc32c))

\* Mutant of SliceStep: the tables in the order of the bytes.
SliceStepReversed(table, crc, data, at) ==
  LET eight == Xor(LoadLE(data, at, 8), crc)
      part(j) == table[j][ByteAt(eight, j)]
  IN  Xor(part(7), Xor(part(6), Xor(part(5), Xor(part(4),
        Xor(part(3), Xor(part(2), Xor(part(1), part(0))))))))

\* Eight bytes at once, `one` and `two` of the code side by side: byte j has
\* 7 - j bytes behind it.
SliceStep(table, crc, data, at) ==
  LET eight == Xor(LoadLE(data, at, 8), crc)
      part(j) == table[7 - j][ByteAt(eight, j)]
  IN  Xor(part(7), Xor(part(6), Xor(part(5), Xor(part(4),
        Xor(part(3), Xor(part(2), Xor(part(1), part(0))))))))

\* Both routines take eight bytes at a time and the rest one by one.
EightThenOne(Wide(_, _, _), Narrow(_, _), crc, data) ==
  LET blocks == Len(data) \div 8
      wide[i \in 0..blocks] == IF i = 0 THEN crc ELSE Wide(wide[i - 1], data, 8 * (i - 1))
      all[i \in (8 * blocks)..Len(data)] ==
        IF i = 8 * blocks THEN wide[blocks] ELSE Narrow(all[i - 1], data[i])
  IN  all[Len(data)]

crc_slice_by_8(table, crc, data) ==
  EightThenOne(LAMBDA c, d, at : SliceStep(table, c, d, at),
               LAMBDA c, byte : Xor(table[0][LowByte(Xor(c, byte))], Shr(c, 8)),
               crc, data)

\* The instructions (SSE4.2 crc32, ARMv8 crc32c) divide 64 or 8 bits by the
\* CRC-32C polynomial.
CrcInstruction(crc, operand, bits) == ShiftBits(Polynomial(Crc32c), Xor(crc, operand), bits)

crc32c_hardware(crc, data) ==
  EightThenOne(LAMBDA c, d, at : CrcInstruction(c, LoadLE(d, at, 8), 64),
               LAMBDA c, byte : CrcInstruction(c, byte, 8),
               crc, data)

\* IChecksum: begin, update and finish; hardware says whether Crc32c may use
\* the instructions.
begin == 0..31
finish(state) == Xor(state, 0..31)

update(kind, hardware, state, data) ==
  CASE kind = Crc32               -> crc_slice_by_8(kCrc32Table, state, data)
    [] kind = Crc32c /\ hardware  -> crc32c_hardware(state, data)
    [] kind = Crc32c /\ ~hardware -> crc_slice_by_8(kCrc32cTable, state, data)

\* Reference: the division bit by bit over the whole input.
ReferenceCrc(kind, data) ==
  LET crc[i \in 0..Len(data)] ==
        IF i = 0 THEN begin ELSE ShiftBits(Polynomial(kind), Xor(crc[i - 1], data[i]), 8)
  IN  finish(crc[Len(data)])
=============================================================================
