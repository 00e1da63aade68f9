-------------------------------- MODULE Crc32c --------------------------------
(***************************************************************************)
(* crcbench/crc32c.cpp: the CRC-32C of a buffer, byte by byte up to an     *)
(* 8-byte boundary, then by words, then byte by byte.  There is a version  *)
(* for the crc32 instruction, which computes three blocks at a time and    *)
(* joins them, and one with tables for either byte order.  A number is the *)
(* set of its bits, so that xor is symmetric difference, whatever the      *)
(* width; the polynomial and the widths are those of the code.             *)
(***************************************************************************)
EXTENDS Loops, Integers, SequencesExt, FiniteSetsExt

CONSTANTS
    LONG, SHORT,   \* the sizes of blocks: powers of two, multiples of 8
    Lengths,       \* bounds of the model: the lengths of buffers,
    Offsets        \* and their distances from an 8-byte boundary

Bits(n) == 0 .. n - 1

BitXor(x, y) == (x \ y) \cup (y \ x)

Right(x, n) == {b - n : b \in {a \in x : a >= n}}

Left(x, n) == {b + n : b \in x}

(* The i-th byte of a number, from the least significant on.               *)
Byte(x, i) == Right(x, 8 * i) \cap Bits(8)

Complement(x) == Bits(32) \ x

POLY == {31, 25, 23, 22, 21, 20, 18, 17, 13, 12, 11, 9, 8, 6, 5, 4, 3}

Times(f(_), x, n) == FoldLeft(LAMBDA y, i : f(y), x, [i \in 1 .. n |-> i])

XorOver(S, f(_)) == FoldSet(LAMBDA i, sum : BitXor(sum, f(i)), {}, S)

(* One bit of the crc moves out.                                           *)
OneBit(crc) == BitXor(Right(crc, 1), IF 0 \in crc THEN POLY ELSE {})

(* What the crc32 instruction does to a byte.                              *)
crc32b(crc, byte) == Times(OneBit, BitXor(crc, byte), 8)

-----------------------------------------------------------------------------
(* Shifting a crc by zeros, with a matrix over the bits.                   *)

gf2_matrix_times(mat, vec) == XorOver(vec, LAMBDA n : mat[n + 1])

(* As a sequence of rows, which TLC computes at once: a function of n would*)
(* be evaluated anew at every use, by squares of squares.                  *)
gf2_matrix_square(mat) == SubSeq([n \in 1 .. 32 |-> gf2_matrix_times(mat, mat[n])], 1, 32)

(* The loop halves len until it is zero, and squares once for each.        *)
Halvings(len) == CHOOSE n \in 1 .. 32 : len < 2^n /\ (n = 1 \/ 2^(n - 1) <= len)

crc32c_zeros_op(len) ==
    Times(gf2_matrix_square, [n \in 1 .. 32 |-> IF n = 1 THEN POLY ELSE {n - 2}],
          2 + Halvings(len))

crc32c_zeros(len) ==
    LET op == crc32c_zeros_op(len)
    IN  [i \in Bits(4) |-> [n \in SUBSET Bits(8) |-> gf2_matrix_times(op, Left(n, 8 * i))]]

crc32c_shift(zeros, crc) == XorOver(Bits(4), LAMBDA i : zeros[i][Byte(crc, i)])

crc32c_long  == crc32c_zeros(LONG)
crc32c_short == crc32c_zeros(SHORT)

-----------------------------------------------------------------------------
(* The tables of the software versions.                                    *)

(* crc32c_table_little[0] and crc32c_table_big_byte.                       *)
byte_table == [n \in SUBSET Bits(8) |-> crc32b({}, n)]

ByTable(crc) == BitXor(byte_table[Byte(crc, 0)], Right(crc, 8))

crc32c_table_little ==
    [k \in Bits(8) |-> [n \in SUBSET Bits(8) |-> Times(ByTable, byte_table[n], k)]]

swap(x) == {8 * (7 - (b \div 8)) + (b % 8) : b \in x}

crc32c_table_big ==
    [k \in Bits(8) |-> [n \in SUBSET Bits(8) |-> swap(crc32c_table_little[k][n])]]

-----------------------------------------------------------------------------
(* A buffer: its bytes, from an offset on.  The i-th byte of each differs  *)
(* from its neighbours'.                                                   *)
Buffers == {[at    |-> at,
             bytes |-> [i \in 1 .. n |-> {b \in Bits(8) : ((37 * i + 11) \div (2^b)) % 2 = 1}]] :
                at \in Offsets, n \in Lengths}

ByteAt(i) == input.buf.bytes[i]

Bytes(from, n) == [i \in 1 .. n |-> ByteAt(from + i)]

(* In halves; TLC computes the crc of the first before it begins with the  *)
(* second, as it is an element of a set.                                   *)
RECURSIVE crc32_over(_, _)
crc32_over(crc, bytes) ==
    LET n == Len(bytes)
        h == n \div 2
    IN  IF n = 0 THEN crc
        ELSE IF n = 1 THEN crc32b(crc, bytes[1])
        ELSE CHOOSE all \in {crc32_over(half, SubSeq(bytes, h + 1, n)) :
                                half \in {crc32_over(crc, SubSeq(bytes, 1, h))}} : TRUE

(* A call of crc32c() for the bytes up to local.end, or two calls: the     *)
(* second is given what the first returned.                                *)
crc32c_starts ==
    \E buf \in Buffers, machine \in {"sse4.2", "little endian", "big endian"},
       init \in {"crc32c_init", "crc32c_init_sw"} :
       \E cut \in {0, 5, Len(buf.bytes)} :
          /\ cut <= Len(buf.bytes)
          /\ Given("crc32c", {[buf |-> buf, machine |-> machine, init |-> init]})
          /\ local = [crc |-> Complement({}), next |-> 0, end |-> cut, stage |-> "lead"]

(* crc32c_init() takes what the processor has; crc32c_init_sw() does not   *)
(* ask, and crc32c_sw() chooses by the order of the bytes in an int.       *)
Version == IF input.machine = "big endian" THEN "big"
           ELSE IF input.machine = "sse4.2" /\ input.init = "crc32c_init" THEN "hw"
           ELSE "little"

Remaining == local.end - local.next

Aligned == (input.buf.at + local.next) % 8 = 0

Stage(s) == Runs("crc32c") /\ local.stage = s

Enters(s) == Continue([local EXCEPT !.stage = s])

Takes(n, crc) == Continue([local EXCEPT !.next = @ + n, !.crc = crc])

NextByte == IF Version = "hw" THEN crc32b(local.crc, ByteAt(local.next + 1))
            ELSE ByTable(BitXor(local.crc, ByteAt(local.next + 1)))

Lead == /\ Stage("lead")
        /\ \/ Remaining > 0 /\ ~Aligned /\ Takes(1, NextByte)
           \/ (Remaining = 0 \/ Aligned) /\ Enters("blocks")

(* Mutant: the second block is joined to the crc without shifting it.      *)
JoinedUnshifted(zeros, crc0, crc1, crc2) == BitXor(BitXor(crc32c_shift(zeros, crc0), crc1), crc2)

Joined(zeros, crc0, crc1, crc2) ==
    BitXor(crc32c_shift(zeros, BitXor(crc32c_shift(zeros, crc0), crc1)), crc2)

(* Three blocks at once, each with its own crc.                            *)
ThreeBlocks(size, zeros) ==
    Takes(3 * size, Joined(zeros, crc32_over(local.crc, Bytes(local.next, size)),
                                  crc32_over({}, Bytes(local.next + size, size)),
                                  crc32_over({}, Bytes(local.next + 2 * size, size))))

Blocks == /\ Stage("blocks")
          /\ \/ Version = "hw" /\ Remaining >= 3 * LONG /\ ThreeBlocks(LONG, crc32c_long)
             \/ /\ Version = "hw" /\ Remaining < 3 * LONG /\ Remaining >= 3 * SHORT
                /\ ThreeBlocks(SHORT, crc32c_short)
             \/ (Version = "hw" => Remaining < 3 * SHORT) /\ Enters("words")

(* The word at next, as the machine loads it.                              *)
LoadedLittle == UNION {Left(ByteAt(local.next + i), 8 * (i - 1)) : i \in 1 .. 8}
LoadedBig    == UNION {Left(ByteAt(local.next + i), 8 * (8 - i)) : i \in 1 .. 8}

NextWord ==
    CASE Version = "hw" -> crc32_over(local.crc, Bytes(local.next, 8))
      [] Version = "little" ->
            LET crcw == BitXor(local.crc, LoadedLittle)
            IN  XorOver(Bits(8), LAMBDA i : crc32c_table_little[7 - i][Byte(crcw, i)])
      [] Version = "big" ->
            LET crcw == BitXor(swap(local.crc), LoadedBig)
            IN  swap(XorOver(Bits(8), LAMBDA i : crc32c_table_big[i][Byte(crcw, i)]))

EightBytes == /\ Stage("words")
              /\ \/ Remaining >= 8 /\ Takes(8, NextWord)
                 \/ Remaining < 8 /\ Enters("trail")

(* The last call returns; another begins where one ended, with what that   *)
(* returned: what was complemented at the end is complemented again.       *)
Trail == /\ Stage("trail")
         /\ \/ Remaining > 0 /\ Takes(1, NextByte)
            \/ Remaining = 0 /\ local.end = Len(input.buf.bytes) /\ Return(Complement(local.crc))
            \/ /\ Remaining = 0 /\ local.end < Len(input.buf.bytes)
               /\ Continue([local EXCEPT !.stage = "lead", !.end = Len(input.buf.bytes)])

crc32c_round == Lead \/ Blocks \/ EightBytes \/ Trail
-----------------------------------------------------------------------------
(* Every version returns the same, the crc computed bit by bit, wherever   *)
(* the buffer begins and however it is cut in pieces.                      *)
CrcRight == Returned("crc32c") => result = Complement(crc32_over(Complement({}), input.buf.bytes))
=============================================================================
