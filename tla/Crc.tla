-------------------------------- MODULE Crc --------------------------------
(***************************************************************************)
(* DataOps: the CRC-32C by processor instructions (x64, ARM64) and by the  *)
(* software's eight tables, of which a build uses one: data that one       *)
(* machine sums are checked on another.  Both loops take eight bytes at a  *)
(* time, then single ones; they run side by side here.                     *)
(*                                                                         *)
(* A word is the set of the positions of its one bits: exclusive or is     *)
(* symmetric difference, and a shift moves positions.                      *)
(***************************************************************************)
EXTENDS Integers, Sequences, FiniteSets

CONSTANTS MaxLen,   \* bound: bytes of the data
          MaxSet,   \* bound: how many of them are not zero
          Values    \* what these are

CrcAssumption == MaxLen \in Nat /\ MaxSet \in Nat /\ Values \subseteq SUBSET (0..7)

VARIABLES data, p,   \* the bytes, and how many have been read
          hw, sw     \* crc in crc32_x64_hw and in crc32_software_slice8
vars == <<data, p, hw, sw>>

Xor(a, b) == (a \ b) \cup (b \ a)
Shr(a, n) == {i - n : i \in {j \in a : j >= n}}
Low8(a) == {i \in a : i < 8}
Bytes == SUBSET (0..7)

\* T is 0x82F63B78, the polynomial.
T == {3, 4, 5, 6, 8, 9, 11, 12, 13, 17, 18, 20, 21, 22, 23, 25, 31}

\* What one bit does to the sum, and a byte: also the crc32 instructions'
\* definition (external).
Bit(crc) == IF 0 \in crc THEN Xor(Shr(crc, 1), T) ELSE Shr(crc, 1)
Byte(crc) == Bit(Bit(Bit(Bit(Bit(Bit(Bit(Bit(crc))))))))

\* Crc32Tables: a table per position in a group of eight bytes.
Table0 == [b \in Bytes |-> Byte(b)]
\* Fault: the byte that was looked up is not shifted out.
NextSlice_unshifted(slice) == [b \in Bytes |-> Xor(slice[b], Table0[Low8(slice[b])])]
NextSlice(slice) == [b \in Bytes |-> Xor(Shr(slice[b], 8), Table0[Low8(slice[b])])]
Table1 == NextSlice(Table0)
Table2 == NextSlice(Table1)
Table3 == NextSlice(Table2)
Table4 == NextSlice(Table3)
Table5 == NextSlice(Table4)
Table6 == NextSlice(Table5)
Table7 == NextSlice(Table6)

-----------------------------------------------------------------------------
Start(d) == data = d /\ p = 0 /\ hw = 0..31 /\ sw = 0..31

\* Short data, zero but for a few bytes.  The sum is linear in them, so that a
\* wrong table shows on one byte already.
Init == \E n \in 0..MaxLen : \E S \in SUBSET (1..n) :
  /\ Cardinality(S) <= MaxSet
  /\ \E v \in [S -> Values] : Start([i \in 1..n |-> IF i \in S THEN v[i] ELSE {}])

At(i) == data[p + i]
\* Byte k of a word.
Of(word, k) == Low8(Shr(word, 8 * k))
\* read_unaligned<u32>: little endian.
read_unaligned(i) == UNION {{8 * k + j : j \in At(i + k)} : k \in 0..3}

Xor4(a, b, c, d) == Xor(Xor(a, b), Xor(c, d))
Slice8 ==
  LET term1 == Xor(sw, read_unaligned(1))
      term2 == read_unaligned(5)
  IN  Xor(Xor4(Table7[Of(term1, 0)], Table6[Of(term1, 1)],
               Table5[Of(term1, 2)], Table4[Of(term1, 3)]),
          Xor4(Table3[Of(term2, 0)], Table2[Of(term2, 1)],
               Table1[Of(term2, 2)], Table0[Of(term2, 3)]))

\* crc32 on a u64, which is two u32's: four bytes each.
Bytes4(crc, i) ==
  Byte(Xor(Byte(Xor(Byte(Xor(Byte(Xor(crc, At(i))), At(i + 1))), At(i + 2))), At(i + 3)))

Step8 ==
  /\ Len(data) - p >= 8
  /\ hw' = Bytes4(Bytes4(hw, 1), 5)
  /\ sw' = Slice8
  /\ p' = p + 8
  /\ UNCHANGED data

Step1 ==
  /\ Len(data) - p \in 1..7
  /\ hw' = Byte(Xor(hw, At(1)))
  /\ sw' = Xor(Shr(sw, 8), Table0[Low8(Xor(sw, At(1)))])
  /\ p' = p + 1
  /\ UNCHANGED data

Next == Step8 \/ Step1
Spec == Init /\ [][Next]_vars

-----------------------------------------------------------------------------
\* After every group the software has the sum that the instructions have, so
\* that crc32 is the same on every machine.
SameEverywhere == hw = sw
=============================================================================
