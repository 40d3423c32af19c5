------------------------------- MODULE Coding -------------------------------
(***************************************************************************)
(* The integer encodings of common/coding.h and common/coding.cpp that the *)
(* page formats are made of, little-endian fixed32 and varint32, and       *)
(* varint64.                                                               *)
(*                                                                         *)
(* A buffer is a sequence of bytes; an offset into it is 0-based, as in    *)
(* the code, so the byte at offset o is buf[o + 1].  A value is a natural  *)
(* below 2^32.                                                             *)
(***************************************************************************)
EXTENDS Integers, Sequences, FiniteSets, FiniteSetsExt

Byte == 0..255

Bytes(buf, off, n) == SubSeq(buf, off + 1, off + n)

-----------------------------------------------------------------------------
Fixed32(v) == << v % 256, (v \div 256) % 256,
                 (v \div 65536) % 256, (v \div 16777216) % 256 >>

DecodeFixed32(buf, off) ==
  buf[off + 1] + 256 * buf[off + 2] + 65536 * buf[off + 3]
    + 16777216 * buf[off + 4]

-----------------------------------------------------------------------------
(* Pow128[i] is the weight of the i-th seven-bit group of a varint.        *)
Pow128 == << 1, 128, 16384, 2097152, 268435456 >>

(* v is below 2^32, of which TLC cannot read the number.                   *)
IsUint32(v) == v \in Nat /\ v \div Pow128[5] < 16

(* Mutant: the first boundary is off by one.                               *)
VarintLengthOffByOne(v) ==
  IF v <= Pow128[2] THEN 1 ELSE IF v < Pow128[3] THEN 2
  ELSE IF v < Pow128[4] THEN 3 ELSE IF v < Pow128[5] THEN 4 ELSE 5

VarintLength(v) ==
  IF v < Pow128[2] THEN 1 ELSE IF v < Pow128[3] THEN 2
  ELSE IF v < Pow128[4] THEN 3 ELSE IF v < Pow128[5] THEN 4 ELSE 5

EncodeVarint32(v) ==
  [ i \in 1..VarintLength(v) |->
      ((v \div Pow128[i]) % 128) + (IF i < VarintLength(v) THEN 128 ELSE 0) ]

(* The positions, among the `avail` bytes at offset off and at most max,   *)
(* at which a decoding loop finds a byte without continuation bit.         *)
EndsWithin(max, buf, off, avail) ==
  { n \in 1..max : /\ n <= avail
                   /\ buf[off + n] < 128
                   /\ \A j \in 1..(n - 1) : buf[off + j] >= 128 }

(* Mutants of VarintEnds: the buffer is the limit and not the Slice, the   *)
(* limit is off by one.                                                    *)
VarintEndsInBuffer(buf, off, avail) ==
  EndsWithin(5, buf, off, Len(buf) - off)

VarintEndsBelowLimit(buf, off, avail) == EndsWithin(5, buf, off, avail - 1)

VarintEnds(buf, off, avail) == EndsWithin(5, buf, off, avail)

(* The value of the seven-bit groups in the n bytes at offset off.         *)
GroupsValue(buf, off, n) ==
  LET Group(i) == IF i <= n THEN (buf[off + i] % 128) * Pow128[i] ELSE 0
  IN  Group(1) + Group(2) + Group(3) + Group(4) + Group(5)

(* decode_varint32_ptr, for the ends that were found: `ok` is FALSE where  *)
(* the code returns nullptr, and then nothing is stored through the value  *)
(* pointer.                                                                *)
Decoded(buf, off, ends) ==
  LET n == CHOOSE m \in ends : TRUE
  IN  IF ends = {} THEN [ok |-> FALSE, value |-> 0, next |-> off]
      ELSE [ok |-> TRUE, value |-> GroupsValue(buf, off, n), next |-> off + n]

DecodeVarint32(buf, off, avail) ==
  Decoded(buf, off, VarintEnds(buf, off, avail))

(* get_varint32(p, cell_size, &val): the number a field of a page holds.   *)
GetVarint32(buf, off, cell) == DecodeVarint32(buf, off, cell).value

-----------------------------------------------------------------------------
(* A uint64 is the sequence of its seven-bit groups, from the lowest one   *)
(* on and without zeros at the top.                                        *)

IsUint64(groups) ==
  /\ groups \in Seq(0..127) /\ Len(groups) \in 1..10
  /\ groups[Len(groups)] # 0 \/ Len(groups) = 1
  /\ Len(groups) = 10 => groups[10] = 1

EncodeVarint64(groups) ==
  [ i \in DOMAIN groups |->
      groups[i] + (IF i < Len(groups) THEN 128 ELSE 0) ]

(* Mutant: the loop ends before the tenth byte.                            *)
Varint64EndsNineGroups(buf, off, avail) == EndsWithin(9, buf, off, avail)

Varint64Ends(buf, off, avail) == EndsWithin(10, buf, off, avail)

(* The n groups at offset off; of the tenth one bit is in the word.        *)
GroupsAt(buf, off, n) ==
  LET groups == [ i \in 1..n |-> buf[off + i] % (IF i < 10 THEN 128 ELSE 2) ]
  IN  SubSeq(groups, 1, Max({1} \cup { i \in 1..n : groups[i] # 0 }))

DecodeVarint64(buf, off, avail) ==
  LET ends == Varint64Ends(buf, off, avail)
      n    == CHOOSE m \in ends : TRUE
  IN  IF ends = {} THEN [ok |-> FALSE, value |-> << >>, next |-> off]
      ELSE [ok |-> TRUE, value |-> GroupsAt(buf, off, n), next |-> off + n]
=============================================================================
