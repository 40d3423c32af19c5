------------------------------- MODULE Crc32c -------------------------------
(***************************************************************************)
(* util/crc32c.cpp and util/crc32c.h: crc32c::Extend() over a stream of    *)
(* bytes, which the caller cuts into buffers at any addresses, in the      *)
(* three ways that it may be built.                                        *)
(*                                                                         *)
(* A word is the set of the positions of its 1 bits.  The loops of         *)
(* ExtendImpl() have an action for each round, and the pointers are        *)
(* offsets into the buffer, so that e is call.size.                        *)
(***************************************************************************)
EXTENDS Integers, Sequences, FiniteSetsExt

CONSTANTS
  Messages,   \* the streams, sequences of bytes
  Builds,     \* "slow", "sse42_64", "sse42_32": what the compiler defined
  Addresses,  \* bound: the addresses of buffers
  Sizes       \* bound: the sizes of buffers

ASSUME Crc32cAssumption ==
  /\ Messages \subseteq Seq(0..255)
  /\ Builds \subseteq {"slow", "sse42_64", "sse42_32"}
  /\ Addresses \subseteq Nat /\ Sizes \subseteq Nat

VARIABLES
  message,  \* the stream
  build,    \* how the code is built
  done,     \* how much of the stream the calls before were given
  crc,      \* what the last of them returned, 0 before
  call,     \* the Extend() under way: buf and size
  p, l      \* its variables

crcVars == << message, build, done, crc, call, p, l >>

Idle == [size |-> -1]
Word == SUBSET (0..31)
Octets == SUBSET (0..7)

CrcInit(messages) ==
  /\ message \in messages /\ build \in Builds
  /\ done = 0 /\ crc = {}
  /\ call = Idle /\ p = 0 /\ l = {}

-----------------------------------------------------------------------------
Xor(v, w) == (v \ w) \cup (w \ v)

(* Mutant: the constant is as wide as l.                                   *)
Complement64(w) == Xor(w, 0..63)

Complement(w) == Xor(w, 0..31)

ShiftRight(w, n) == { i - n : i \in { j \in w : j >= n } }
Octet(w, n) == { i \in 0..7 : i + 8 * n \in w }

OctetOf == [ byte \in 0..255 |->
               { i \in 0..7 : (byte \div (2 ^ i)) % 2 = 1 } ]

(* The bits of a little-endian word.                                       *)
BitsOf(bytes) ==
  UNION { { i + 8 * (k - 1) : i \in OctetOf[bytes[k]] } : k \in 1..Len(bytes) }

(* The polynomial, 0x82f63b78, and a division by it that is n bits long.   *)
Polynomial == { 31, 25, 23, 22, 21, 20, 18, 17, 13, 12, 11, 9, 8, 6, 5, 4, 3 }

(* One bit of it.                                                          *)
Halved(w) ==
  IF 0 \in w THEN Xor(ShiftRight(w, 1), Polynomial) ELSE ShiftRight(w, 1)

Divided(w, n) ==
  LET after[k \in Nat] == IF k = 0 THEN w ELSE Halved(after[k - 1])
  IN  after[n]

(* The literals of table0_, and those of the table after a table, which    *)
(* are what the division makes of an octet followed by one more octet.     *)
Table0 == [ octet \in Octets |-> Divided(octet, 8) ]

TableAfter(table) ==
  [ octet \in Octets |->
      Xor(ShiftRight(table[octet], 8), Table0[Octet(table[octet], 0)]) ]

Table1 == TableAfter(Table0)
Table2 == TableAfter(Table1)
Table3 == TableAfter(Table2)

(* The literals at 1 and 255 of each table in crc32c.cpp.                  *)
ASSUME TableLiterals ==
  \A entry \in {
      << Table0, 1, << 3, 131, 107, 242 >> >>,
      << Table1, 1, << 119, 152, 162, 19 >> >>,
      << Table2, 1, << 126, 146, 65, 165 >> >>,
      << Table3, 1, << 184, 170, 69, 221 >> >>,
      << Table0, 255, << 81, 83, 125, 173 >> >>,
      << Table1, 255, << 131, 36, 227, 163 >> >>,
      << Table2, 255, << 168, 43, 5, 145 >> >>,
      << Table3, 255, << 66, 232, 3, 40 >> >> } :
    entry[1][OctetOf[entry[2]]] = BitsOf(entry[3])

-----------------------------------------------------------------------------
(* The byte at an offset into the buffer, zeros behind the stream, and the *)
(* eight of them that LE_LOAD64, or LE_LOAD32 twice, reads.                *)
At(offset) ==
  IF done + offset < Len(message) THEN message[done + offset + 1] ELSE 0

Load(offset) == BitsOf([ k \in 1..8 |-> At(offset + k - 1) ])

(* Mutant: the tables in the other order.                                  *)
TablesSwapped(c) ==
  Xor(Xor(Table0[Octet(c, 0)], Table1[Octet(c, 1)]),
      Xor(Table2[Octet(c, 2)], Table3[Octet(c, 3)]))

SlowRound(c) ==
  Xor(Xor(Table3[Octet(c, 0)], Table2[Octet(c, 1)]),
      Xor(Table1[Octet(c, 2)], Table0[Octet(c, 3)]))

Slow(w, data) ==
  SlowRound(Xor(SlowRound(Xor(w, data \cap (0..31))), ShiftRight(data, 32)))

(* _mm_crc32_u32 and _mm_crc32_u64, octet by octet.                        *)
DividedOctet == [ w \in SUBSET Nat |-> Divided(w, 8) ]

Hardware32(w, data) ==
  LET D == DividedOctet
  IN  D[D[D[D[Xor(w, data)]]]]

Hardware64(w, data) == Hardware32(Hardware32(w, data), {})

(* Slow_CRC32 or Fast_CRC32: eight octets.                                 *)
Crc32(w, data) ==
  CASE build = "slow" -> Slow(w, data)
    [] build = "sse42_64" -> Hardware64(w, data)
    [] build = "sse42_32" ->
         Hardware32(Hardware32(w, data \cap (0..31)), ShiftRight(data, 32))

(* The offset of the first address that is divisible by 16.                *)
X == 16 * ((call.addr + 15) \div 16) - call.addr

ExtendBegin(addr, size) ==
  /\ call = Idle /\ done + size <= Len(message)
  /\ call' = [addr |-> addr, size |-> size]
  /\ p' = 0 /\ l' = Complement(crc)
  /\ UNCHANGED << message, build, done, crc >>

Advance(n, w) ==
  /\ p' = p + n /\ l' = w
  /\ UNCHANGED << message, build, done, crc, call >>

(* STEP1. *)
OneByte ==
  Advance(1, Xor(Table0[Xor(Octet(l, 0), OctetOf[At(p)])], ShiftRight(l, 8)))

(* Mutant: x may be behind the end.                                        *)
AligningBehindEnd == p < X

Aligning == p < X /\ X <= call.size

AlignStep == call # Idle /\ Aligning /\ OneByte

Left == call.size - p

SixteenBytes ==
  /\ call # Idle /\ ~Aligning /\ Left >= 16
  /\ Advance(16, Crc32(Crc32(l, Load(p)), Load(p + 8)))

EightBytes ==
  /\ call # Idle /\ ~Aligning /\ Left >= 8 /\ Left < 16
  /\ Advance(8, Crc32(l, Load(p)))

LastByte == call # Idle /\ ~Aligning /\ Left < 8 /\ Left # 0 /\ OneByte

Return ==
  /\ call # Idle /\ ~Aligning /\ Left = 0
  /\ crc' = Complement(l)
  /\ done' = done + call.size
  /\ call' = Idle /\ p' = 0 /\ l' = {}
  /\ UNCHANGED << message, build >>

ExtendStep == AlignStep \/ SixteenBytes \/ EightBytes \/ LastByte \/ Return

-----------------------------------------------------------------------------
(* CRC-32C by its definition, the remainder of a division of polynomials,  *)
(* which are sets of exponents: those of the bits that follow the n-th,    *)
(* each byte from its lowest bit on, with the first 32 bits inverted and   *)
(* 32 zeros behind.                                                        *)
Generator ==
  { 32, 28, 27, 26, 25, 23, 22, 20, 19, 18, 14, 13, 11, 10, 9, 8, 6, 0 }

(* A step of it, at an exponent, and eight of them from an exponent down. *)
Reduced(degree, dividend) ==
  IF degree \in dividend
  THEN Xor(dividend, { degree - 32 + e : e \in Generator })
  ELSE dividend

ReducedOctet(degree) ==
  [ dividend \in SUBSET Int |->
      LET after[k \in Nat] ==
            IF k = 0 THEN dividend ELSE Reduced(degree + 1 - k, after[k - 1])
      IN  after[8] ]

Reference(bytes) ==
  LET n == Len(bytes)
      rest[k \in Nat] ==
        IF k = 0 THEN { 8 * n + 31 - t : t \in Xor(BitsOf(bytes), 0..31) }
        ELSE ReducedOctet(8 * (n - k) + 39)[rest[k - 1]]
  IN  { i \in 0..31 : 31 - i \notin rest[n] }

(* The definition gives the results of crc32c_test.cpp:38-52.              *)
ASSUME StandardResults ==
  /\ Reference([ i \in 1..32 |-> 0 ]) = BitsOf(<< 170, 54, 145, 138 >>)
  /\ Reference([ i \in 1..32 |-> 255 ]) = BitsOf(<< 67, 171, 168, 98 >>)
  /\ Reference([ i \in 1..32 |-> i - 1 ]) = BitsOf(<< 78, 121, 221, 70 >>)
  /\ Reference([ i \in 1..32 |-> 32 - i ]) = BitsOf(<< 92, 219, 63, 17 >>)

References ==
  [ m \in Messages |->
      [ n \in 0..Len(m) |-> Reference(SubSeq(m, 1, n)) ] ]
=============================================================================
