-------------------------------- MODULE Bloom --------------------------------
(***************************************************************************)
(* util/bloom.cpp, the filter policy the library comes with: CreateFilter  *)
(* makes the filter of a list of keys, KeyMayMatch asks a filter about a   *)
(* key.  A policy is its bits_per_key_.                                    *)
(*                                                                         *)
(*   byte*  number of probes                                               *)
(***************************************************************************)
EXTENDS Hash

CONSTANT HashedKeys   \* the keys there are

BloomHash(key) == HashOf(key, << 52, 29, 159, 188 >>)

Clamp(n, low, high) == Max({low, Min({n, high})})

(* k_ of a policy: 0.69 per bit, rounded down, between 1 and 30.           *)
Probes(bitsPerKey) == Clamp((bitsPerKey * 69) \div 100, 1, 30)

-----------------------------------------------------------------------------
RotatedRight17(h) ==
  LET Half(low, high) == low \div 2 + 128 * (high % 2)
  IN  << Half(h[3], h[4]), Half(h[4], h[1]),
         Half(h[1], h[2]), Half(h[2], h[3]) >>

Modulo(h, n) ==
  (((((h[4] * 256 + h[3]) % n) * 256 + h[2]) % n) * 256 + h[1]) % n

(* h in each of the rounds, of which there are at most 30.                 *)
Rehashed(h) ==
  [ j \in 0..29 |-> Plus(h, Times(RotatedRight17(h), << j, 0, 0, 0 >>)) ]

Hashes == [ key \in HashedKeys |-> Rehashed(BloomHash(key)) ]

(* The bits that the probes of a key touch in an array of bits.            *)
Touched(key, probes, bits) ==
  { Modulo(Hashes[key][j], bits) : j \in 0..(probes - 1) }

BitIsSet(byte, i) == (byte \div (2 ^ i)) % 2 = 1

ByteOf(bitset, b) ==
  LET Bit(i) == IF 8 * b + i \in bitset THEN 2 ^ i ELSE 0
  IN  Bit(0) + Bit(1) + Bit(2) + Bit(3) + Bit(4) + Bit(5) + Bit(6) + Bit(7)

FilterBytes(bitsPerKey, n) == (Max({n * bitsPerKey, 64}) + 7) \div 8

(* Mutant: the bits that fill up the last byte are not used.               *)
UnroundedBits(bitsPerKey, n) == Max({n * bitsPerKey, 64})

FilterBits(bitsPerKey, n) == 8 * FilterBytes(bitsPerKey, n)

(* The bits that a filter of a list sets.                                  *)
BitsOfList(bitsPerKey, list) ==
  UNION { Touched(list[i], Probes(bitsPerKey),
                  FilterBits(bitsPerKey, Len(list))) : i \in 1..Len(list) }

FilterOfBits(bitset, bytes, probes) ==
  [ b \in 1..bytes |-> ByteOf(bitset, b - 1) ] \o << probes >>

CreateFilter(bitsPerKey, list) ==
  FilterOfBits(BitsOfList(bitsPerKey, list),
               FilterBytes(bitsPerKey, Len(list)), Probes(bitsPerKey))

(* The number of probes is the one in the filter, not that of the policy.  *)
BloomKeyMayMatch(key, filter) ==
  /\ Len(filter) >= 2
  /\ \/ filter[Len(filter)] > 30
     \/ \A pos \in Touched(key, filter[Len(filter)],
                           8 * (Len(filter) - 1)) :
          BitIsSet(filter[(pos \div 8) + 1], pos % 8)

-----------------------------------------------------------------------------
(* What a filter is to answer: TRUE exactly if all the bits of the key are *)
(* bits of keys of the list.                                               *)
Matches(bitsPerKey, list, key) ==
  Touched(key, Probes(bitsPerKey),
          FilterBits(bitsPerKey, Len(list)))
    \subseteq BitsOfList(bitsPerKey, list)
=============================================================================
