-------------------------------- MODULE Hash --------------------------------
(***************************************************************************)
(* util/hash.cpp: Hash(), on words of 32 bits, which are sequences of      *)
(* their four bytes from the lowest one on.                                *)
(***************************************************************************)
EXTENDS Integers, Sequences, FiniteSetsExt

Carried(c1, c2, c3, c4) ==
  LET d2 == c2 + c1 \div 256
      d3 == c3 + d2 \div 256
      d4 == c4 + d3 \div 256
  IN  << c1 % 256, d2 % 256, d3 % 256, d4 % 256 >>

(* Sums and products of words lose what is beyond 32 bits.                 *)
Plus(v, w) == Carried(v[1] + w[1], v[2] + w[2], v[3] + w[3], v[4] + w[4])

Times(v, w) ==
  Carried(v[1] * w[1],
          v[1] * w[2] + v[2] * w[1],
          v[1] * w[3] + v[2] * w[2] + v[3] * w[1],
          v[1] * w[4] + v[2] * w[3] + v[3] * w[2] + v[4] * w[1])

XorBytes(a, b) ==
  LET Bit(i) == (2 ^ i) * ((a \div (2 ^ i) + b \div (2 ^ i)) % 2)
  IN  Bit(0) + Bit(1) + Bit(2) + Bit(3) + Bit(4) + Bit(5) + Bit(6) + Bit(7)

Xored(v, w) == [ i \in 1..4 |-> XorBytes(v[i], w[i]) ]

(* 0xc6a4a793 *)
M == << 147, 167, 164, 198 >>

Mixed(h, w) == Times(Plus(h, w), M)

(* The word of up to four bytes of data from the n-th on.                  *)
WordAt(data, n) ==
  [ i \in 1..4 |-> IF n + i <= Len(data) + 1 THEN data[n + i - 1] ELSE 0 ]

HashOf(data, seed) ==
  LET n == Len(data)
      rounds[k \in Nat] ==
        IF k = 0
        THEN Xored(seed, Times(<< n % 256, n \div 256, 0, 0 >>, M))
        ELSE LET h == Mixed(rounds[k - 1], WordAt(data, 4 * k - 3))
             IN  Xored(h, << h[3], h[4], 0, 0 >>)
      rest == Mixed(rounds[n \div 4], WordAt(data, 4 * (n \div 4) + 1))
  IN  IF n % 4 = 0 THEN rounds[n \div 4]
      ELSE Xored(rest, << rest[4], 0, 0, 0 >>)

(* The results of hash_test.cpp:12-35, bytes above 127 in every place.     *)
ASSUME SignedUnsignedIssue ==
  LET seed == << 52, 29, 159, 188 >>
  IN  /\ HashOf(<< >>, seed) = seed
      /\ HashOf(<< 98 >>, seed) = << 196, 69, 19, 239 >>
      /\ HashOf(<< 195, 151 >>, seed) = << 20, 56, 102, 91 >>
      /\ HashOf(<< 226, 153, 165 >>, seed) = << 143, 7, 60, 50 >>
      /\ HashOf(<< 225, 128, 185, 50 >>, seed) = << 58, 99, 33, 237 >>
=============================================================================
