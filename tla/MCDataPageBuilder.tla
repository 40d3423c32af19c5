------------------------- MODULE MCDataPageBuilder -------------------------
EXTENDS DataPageBuilder

(* Keys that share no byte and two bytes; one is a prefix of another.      *)
MCKeys == { << 1, 2 >>, << 1, 2, 3 >>, << 2, 2 >> }

MCValues == { << >>, << 7, 7 >> }

(* A checksum that tells apart byte strings that differ in length, or in  *)
(* one byte, or in the order of two bytes.                                 *)
MCCrc32cBits(s) ==
  LET Weighted(i) == s[i] * (i + 2)
      sum == Len(s) + MapThenSumSet(Weighted, 1..Len(s))
  IN  { k \in 0..15 : (sum \div (2 ^ k)) % 2 = 1 }
=============================================================================
