--------------------------- MODULE MCPageChecksum ---------------------------
EXTENDS PageChecksum

(* The last string of StandardResults in crc32c_test.cpp, which has zeros  *)
(* on both sides, and one of 33 unrelated bytes.                          *)
MCMessages ==
  { << 1, 192, 0, 0, 0, 0, 0, 0, 0, 0, 0, 0, 0, 0, 0, 0,
       20, 0, 0, 0, 0, 0, 4, 0, 0, 0, 0, 20, 0, 0, 0, 24,
       40, 0, 0, 0, 0, 0, 0, 0, 2, 0, 0, 0, 0, 0, 0, 0 >>,
    [ i \in 1..33 |-> (37 * i) % 256 ] }

(* On a 16-byte boundary, next to one on both sides, and in between.       *)
MCAddresses == { 0, 1, 9, 15 }

(* None, below, at and above eight and sixteen, and both loops.            *)
MCSizes == { 0, 1, 5, 8, 17, 24, 33 }

(* A page with nothing in it, a short one and one for all the loops.       *)
MCBodies == { << >>, << 7, 0, 255 >>, [ i \in 1..24 |-> (91 * i) % 256 ] }

(* One bit, two next to each other and 31 apart, and 32 bits.              *)
MCDamages ==
  { { first + bit : bit \in bits } :
      first \in 0..240,
      bits \in { {0}, {0, 1}, {0, 31}, 0..31 } }
=============================================================================
