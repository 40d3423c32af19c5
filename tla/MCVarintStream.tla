--------------------------- MODULE MCVarintStream ---------------------------
EXTENDS VarintStream

(* Both sides of every length boundary of the encoding; the largest value  *)
(* is the largest integer TLC represents.                                  *)
MCValues == { 0, 1, 127, 128, 300, 16383, 16384, 2097151, 2097152,
              268435455, 268435456, 2147483647 }

(* 127, 128, 2^32, 2^63 - 1, 2^63 and 2^64 - 1.                            *)
MCValues64 ==
  { << 127 >>, << 0, 1 >>, << 0, 0, 0, 0, 16 >>,
    [ i \in 1..9 |-> 127 ],
    [ i \in 1..10 |-> IF i = 10 THEN 1 ELSE 0 ],
    [ i \in 1..10 |-> IF i = 10 THEN 1 ELSE 127 ] }

(* None, and one whose bytes look like the beginning of a varint.          *)
MCTexts == { << >>, << 200, 129 >> }
=============================================================================
