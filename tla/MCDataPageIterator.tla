------------------------- MODULE MCDataPageIterator -------------------------
EXTENDS DataPageIterator

(* Keys that share no byte and one byte with one another, and what is      *)
(* below, between and above them.                                          *)
MCKeys == { << 1, 1 >>, << 1, 2 >>, << 2 >>, << 2, 1, 1 >> }

MCTargets == MCKeys \cup { << 1 >>, << 1, 3 >>, << 3 >> }

MCOneValue  == { << 7 >> }
MCTwoKeys   == { << 1, 2 >>, << 1, 3, 3 >> }
MCTwoValues == { << >>, << 7, 7 >> }

MCWild == { 0, 1, 9 }

MCCrc32cBits(s) == { Len(s) }
=============================================================================
