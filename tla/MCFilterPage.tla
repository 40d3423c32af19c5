---------------------------- MODULE MCFilterPage ----------------------------
EXTENDS FilterPage, Bloom

(* The empty key, one that is all of it a rest, with a byte above 127, and *)
(* one of a word and a rest.                                               *)
MCKeys == { << >>, << 1, 200, 3 >>, << 1, 5, 9, 250, 7 >> }

(* Bloom filters with the least, some and the most probes, and an array of  *)
(* its least size or, for two keys of 50 bits, one rounded up to bytes.    *)
MCPolicies == { 1, 10, 50 }

(* Blocks in the same range, in adjacent ones, at the edges of a range and *)
(* with ranges between them that no block starts in.                       *)
MCOffsets == { 0, 3, 4, 13 }

MCCrc32cBits(s) == { Len(s) % 32 }
=============================================================================
