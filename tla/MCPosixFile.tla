----------------------------- MODULE MCPosixFile -----------------------------
EXTENDS PosixFile, TLC

(* A slice that takes up to two rounds.                                   *)
MCSlices     == { << 1, 2 >> }

(* One that takes up to three, and one that takes one.                     *)
MCLongSlices == { << 1, 2, 3 >>, << 4 >> }

(* Reads within a file, up to its end, across it and beyond it, as the     *)
(* file is long.                                                           *)
MCReads == { << 0, 2 >>, << 1, 3 >>, << 3, 1 >> }

(* The slots are interchangeable; only safety is checked with this.        *)
MCSymmetry == Permutations(Slots)
=============================================================================
