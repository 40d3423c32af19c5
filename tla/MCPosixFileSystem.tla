-------------------------- MODULE MCPosixFileSystem --------------------------
EXTENDS PosixFileSystem, TLC

CONSTANTS a, b, c

(* A directory and two names in it.                                        *)
MCPaths == { << a >>, << a, b >>, << a, c >> }

(* The Status variables are interchangeable, and the two names are; only   *)
(* invariants are checked with this.                                       *)
MCSymmetry == Permutations(Vars) \cup Permutations({b, c})
=============================================================================
