SPECIFICATION Spec
CONSTANTS
  Slots = {s1}
  Names = {a}
  Inodes = {1}
  Fds = {3, 4}
  Slices <- MCSlices
  Reads <- MCReads
  CloseFails = FALSE
  MaxLength = 3
  MaxAppends = 2
INVARIANT
  ReadReturnsFile
