SPECIFICATION Spec
CONSTANTS
  Slots = {s1}
  Names = {a}
  Inodes = {1}
  Fds = {3, 4}
  Slices <- MCLongSlices
  Reads <- MCReads
  CloseFails = TRUE
  MaxLength = 3
  MaxAppends = 2
INVARIANTS
  TornIsPrefix
  ReadRightUnlessShort
PROPERTIES
  CallsReturn
