SPECIFICATION Spec
CONSTANTS
  Slots = {s1, s2}
  Names = {a}
  Inodes = {1}
  Fds = {3, 4, 5}
  Slices <- MCSlices
  Reads = {}
  CloseFails = FALSE
  MaxLength = 4
  MaxAppends = 2
SYMMETRY MCSymmetry
INVARIANTS
  TypeOK
  DescriptorsMatchFiles
  WholeAppends
  SyncedIsDurable
PROPERTIES
  ImplementsLog
