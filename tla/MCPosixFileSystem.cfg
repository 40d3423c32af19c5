SPECIFICATION Spec
CONSTANTS
  a = a
  b = b
  c = c
  Paths <- MCPaths
  Vars = {v1, v2}
  MaxStreams = 2
SYMMETRY MCSymmetry
INVARIANTS
  TypeOK
  StatusTellsTruth
  ListingComplete
  StreamsClosed
  MessagesBelong
