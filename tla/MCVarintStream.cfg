SPECIFICATION Spec
CONSTANTS
  Values <- MCValues
  Values64 <- MCValues64
  Texts <- MCTexts
  MaxPuts = 2
INVARIANTS
  TypeOK
  GotIsWritten
  FailsOnlyWhenCut
  FourByteCell
CHECK_DEADLOCK FALSE
