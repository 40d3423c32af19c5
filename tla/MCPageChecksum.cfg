SPECIFICATION Spec
CONSTANTS
  Messages <- MCMessages
  Builds = {"slow", "sse42_64", "sse42_32"}
  Addresses <- MCAddresses
  Sizes <- MCSizes
  Bodies <- MCBodies
  PageType = 1
  Damages <- MCDamages
INVARIANTS
  TypeOK
  ReadsInBounds
  CrcIsReference
  DamageDetected
  PageImplemented
CHECK_DEADLOCK FALSE
