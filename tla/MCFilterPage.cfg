SPECIFICATION Spec
CONSTANTS
  Crc32cBits <- MCCrc32cBits
  Policies <- MCPolicies
  PolicyCreateFilter <- CreateFilter
  PolicyKeyMayMatch <- BloomKeyMayMatch
  PolicyMatches <- Matches
  Keys <- MCKeys
  HashedKeys <- MCKeys
  FilterBaseLg = 2
  FilterBase = 4
  FilterPageType = 2
  Offsets <- MCOffsets
  MaxKeys = 2
INVARIANTS
  TypeOK
  PolicyContract
  AssertHolds
  NoFalseNegative
  OneFilterPerRange
CHECK_DEADLOCK FALSE
