SPECIFICATION Spec
CONSTANTS
  Crc32cBits <- MCCrc32cBits
  RestartPointInterval = 2
  PageSize = 80
  PageType = 0
  Keys <- MCTwoKeys
  RecordValues <- MCTwoValues
  KeyMemoryReuse = {FALSE}
  MaxRecords = 5
  MaxFinishes = 1
  SeekTargets = {}
  WildOffsets <- MCWild
PROPERTIES
  ImplementsCursor
CHECK_DEADLOCK FALSE
