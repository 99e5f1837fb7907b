SPECIFICATION Spec
CONSTANTS
  Entities <- MCEntities
  Kind <- MCKind
  Feed <- MCFeed
  Messages <- MCCalledOff
  Freshness = 1
  MaxNow = 5
  MaxWrites = 4
  MaxLate = 1
INVARIANT
  NewestEvidenceDrivesReadback
CHECK_DEADLOCK FALSE
