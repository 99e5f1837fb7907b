SPECIFICATION Spec
CONSTANTS
  Entities <- MCEntities
  Kind <- MCKind
  Feed <- MCFeed
  Messages <- MCMessages
  Freshness = 1
  MaxNow = 5
  MaxWrites = 4
  MaxLate = 1
INVARIANTS
  EvidenceAgrees
  NewestAlertShown
  FeedsAgree
PROPERTIES
  InactiveStaysInactive
CHECK_DEADLOCK FALSE
