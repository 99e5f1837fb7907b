SPECIFICATION FlowSpec
CONSTANTS
  Documents <- MCDocuments
  Feed <- MCFeed
  Size <- MCSize
  Body <- MCBody
  Traffics <- MCTraffics
  Frames = {1, 2, 4}
  MaxRecords = 1
  MaxBytes = 3
  MaxCaptures = 3
  MaxTaken <- MCMaxTaken
  MaxPending = 1
  MaxLives = 2
INVARIANTS
  FlowTypeOK
  Newest
  EvictedForNeed
  PublishedIsKept
  MalformedIsKept
  RefsAgree
  ProjectedIsSound
  PublishedIsAccepted
CHECK_DEADLOCK FALSE
