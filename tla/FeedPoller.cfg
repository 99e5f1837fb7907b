SPECIFICATION FairSpec
CONSTANTS
  MaxVersion = 3
  MaxStarts = 2
INVARIANTS
  TagsArePublished
  PublishedOnce
  StopIsQuiet
PROPERTIES
  ContentArrives
CHECK_DEADLOCK FALSE
