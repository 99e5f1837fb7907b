SPECIFICATION Spec
CONSTANTS
  Targets <- MCTargets
  Seeds <- MCSeeds
  Modes <- MCModes
  Limit = 2
INVARIANTS
  TypeOK
  MissingIsReported
  CutOffIsFull
  SeedsBackUp
  OutageIsTotal
PROPERTIES
  SnapshotEnds
