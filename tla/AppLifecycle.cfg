SPECIFICATION Spec
CONSTANTS
  Environments <- MCEnvironments
INVARIANTS
  TypeOK
  RunsAsConfigured
  InputsAreHeard
  WritersAreOwned
  ClosedIsQuiet
PROPERTIES
  SignalEnds
CHECK_DEADLOCK FALSE
