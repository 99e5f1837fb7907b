SPECIFICATION Spec
CONSTANTS
  Writers = {hosted}
  Entities <- MCEntities
  Messages = {"four", "pair", "anonymous"}
  NoEntity = NoEntity
  NoMessage = NoMessage
  Steps <- MCSteps
  Malformed <- MCMalformed
  Accepts <- MCAccepts
  Direct <- MCDirect
  WriteRetries = 4
  MaxSends = 1
  hosted = hosted
  scenario = scenario
INVARIANTS
  SnapshotsReconcile
