SPECIFICATION ScenarioFairSpec
CONSTANTS
  Writers = {hosted, scenario}
  Entities <- MCEntities
  Messages = {"position", "alert"}
  NoEntity = NoEntity
  NoMessage = NoMessage
  Steps <- MCSteps
  Malformed <- MCMalformed
  Accepts <- MCHosts
  WriteRetries = 3
  MaxSends = 2
  hosted = hosted
  scenario = scenario
  Runner = scenario
  Fixture <- Drone
  Direct <- MCDirect
  FeedOf <- MCFeedOf
  SinkChoices <- MCSinks
INVARIANTS
  UpdatesLand
  ReportedIsInGraph
  FaultlessRunSucceeds
PROPERTIES
  ImplementsBornFirst
  RunEnds
CHECK_DEADLOCK FALSE
