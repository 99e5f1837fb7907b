SPECIFICATION ScenarioSpec
CONSTANTS
  Writers = {scenario}
  Entities <- MCEntities
  Messages = {"heartbeat", "position", "unknown", "operator", "chat", "alert"}
  NoEntity = NoEntity
  NoMessage = NoMessage
  Steps <- MCSteps
  Malformed <- MCMalformed
  Accepts <- MCHosts
  WriteRetries = 4
  MaxSends = 1
  hosted = hosted
  scenario = scenario
  Runner = scenario
  Fixture <- HADR
  Direct <- MCDirect
  FeedOf <- MCFeedOf
  SinkChoices <- MCSinks
INVARIANT ReplaysOnStartup
CHECK_DEADLOCK FALSE
