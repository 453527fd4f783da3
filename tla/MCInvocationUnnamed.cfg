\* Commands that name an event, without its ID.
SPECIFICATION Spec
CONSTANTS
  Trimmed <- MCTrimmed
  Lowered <- MCLowered
  Times <- MCTimes
  Zones <- MCZones
  Urls <- MCUrls
  Long <- MCLong
  Families <- MCUnnamed
  Spelled <- MCSpelled
  Json <- MCJson
  Parts <- MCParts
  NoDocument = NoDocument
INVARIANTS
  EveryFailureAnswers
CHECK_DEADLOCK FALSE
