\* Command lines of every command, and documents of every input.
SPECIFICATION Spec
CONSTANTS
  Trimmed <- MCTrimmed
  Lowered <- MCLowered
  Times <- MCTimes
  Zones <- MCZones
  Urls <- MCUrls
  Long <- MCLong
  Families <- MCFamilies
  Spelled <- MCSpelled
  Json <- MCJson
  Parts <- MCParts
  NoDocument = NoDocument
INVARIANTS
  ReadAsMeant
  PreviewIsFaithful
CHECK_DEADLOCK FALSE
