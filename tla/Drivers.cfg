SPECIFICATION DriversSpec
CONSTANTS
  Players = {p}
  Kinds = {"sweep", "shrink", "cli"}
  Targets = {"timeout", "blocks", "find out"}
  Steps = 3
  Columns = 2
  MaxAttempts = 3
  MaxMessages = 2
  MaxCalls = 1
  MaxTexts = 1
  RunSteps = 2
INVARIANTS
  ReductionVerified
  RunsAccounted
  ConversationInOrder
  StopHeeded
  SavesUpdate
PROPERTIES
  JobEnds
  MessagesHeard
