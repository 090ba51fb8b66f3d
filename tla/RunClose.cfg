SPECIFICATION FairSpec
CONSTANTS
  NActors = 2
  NSteps = 2
  StepActor <- OneEach
  Expect <- OneEachClaims
  Answers = {"ok"}
  MaxConsoleSessions = 1
  MaxOpens = 1
  MaxEntries = 1
INVARIANTS
  ReadyRight
PROPERTIES
  UpRunIsReleased
  ClosedComesToRest
  PlayedToTheEnd
