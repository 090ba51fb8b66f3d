SPECIFICATION Spec
CONSTANTS
  NActors = 2
  NSteps = 3
  StepActor <- AlternatingSteps
  Expect <- AlternatingClaims
  Answers = {"ok", "deadlock"}
  MaxConsoleSessions = 1
  MaxOpens = 1
  MaxEntries = 1
INVARIANTS
  StatementsRight
  FinishedMeansSettled
PROPERTIES
  OutcomeIsFinal
  BlocksClaimStands
  ImplementsPlayback
