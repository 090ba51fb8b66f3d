SPECIFICATION FairSpec
CONSTANTS
  NActors = 2
  NSteps = 2
  StepActor <- OneEach
PROPERTIES
  StepsAreTold
