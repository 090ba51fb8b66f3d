SPECIFICATION ViewsSpec
CONSTANTS
  MaxRows = 3
  MaxLetters = 2
  MaxSteps = 3
  Actors = {"a", "b"}
  MaxOutcomes = 2
  Durations = {49, 50}
  Columns = {1, 2}
  MaxWaiting = 3
  Layers = {1, 2}
  Sizes = {1, 2}
INVARIANTS LocksRight ReportsRight
CHECK_DEADLOCK FALSE
