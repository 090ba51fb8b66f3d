SPECIFICATION Spec
CONSTANTS
  Publishers = {p1, p2}
  Bodies = {line}
  NStreams = 2
  Capacity = 2
  HistoryLimit = 4
  MaxEvents = 2
INVARIANT
  NeverPanics
