SPECIFICATION FairSpec
CONSTANTS
  Publishers = {p1, p2}
  Bodies = {line}
  NStreams = 2
  Capacity = 2
  HistoryLimit = 4
  MaxEvents = 5
INVARIANTS
  DeliveryRight
PROPERTIES
  StreamsEnd
