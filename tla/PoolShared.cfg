SPECIFICATION FairSpec
CONSTANTS
  ui = ui
  cli = cli
  a = a
  b = b
  Instances = {ui, cli}
  CLI = {cli}
  Callers = {a, b}
  HostOf <- BothServed
  Keys = {plain}
  MaxContainers = 2
INVARIANTS
  LiveContainersSpared
  NoneForgotten
PROPERTIES
  ImplementsSingleFlight
  WaitersWake
  LitterIsReaped
