SPECIFICATION Spec
CONSTANTS
  Runs = {r1, r2}
  Starters = {a, b}
  Users = {u}
  Steppers = {w}
  MaxRuns = 1
  HistoryLimit = 1
  MaxNews = 1
SYMMETRY Alike
INVARIANTS
  CapKept
  NothingDropped
  RecordKeepsUp
PROPERTIES
  ForgottenStaysForgotten
CHECK_DEADLOCK FALSE
