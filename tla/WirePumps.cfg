SPECIFICATION FairSpec
CONSTANTS
  MaxCommands = 2
  MaxRows = 1
  RowStarts = {"other", "ok", "null"}
  OkReads = 1
INVARIANTS
  LabelledRight
  RightStatement
PROPERTIES
  ClosedComesLast
  CloseReturns
