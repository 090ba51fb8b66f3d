SPECIFICATION LibrarySpec
CONSTANTS
  Procs = {p1, p2}
  Walk <- MCWalk
  IdOf <- MCIdOf
  Suggested = "locks/a"
  Copies <- MCCopies
  Docs <- MCDocs
  NoId = "none stated"
  BuiltIn = "locks/a"
  Shipped <- MCShipped
  Begun <- MCBegun
  MaxOps = 3
SYMMETRY Alike
INVARIANTS
  LoadedRight
PROPERTIES
  RevisionsKept
  ImportAddsOne
