SPECIFICATION FairSpec
CONSTANTS
  Words = {a, b}
  Old = Old
  New = New
  Calls = {c1, c2}
  MaxMoves = 3
  QueueSize = 1
CONSTRAINT Bounds
INVARIANTS
  FreshIsTrue
PROPERTIES
  WordsKept
  SummaryCatchesUp
CHECK_DEADLOCK FALSE
