SPECIFICATION RunnerSpec
CONSTANTS
  SyncedWorks = {p, q}
  AgentWorks = {p}
  Arrivals = {q}
  Leftover = {q}
  MaxMoves = 2
  MaxSetbacks = 1
INVARIANTS
  NoMissedWake
PROPERTIES
  EverythingGoesUp
CHECK_DEADLOCK FALSE
