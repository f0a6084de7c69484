SPECIFICATION Spec
CONSTANTS
  MaxNodes = 4
  Labels = {"old"}
  Start <- TwoScenes
  People = {"ada", "bo", "twin"}
  NameOf <- Name
  Cast <- Pair
  Bonds <- Tied
  Mentions <- AdaInBoth
  MaxWords = 1
  MaxEvents = 1
  MaxBatches = 2
  MaxOps = 3
  MaxSteps = 5
  Window = 2
INVARIANTS
  OutlineWhole
PROPERTIES
  UndoIsExact
  KeepsOrder
CHECK_DEADLOCK FALSE
