SPECIFICATION Spec
CONSTRAINT ThreeAfterFault
CONSTANTS
  d1 = d1
  d2 = d2
  w1 = w1
  w2 = w2
  Devices = {d1, d2}
  Words = {w1, w2}
  Conversation = {w2}
  MaxRevision = 4
  MaxFaults = 1
  Manual = {d1}
  Deleters = {}
  Racers = {}
INVARIANTS
  NoWordLost
  NoLostUpdate
  InStep
PROPERTIES
  PullSparesUnsent
  MovesWords
CHECK_DEADLOCK FALSE
