SPECIFICATION LiveSpec
CONSTRAINT OneSetback
CONSTANTS
  d1 = d1
  d2 = d2
  w1 = w1
  w2 = w2
  Devices = {d1, d2}
  Words = {w1, w2}
  Conversation = {w2}
  MaxRevision = 10
  MaxFaults = 1
  Manual = {}
  Deleters = {d1}
  Racers = {}
PROPERTIES
  Settles
CHECK_DEADLOCK FALSE
