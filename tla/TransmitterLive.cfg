CONSTANTS
  MaxPackets = 5
  MaxStored = 1
  MaxLives = 1
  Faults = {"write", "read", "truncate"}
SPECIFICATION FairSpec
INVARIANTS BacklogBounded
PROPERTIES EverythingSent
