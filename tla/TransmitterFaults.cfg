CONSTANTS
  MaxPackets = 3
  MaxStored = 2
  MaxLives = 2
  Faults = {"write", "pipe", "signal", "power", "race", "flash", "fopen"}
SPECIFICATION Spec
INVARIANTS Accounted AtMostOneCopy
PROPERTIES ReplayMarked OfflineFirst LiveInOrder KeepsPromise
CHECK_DEADLOCK FALSE
