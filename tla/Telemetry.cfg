CONSTANTS
  Thread = {"main", "ship_data", "trans_message"}
  Fresh = 2
  Slow = 1
  MaxError = 1
  MaxTime = 4
  PoolSize = 2
  BufSize = 2048
  MaxQueue = 2
  MnWidths = {16, 99}
  Messages <- MCMessages
SPECIFICATION Spec
INVARIANTS EndsWhereLengthSays EveryRoundIsWhole ChecksumCatchesOneBit
           StoredIsReplayed
PROPERTIES CpuIsRecent
CHECK_DEADLOCK FALSE
