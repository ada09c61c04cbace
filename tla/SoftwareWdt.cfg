CONSTANTS
  Gap <- MCGap
  SlotCount = 3
  Timeout <- MCTimeout
  Silent = {"get_ship_data", "trans_message"}
  MaxStarve = 5
SPECIFICATION FairSpec
INVARIANT SlotOwned
PROPERTIES NoFalseAlarm FirstSlotDetected
