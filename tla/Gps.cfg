CONSTANTS
  MaxFixes = 2
  MaxQueue = 2
  MaxGaps = 1
SPECIFICATION FairSpec
INVARIANTS LocationIsAFix
PROPERTIES CancelEnds
CHECK_DEADLOCK FALSE
