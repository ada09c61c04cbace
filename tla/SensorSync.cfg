CONSTANTS
  MaxPolls = 3
  sensor_count = 3
  Alarms = TRUE
  LateAnswers = FALSE
SPECIFICATION FairSpec
INVARIANTS NoLostWakeup RoundsArePolled ValuesOfThisRound QuietAtExit
PROPERTIES PollStartsRound AlarmExits
CHECK_DEADLOCK FALSE
