CONSTANTS
  MaxPolls = 3
  sensor_count = 3
  Alarms = TRUE
  LateAnswers = TRUE
SPECIFICATION FairSpec
PROPERTIES AlarmExits
CHECK_DEADLOCK FALSE
