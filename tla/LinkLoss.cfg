\* Times in units of 2 s.
CONSTANTS
  SelectTime = 15
  HeartbeatTime = 30
  BackoffBase = 1
  BackoffMax = 15
  FailTime = 15
  PauseTime = 1
  ReplayTime = 1
  ReinitTime = {0, 8}
  TickTime = 2
  Timeout = 30
  MinAge <- MCMinAge
  ClockSteps <- MCForward
  MaxOther = 2
SPECIFICATION Spec
INVARIANTS NoAlarmWhileUp LossIsBounded HeartbeatWhenQuiet
CHECK_DEADLOCK FALSE
