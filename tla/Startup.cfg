CONSTANTS
  NumDevices = 2
  RegistLimit = 5
  IdleLimit = 6
  IdlePackets = 5
  Retry17 = 3
  ListenNum = 3
  MaxRun = 2
  MaxSignals = 2
  MayNotOpen = TRUE
SPECIFICATION FairSpec
INVARIANTS ZeroWhenStopped PidWhileRunning SharedBudget
PROPERTIES AttemptsRunOut RegistrationEnds
CHECK_DEADLOCK FALSE
