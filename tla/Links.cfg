CONSTANTS
  Enabled = {"lora", "bt", "lan", "lan_server", "cell4g"}
  PortTries = 2
  ScanTries = 2
  DialTries = 2
  WithGps = TRUE
  FdMax = 12
  Threshold = 2
  Cooldown = 30
  RegistLimit = 2
  IdleLimit = 2
  IdlePackets = 1
  Retry17 = 1
  ListenNum = 1
SPECIFICATION LinksFairSpec
INVARIANTS ListIntact RegisteredIsUsed NothingLeaks EnabledFdHeld NeverRefused
PROPERTIES StrategiesRunOut EndsUnlessChatty ReopenedAtLast
CHECK_DEADLOCK FALSE
