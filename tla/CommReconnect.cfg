CONSTANTS
  Clients = {"wifi"}
  Threshold = 5
  Cooldown = 30
  FdMax = 8
SPECIFICATION FairSpec
PROPERTIES WillReconnect
