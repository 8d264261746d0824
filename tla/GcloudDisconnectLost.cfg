SPECIFICATION FairSpec
CONSTANTS
  Publishers = {p1}
  N_MESSAGES = 3
  MaxDrops = 0
  MaxDisconnects = 1
  MaxFailures = 0
  MaxLate = 0
  MaxTrouble = 1
PROPERTIES DisconnectHonoured
CHECK_DEADLOCK FALSE
