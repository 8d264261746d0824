SPECIFICATION FairSpec
CONSTANTS
  Publishers = {p1}
  N_MESSAGES = 3
  MaxDrops = 1
  MaxDisconnects = 0
  MaxFailures = 0
  MaxLate = 0
  MaxTrouble = 1
PROPERTIES KeepsReconnecting
CHECK_DEADLOCK FALSE
