SPECIFICATION Spec
CONSTANTS
  Publishers = {p1}
  N_MESSAGES = 3
  MaxDrops = 0
  MaxDisconnects = 0
  MaxFailures = 0
  MaxLate = 1
  MaxTrouble = 1
PROPERTIES ConnectReturnsConnected
CHECK_DEADLOCK FALSE
