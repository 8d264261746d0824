SPECIFICATION FairSpec
CONSTANTS
  TransmissionInterval = 5
  SlowAnswers = TRUE
  MaxDrops = 0
  ConnectMayFail = FALSE
  OfflineMayFail = FALSE
  Memory = 2
INVARIANTS FlightModeBetweenUploads
