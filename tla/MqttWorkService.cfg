SPECIFICATION FairSpec
CONSTANTS
  TransmissionInterval = 5
  SlowAnswers = FALSE
  MaxDrops = 0
  ConnectMayFail = TRUE
  OfflineMayFail = FALSE
  Memory = 3
INVARIANTS TypeOK NoSocketLeft ConnectMeansConnected AckMeansDelivered FlightModeBetweenUploads
PROPERTIES ImplementsUplink AlarmDelivered PeriodicUploads MemoryRecovered
