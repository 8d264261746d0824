SPECIFICATION FairSpec
CONSTANTS
  TransmissionInterval = 5
  SlowAnswers = TRUE
  MaxDrops = 2
  ConnectMayFail = TRUE
  OfflineMayFail = TRUE
  Memory = 2
INVARIANTS FlagMatchesSession
PROPERTIES AlarmWorkEnds
