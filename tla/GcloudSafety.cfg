SPECIFICATION SysFairSpec
CONSTANTS
  Publishers = {p1, scan}
  Scanner = scan
  N_MESSAGES = 3
  MaxDrops = 1
  MaxFailures = 1
  MaxDisconnects = 1
  MaxLate = 1
  MaxTrouble = 2
INVARIANTS TypeOK SysTypeOK RenewalHasRoom SubscriptionNotLost RenewalArmed ReceiverRuns
PROPERTIES OneMqttThread RenewsForEver ScanLostOnlyInRenewal
CHECK_DEADLOCK FALSE
