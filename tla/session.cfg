SPECIFICATION FairSpec
CONSTANTS
  Subscriptions = 2
  MaxFaults <- AnyFault
INVARIANTS TypeOK LogTellsState OneSender WarnedOncePerSilence
PROPERTIES HistorySpec Recovers ShutdownEnds
CHECK_DEADLOCK FALSE
