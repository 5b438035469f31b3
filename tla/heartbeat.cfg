SPECIFICATION FairSpec
CONSTANTS
  MaxHeartbeat = 2
  MaxRtts = 1
  StaleAfter = 4
  MaxLag = 1
  MaxFaults = 2
INVARIANTS TypeOK NoFalseAlarm TripsTrue
PROPERTIES StaleTold Beats
CHECK_DEADLOCK FALSE
