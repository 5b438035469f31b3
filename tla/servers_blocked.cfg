SPECIFICATION Spec
CONSTANTS
  Servers = {"north", "south"}
  Workers = 2
  BatchTables = 2
  MaxBatches <- MCBatches
  MaxFaults = 1
INVARIANT ReceivingNeverBlocked
CHECK_DEADLOCK FALSE
