SPECIFICATION FairSpec
CONSTANTS
  Servers = {"north", "south"}
  Workers = 2
  BatchTables = 2
  MaxBatches <- MCBatches
  MaxFaults = 2
INVARIANTS TypeOK OwnTransaction AllOrNothing ReportedWritten EndsAlone
CHECK_DEADLOCK FALSE
PROPERTIES StoreSpec AllServed
