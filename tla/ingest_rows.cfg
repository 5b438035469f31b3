SPECIFICATION Spec
CONSTANTS
  Metrics = {"events"}
  Tags = {"tag"}
  Collector = "collector"
  Table <- MCTable
  Idempotent = {"events"}
  Window <- MCWindow
  QueueMax = 1
  PendingMax = 1
  MaxPublish = 2
  MaxArrivals = 3
  MaxFaults <- DbFaults
INVARIANTS TypeOK EveryRowAccounted NoRowTwice OldestEvictedFirst MemoryFlat
PROPERTY LedgerSpec
