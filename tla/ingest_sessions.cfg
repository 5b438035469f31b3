SPECIFICATION FairSpec
CONSTANTS
  Metrics = {"network"}
  Tags = {}
  Collector = "collector"
  Table <- MCTable
  Idempotent = {}
  Window <- MCWindow
  QueueMax = 2
  PendingMax = 3
  MaxPublish = 2
  MaxArrivals = 3
  MaxFaults <- Restarts
INVARIANTS AtMostOnce SuppressedWasDecoded
PROPERTY Settles
