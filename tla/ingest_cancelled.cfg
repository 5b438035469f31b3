SPECIFICATION Spec
CONSTANTS
  Metrics = {"cpu"}
  Tags = {"tag"}
  Collector = "collector"
  Table <- MCTable
  Idempotent = {}
  Window <- MCWindow
  QueueMax = 2
  PendingMax = 2
  MaxPublish = 1
  MaxArrivals = 2
  MaxFaults <- OneRollback
INVARIANT RowsSurviveReconnect
