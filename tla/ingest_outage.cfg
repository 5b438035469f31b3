SPECIFICATION FairSpec
CONSTANTS
  Metrics = {"cpu"}
  Tags = {"tag"}
  Collector = "collector"
  Table <- MCTable
  Idempotent = {}
  Window <- MCWindow
  QueueMax = 2
  PendingMax = 1
  MaxPublish = 1
  MaxArrivals = 2
  MaxFaults <- OneConnection
PROPERTY Settles
