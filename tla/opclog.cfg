SPECIFICATION Spec
CONSTANTS
  Applications = {"hmi", "mes"}
  Nobody = "nobody"
  Addresses = {"near", "far"}
  MaxTokens = 3
  MaxRecords = 8
INVARIANTS TypeOK ActiveIsCurrent OneKeyPerClient SpansInOrder DowntimeNotOverstated ListedOnce
CHECK_DEADLOCK FALSE
