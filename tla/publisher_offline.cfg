SPECIFICATION Spec
CONSTANTS
  Plain = {"cpu"}
  Faulty = {}
  Errors = "errors"
  Limit = 3
  BufferSize = 3
  PublishSize = 2
  MaxRecords = 3
  MaxFaults <- TwoLinks
INVARIANT OfflineErrorsSurvive
