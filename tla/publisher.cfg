SPECIFICATION FairSpec
CONSTANTS
  Plain = {"services"}
  Faulty = {"services"}
  Errors = "errors"
  Limit = 3
  BufferSize = 3
  PublishSize = 2
  MaxRecords = 4
  MaxFaults <- AnyFault
INVARIANTS TypeOK OldestFirst EveryRecordAccounted
PROPERTIES EndsAfterFailuresInARow OthersPublished RecordsLeave
