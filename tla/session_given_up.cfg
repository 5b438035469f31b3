SPECIFICATION Spec
CONSTANTS
  Subscriptions = 1
  MaxFaults <- OneLink
INVARIANT RetriesUntilShutdown
CHECK_DEADLOCK FALSE
