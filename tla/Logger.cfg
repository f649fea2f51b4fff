SPECIFICATION FairSpec
CONSTANTS
  LOG_BUFFER_SIZE = 3
  Blocks = {b1, b2, b3, b4}
  NULL = NULL
  MaxLogs = 5
INVARIANTS TypeOK RingIntact WritesOldest HeapSuffices
PROPERTIES ImplementsQueue RecordsLeave LoggingReturns
