SPECIFICATION FairSpec
CONSTANTS
  Writers = {main}
  NULL = NULL
  LPC_SSP_FIFO_DEPTH = 8
  MaxText = 2
  ClearWords = 3
INVARIANTS CountersInStep
PROPERTIES CallsInOrder SendReturns
