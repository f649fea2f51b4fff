SPECIFICATION ThreadsSpec
CONSTANTS
  Writers = {T2, T3}
  NULL = NULL
  LPC_SSP_FIFO_DEPTH = 8
  MaxText = 1
  ClearWords = 3
PROPERTY SendReturns
CHECK_DEADLOCK FALSE
