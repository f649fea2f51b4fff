SPECIFICATION FairSpec
CONSTANTS
  Users = {T3, T5}
  NULL = NULL
  MaxBytes = 3
  Faults = {"nack", "arb", "bus"}
INVARIANTS ReadyWhenCalled InterruptHasThread TrafficExact
PROPERTIES CallReturns
