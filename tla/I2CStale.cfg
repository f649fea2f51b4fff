SPECIFICATION Spec
CONSTANTS
  Users = {T3, T5}
  NULL = NULL
  MaxBytes = 3
  Faults = {"nack"}
INVARIANT OwnBytesOnly
