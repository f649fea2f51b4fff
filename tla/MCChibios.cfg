SPECIFICATION ChibiosSpec
CONSTANTS
  High = {T2}
  Normal = {T4}
  Low = {T3, T5}
  idle = idle
  Mutexes = {1, 2, 3}
  SemUsers = {T4, T5}
  NULL = NULL
  Callers = {T2, T5}
  Sizes = {1, 3}
  Endmem = 12
  MaxLive = 4
INVARIANTS HighestRuns InheritanceExact HeapIntact NoGrowth
PROPERTIES ImplementsLock
