SPECIFICATION FairClock
CONSTANTS
  DayLength = 6
  Days = 3
  MaxMisreads = 2
INVARIANTS StampsTrue
PROPERTIES StampsRecover
