SPECIFICATION FairSpec
CONSTANTS
  Slots = 4
  BlockLen = 2
  InitialDescs = {0, 1, 2, 3, 4, 65535}
  Faults = {"record", "descriptor", "read"}
  MaxRecords = 6
  MaxCrashes = 1
INVARIANTS TypeOK LoggedRecordsStay DumpIsSnapshot CompleteDump
 
CHECK_DEADLOCK FALSE
