SPECIFICATION FairSpec
CONSTANTS
  Blocks = 2
  BlockUnits = 4
  PacketUnits = 2
  MaxDumps = 2
  MaxEvents = 4
INVARIANTS TypeOK StreamInOrder DumpArrives
PROPERTY DumpEnds
CHECK_DEADLOCK FALSE
