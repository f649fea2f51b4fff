SPECIFICATION FairOut
CONSTANTS
  Size = 6
  Packets <- SomePackets
  MaxSetups = 2
  MaxEvents = 1
INVARIANTS ThirdCopyRuns
PROPERTIES RunsWhatWasSent BankHeld PacketTaken
CHECK_DEADLOCK FALSE
