SPECIFICATION FairSpec
CONSTANTS
  Rooms <- SomeRooms
  Pressures = {10, 14}
  HP03_pressureToAltitude <- SteepAltitude
  Wild <- SomeWild
  TempTurns = 3
  LogTurns = 2
  MaxFaults = 2
  MaxChanges = 1
INVARIANTS RecordExplained FilterInRange TemperatureShown
PROPERTIES ComesToRest
