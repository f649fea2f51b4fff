SPECIFICATION Spec
CONSTANTS
  Rooms <- ColdRooms
  Pressures = {10, 14}
  HP03_pressureToAltitude <- SteepAltitude
  Wild <- SomeWild
  TempTurns = 3
  LogTurns = 2
  MaxFaults = 0
  MaxChanges = 1
INVARIANTS TemperatureFits
