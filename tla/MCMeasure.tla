------------------------------ MODULE MCMeasure ------------------------------
(* Measure with temperatures on both sides of -1.0 degrees, and a formula     *)
(* whose altitudes leave a uint16_t at either end with no failure at all.     *)
EXTENDS Measure

SomeRooms == {-9}
ColdRooms == {-10}
SomeWild == {-10, 40}
SteepAltitude(seaLevel, pressure, temperature) ==
  250 + 20000 * (seaLevel[1] - pressure) + temperature
=============================================================================
