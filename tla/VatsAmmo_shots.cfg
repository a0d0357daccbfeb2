CONSTANTS
  player = player
  guard = guard
  robot = robot
  rifle = rifle
  pistol = pistol
  FULL = 3
  BYTE = 8
  Actors = {player, guard, robot}
  Player = player
  Weapons = {rifle, pistol}
  WeaponOf <- Carried
  Original <- Forms
  Config <- RifleConfig
  Perks = {"VoltageRegulator", "CircuitBender"}
  NoHeat = NoHeat
  MaxHeat = 3
  MaxDepth = 2
  Burst = 2
  Clips = {10, 11}
SPECIFICATION VSpec
INVARIANTS TypeOK OthersUntouched CallKeepsItsEdit AlternatesArePaid ClipCovers
