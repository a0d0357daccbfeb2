CONSTANTS
  Actors = {Player, Raider}
  Player = Player
  Weapons = {rifle, pistol}
  NoWeapon = NoWeapon
  NPC_UPDATE_THROTTLE = 2
  COOLDOWN_DELAY = 1
  ERASE_DELAY = 1
  MAX_TICKS = 1
  HeatBound = 1
  Addresses = {h1, h2, h3}
  Null = Null
SYMMETRY Symmetry
SPECIFICATION Spec
INVARIANTS TypeOK OneHeatPerWeapon
PROPERTIES WalkNeverGrows ImplementsMap
