CONSTANTS
  Actors = {Player, Raider}
  Player = Player
  Weapons = {rifle}
  NoWeapon = NoWeapon
  NPC_UPDATE_THROTTLE = 2
  COOLDOWN_DELAY = 1
  ERASE_DELAY = 3
  MAX_TICKS = 3
  HeatBound = 1
  Addresses = {h1, h2}
  Null = Null
SPECIFICATION CFairSpec
PROPERTIES EraseIsTimely AbandonedAreErased AbandonedWearsOff
