CONSTANTS
  HOT_THRESHOLD = 6
  COOL_THRESHOLD = 3
  CHARGE_CAP = 5
  COOLDOWN_DELAY = 1
  CHARGE_THRESHOLD = 2
  ERASE_DELAY = 3
  MAX_TICKS = 4
  HeatBound = 8
  NoConfig = NoConfig
  Configs <- AllConfigs
  Ammo <- LaserAndPlain
  FrameTimes = {1}
  Perks = {}
  IsPlayer = TRUE
  IsAutomatic = FALSE
  Menus = {"none"}
SPECIFICATION FairSpec
PROPERTY LockoutEnds
