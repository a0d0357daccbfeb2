CONSTANTS
  HOT_THRESHOLD = 5
  COOL_THRESHOLD = 2
  CHARGE_CAP = 4
  COOLDOWN_DELAY = 1
  CHARGE_THRESHOLD = 2
  ERASE_DELAY = 3
  MAX_TICKS = 4
  HeatBound = 7
  NoConfig = NoConfig
  Configs <- AllConfigs
  Ammo <- TwinAndPlain
  FrameTimes = {1}
  Perks = {"CoolantLeak"}
  IsPlayer = TRUE
  IsAutomatic = TRUE
  Menus = {"none", "paused"}
SPECIFICATION HSpec
INVARIANT OneShotPerLockout
PROPERTIES ImplementsCycle EraseIsTimely ChargeIsTimely
