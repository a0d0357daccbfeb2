CONSTANTS
  FORMS = 8
  Weapons <- TwoWeapons
  Ammo <- TwoAmmo
  Default = Default
  Misspelt = Misspelt
  Enabled = {"bStats", "bMechanics", "bMeshes"}
  Libraries <- SmallLibraries
SPECIFICATION Spec
CHECK_DEADLOCK FALSE
INVARIANTS TypeOK SectionsAreFound NoCrossTalk DefaultNodesOnce
