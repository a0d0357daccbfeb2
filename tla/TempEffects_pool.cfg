CONSTANTS
  Addresses = {a1, a2}
  Weapons = {rifle, pistol}
  Own = Own
  Cold = Cold
  None = None
SPECIFICATION Spec
INVARIANTS TypeOK TintIsReversible ImpactShowsItsWeapon PaintedByItsWeapon
