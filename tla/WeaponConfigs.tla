---------------------------- MODULE WeaponConfigs ---------------------------
(* Weapon configurations for the small instances: one per mechanic, on the  *)
(* scale of the thresholds the .cfg files use.                              *)
EXTENDS Naturals

Energy(effects, threshold, heatPerShot) ==
  [effects |-> effects, threshold |-> threshold, heatPerShot |-> heatPerShot, cooldown |-> 1]

Laser   == Energy({"Overheat"}, 0, 2)
Plain   == Energy({}, 0, 2)
Charged == Energy({"Overheat", "Overcharge"}, 3, 1)
Delayed == Energy({"Overheat", "ChargeDelay"}, 2, 1)
Twin    == Energy({"Overheat", "Overcharge", "ChargeDelay"}, 1, 1)

AllConfigs      == {Laser, Plain, Charged, Delayed, Twin}
TwinOnly        == {Twin}
LaserAndPlain   == {Laser, Plain}
TwinAndPlain    == {Twin, Plain}
=============================================================================
