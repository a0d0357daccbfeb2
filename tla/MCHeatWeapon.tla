---------------------------- MODULE MCHeatWeapon ----------------------------
(* Small instances of HeatWeapon.                                           *)
EXTENDS HeatWeapon, WeaponConfigs

(* Ammo that some configuration names and ammo that none does.              *)
ChargedAndNone == {Charged, NoConfig}
=============================================================================
