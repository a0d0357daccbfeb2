--------------------------- MODULE MCHeatHistory ----------------------------
(* Small instances of HeatHistory.                                          *)
EXTENDS HeatHistory, WeaponConfigs
=============================================================================
