--------------------------- MODULE MCHeatRegistry ---------------------------
(* Small instances of HeatRegistry.  Addresses, weapons and the actors that *)
(* are not the player are only ever compared, so that permuting them is     *)
(* sound for safety.                                                        *)
EXTENDS HeatRegistry

Symmetry == Permutations(Addresses) \cup Permutations(Weapons) \cup Permutations(Actors \ {Player})
=============================================================================
