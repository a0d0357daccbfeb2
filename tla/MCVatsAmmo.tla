----------------------------- MODULE MCVatsAmmo -----------------------------
(* A small instance of VatsAmmo: the player and a guard carry the same      *)
(* configured rifle, a robot a pistol without a configuration.              *)
EXTENDS VatsAmmo, TLC

CONSTANTS player, guard, robot, rifle, pistol

Plain(use, projectiles) ==
  [ammoUse |-> use, numProjectiles |-> projectiles, usAttackDamage |-> 2, animAttackMult |-> 3]

Carried  == (player :> rifle) @@ (guard :> rifle) @@ (robot :> pistol)
Forms    == (rifle :> Plain(1, 2)) @@ (pistol :> Plain(1, 1))

RifleConfig ==
  rifle :> [minFireRate |-> 100, maxFireRate |-> 200, minDamage |-> 100, maxDamage |-> 200,
            iMinAmmoUsed |-> 1, iMaxAmmoUsed |-> 3, iAddAmmoThreshold |-> 0,
            iMinProjectiles |-> 1, iMaxProjectiles |-> 2, iAddProjectileThreshold |-> 3,
            heatPerShot |-> 1, alternate |-> TRUE]

(* The rifle is one of those ClipCovers is about.                           *)
ASSUME RifleIsProportional == Proportional
=============================================================================
