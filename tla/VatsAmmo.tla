------------------------------ MODULE VatsAmmo ------------------------------
(***************************************************************************)
(* The ammo of VATS.  While its menu is open the player queues attacks and *)
(* the game refuses one for which the clip has no ammo left; CalcOCAmmo-   *)
(* Required projects the ammo of an attack, because the heat the earlier   *)
(* ones will have left decides what it takes.  Then the attacks are played *)
(* and every shot takes the ammo its edited form says.                     *)
(*                                                                         *)
(* The menu and the playback are the engine's, modelled from how the code  *)
(* uses them: an attack is Burst shots of ammoUse each, kTargetsList holds *)
(* the attacks queued so far.  The menu stops the time, so that nothing    *)
(* cools and nothing fires while it is open; opening it drops the charge.  *)
(***************************************************************************)
EXTENDS BaseForm, Functions

CONSTANTS
  Burst,       (* shots of one attack                                          *)
  Clips        (* what may be in the clip when VATS opens                       *)

ASSUME BurstAssumption == Burst \in Nat \ {0} /\ Clips \subseteq Nat

VARIABLES
  vats,        (* "off", "menu" or "playing"                                   *)
  queued,      (* attacks queued                                               *)
  reserved,    (* ammo the game counts for them                                *)
  shots,       (* shots left to play                                           *)
  clip         (* ammo in the clip of the player's weapon                      *)

menu  == <<vats, queued, reserved, shots, clip>>
vvars == <<fvars, menu>>

Rifle == WeaponOf[Player]

(* What the game itself says of the attack, in a byte.                      *)
GetAmmoRequiredForVats == (form[Rifle].ammoUse * Burst) % BYTE

(* The shots of an attack, as the code takes them from it; a weapon that    *)
(* takes no ammo would have it divide by zero and is left out of VATS.      *)
Shots == IF form[Rifle].ammoUse = 0 THEN 0 ELSE GetAmmoRequiredForVats \div form[Rifle].ammoUse

(* Mutant: the attacks already queued are left out.                         *)
ProjectedHeatAlone(s) ==
  heat[Player] + Config[Rifle].heatPerShot * ((s * (s + 1)) \div 2)

(* The heat projected for shot s of the next attack: the n-th shot adds     *)
(* heatPerShot for every queued shot and n times more, on top of the heat   *)
(* of shot n - 1.                                                           *)
ProjectedHeat(s) ==
  heat[Player] + Config[Rifle].heatPerShot * (queued * Shots * s + (s * (s + 1)) \div 2)

ProjectedUse(s) ==
  ScaleByPercentRange(form[Rifle].ammoUse,
                      Config[Rifle].iMinAmmoUsed, Config[Rifle].iMaxAmmoUsed, ProjectedHeat(s))

CalcOCAmmoRequired ==
  LET projected == SumFunction([s \in 1..Shots |-> ProjectedUse(s)]) % BYTE
  IN  IF bStats /\ heat[Player] # NoHeat /\ projected # 0
      THEN projected ELSE GetAmmoRequiredForVats

-----------------------------------------------------------------------------

(* The weapon is drawn, so that an update has found its HeatData, and the   *)
(* update that notices the menu drops the charge.                           *)
OpenMenu ==
  /\ vats = "off" /\ stack = <<>>
  /\ Rifle \in Configured => heat[Player] # NoHeat
  /\ vats' = "menu"
  /\ clip' \in Clips
  /\ charged' = charged \ {Player}
  /\ UNCHANGED <<form, stack, heat, blocked, bStats, queued, reserved, shots>>

QueueAttack ==
  /\ vats = "menu"
  /\ reserved + CalcOCAmmoRequired <= clip
  /\ CalcOCAmmoRequired > 0
  /\ queued' = queued + 1
  /\ reserved' = reserved + CalcOCAmmoRequired
  /\ UNCHANGED <<fvars, vats, shots, clip>>

Play ==
  /\ vats = "menu"
  /\ vats' = "playing"
  /\ shots' = queued * Burst
  /\ UNCHANGED <<fvars, queued, reserved, clip>>

(* A queued shot leaves; the game takes its ammo.                           *)
FireQueued ==
  /\ vats = "playing" /\ shots > 0
  /\ FireWeaponWrapper(Player)
  /\ shots' = shots - 1
  /\ clip' = clip - form'[Rifle].ammoUse
  /\ UNCHANGED <<vats, queued, reserved>>

(* The rest of the game goes on during the playback.                        *)
Meanwhile ==
  /\ vats = "playing"
  /\ \/ \E a \in Actors : PlayFireAnimation(a) \/ GetWeapAnimMult(a)
     \/ \E a \in Actors \ {Player} : FireWeaponWrapper(a) \/ Update(a)
     \/ Update(Player) /\ heat'[Player] # NoHeat /\ Player \notin charged'
     \/ ProjectileWrapper
     \/ Return
  /\ UNCHANGED menu

(* The queue is done, or the kill camera is ended before it is.             *)
EndVats ==
  /\ vats # "off" /\ stack = <<>>
  /\ vats' = "off"
  /\ queued' = 0 /\ reserved' = 0 /\ shots' = 0 /\ clip' = 0
  /\ UNCHANGED fvars

VInit == Init /\ vats = "off" /\ queued = 0 /\ reserved = 0 /\ shots = 0 /\ clip = 0

VNext ==
  \/ vats = "off" /\ Next /\ UNCHANGED menu
  \/ OpenMenu \/ QueueAttack \/ Play \/ FireQueued \/ Meanwhile \/ EndVats

VSpec == VInit /\ [][VNext]_vvars

-----------------------------------------------------------------------------
(* Properties                                                               *)

(* What the projection is made for: a use of ammo that grows with the heat  *)
(* without a threshold, sums that fit in a byte, and no Coolant Leak, which *)
(* heats by leaps.                                                          *)
Proportional ==
  /\ "CoolantLeak" \notin Perks
  /\ Burst * Original[Rifle].ammoUse < BYTE
  /\ Rifle \in Configured =>
       /\ Config[Rifle].iAddAmmoThreshold = 0
       /\ Config[Rifle].iMinAmmoUsed <= Config[Rifle].iMaxAmmoUsed
       /\ Burst * Config[Rifle].iMaxAmmoUsed < BYTE

(* The ammo in the clip is enough for the attacks the game has accepted,    *)
(* whatever their heat makes them cost: it never wraps below zero.  This    *)
(* needs a configuration that is Proportional, and bStats left alone while  *)
(* VATS is open.                                                            *)
ClipCovers == clip >= 0
=============================================================================
