------------------------------ MODULE BaseForm ------------------------------
(***************************************************************************)
(* The statistics of a shot.  A weapon form is shared by every actor that  *)
(* carries the weapon, so the hooks save the fields they edit, call the    *)
(* function of the engine they hook, and write the saved values back.      *)
(* Everything runs on the main thread; a function of the engine may call   *)
(* other hooked functions before it returns, for the same weapon too.      *)
(*                                                                         *)
(* A form is its four kinds of field; usAttackDamage stands for the        *)
(* critical damage and the spread as well, which are treated alike.  Heat  *)
(* is an integer out of FULL, and how it falls is left to HeatWeapon.      *)
(***************************************************************************)
EXTENDS Integers, Sequences

CONSTANTS
  FULL,       (* heat of a ratio of 1 (100 in the code)                        *)
  BYTE,       (* one more than the largest ammoUse or numProjectiles (256)     *)
  Actors, Player,
  Weapons,
  WeaponOf,   (* the weapon each actor carries                                 *)
  Original,   (* the form of each weapon, as the game loaded it                *)
  Config,     (* the configuration of each weapon that has one                 *)
  Perks,      (* perks of every actor that change a shot                       *)
  NoHeat,     (* stands for an actor without HeatData                          *)
  MaxHeat,    (* bound: no shot heats past it                                  *)
  MaxDepth    (* bound on the hooks that have not returned                     *)

ShotFields == {"ammoUse", "numProjectiles", "usAttackDamage"}
Fields     == ShotFields \cup {"animAttackMult"}
Form       == [Fields -> Nat]
Configured == DOMAIN Config

(* The fields of HeatConfiguration that a shot reads; percentages of the    *)
(* base value where the code has factors.                                   *)
HeatConfiguration ==
  [minFireRate : Nat, maxFireRate : Nat, minDamage : Nat, maxDamage : Nat,
   iMinAmmoUsed : 0..BYTE-1, iMaxAmmoUsed : 0..BYTE-1, iAddAmmoThreshold : 0..BYTE-1,
   iMinProjectiles : 0..BYTE-1, iMaxProjectiles : 0..BYTE-1,
   iAddProjectileThreshold : 0..BYTE-1, heatPerShot : Nat, alternate : BOOLEAN]

ASSUME FormsAssumption ==
  /\ FULL \in Nat \ {0} /\ BYTE \in Nat \ {0} /\ MaxHeat \in Nat /\ MaxDepth \in Nat
  /\ Player \in Actors /\ WeaponOf \in [Actors -> Weapons]
  /\ Original \in [Weapons -> Form]
  /\ \A w \in Weapons : Original[w].ammoUse < BYTE /\ Original[w].numProjectiles < BYTE
  /\ Configured \subseteq Weapons
  /\ \A w \in Configured : Config[w] \in HeatConfiguration
  /\ NoHeat \notin Nat

VARIABLES
  form,       (* the weapon forms as they stand                                *)
  stack,      (* the hooks that have not returned, the innermost last          *)
  heat,       (* fHeatVal of each actor's HeatData, or NoHeat                  *)
  charged,    (* actors whose weapon has the AltProjectile effect              *)
  blocked,    (* actors whose weapon has an effect of STOP_FIRING_FLAGS        *)
  bStats      (* g_OCSettings.bStats                                           *)

fvars == <<form, stack, heat, charged, blocked, bStats>>

-----------------------------------------------------------------------------
(* WaldezTools                                                              *)

Least(a, b) == IF a < b THEN a ELSE b
Most(a, b)  == IF a < b THEN b ELSE a
Clamp(x, a, b) == Most(Least(a, b), Least(x, Most(a, b)))

(* Percentages of the base value, cut off to an integer.                    *)
InterpolateBase(base, min, max, h) ==
  (base * Clamp(min * FULL + (max - min) * h, min * FULL, max * FULL)) \div (100 * FULL)

(* Values between min and max, rounded; a base of 0 stays 0.                *)
ScaleByPercentRange(base, min, max, h) ==
  IF base = 0 THEN 0
  ELSE (2 * (min * FULL + (max - min) * Clamp(h, 0, FULL)) + FULL) \div (2 * FULL)

-----------------------------------------------------------------------------

(* Mutant: what bStats has edited is restored only under bStats.            *)
WrittenBackUnderStats(f) ==
  [form EXCEPT ![f.weapon] =
    [x \in Fields |-> IF x \in f.saves /\ bStats THEN f.og[f.weapon][x] ELSE @[x]]]

(* Mutant: the backup was taken once, when the game was loaded.             *)
WrittenBackOriginal(f) ==
  [form EXCEPT ![f.weapon] =
    [x \in Fields |-> IF x \in f.saves THEN Original[f.weapon][x] ELSE @[x]]]

(* The forms after the hook f has restored what it saved.                   *)
WrittenBack(f) ==
  [form EXCEPT ![f.weapon] =
    [x \in Fields |-> IF x \in f.saves THEN f.og[f.weapon][x] ELSE @[x]]]

Top == stack[Len(stack)]

(* A hook is entered: og keeps the forms it finds, of which it will restore *)
(* the fields saves of its weapon; edited holds the forms the engine is     *)
(* called with, left the projectiles this call may still launch.            *)
Enter(a, hook, saves, edited, left, charge) ==
  /\ Len(stack) < MaxDepth
  /\ form' = edited
  /\ stack' = Append(stack,
       [hook |-> hook, actor |-> a, weapon |-> WeaponOf[a], saves |-> saves, og |-> form,
        edited |-> edited, left |-> left, charge |-> charge, alternates |-> 0])

WithAnimMult(a) ==
  LET w == WeaponOf[a]  c == Config[w]
  IN  [form EXCEPT ![w].animAttackMult =
         InterpolateBase(@, c.minFireRate, c.maxFireRate, heat[a])]

(* The engine plays the animation of an attack, or, while the weapon may    *)
(* not fire, the null animation.                                            *)
PlayFireAnimation(a) ==
  LET hot == heat[a] # NoHeat
  IN  /\ Enter(a, IF hot /\ a \in blocked THEN "null" ELSE "attack", {"animAttackMult"},
               IF hot /\ bStats THEN WithAnimMult(a) ELSE form, 0, FALSE)
      /\ UNCHANGED <<heat, charged, blocked, bStats>>

(* Without bStats the hook adds nothing to the call.                        *)
GetWeapAnimMult(a) ==
  /\ bStats
  /\ Enter(a, "mult", {"animAttackMult"},
           IF heat[a] # NoHeat THEN WithAnimMult(a) ELSE form, 0, FALSE)
  /\ UNCHANGED <<heat, charged, blocked, bStats>>

-----------------------------------------------------------------------------
(* FireWeaponWrapper                                                        *)

HeatOnFire(a) == (IF heat[a] = NoHeat THEN 0 ELSE heat[a]) + Config[WeaponOf[a]].heatPerShot

Scaled(base, min, max, threshold, h) ==
  IF threshold = 0 THEN ScaleByPercentRange(base, min, max, h)
  ELSE IF h < threshold THEN min ELSE max

(* What UpdatePerks may make of the ammo and the heat of a shot: Voltage    *)
(* Regulator saves the ammo, Circuit Bender takes the heat of a charged     *)
(* shot back, Coolant Leak completes the heat.  luck: the coins.  The       *)
(* factors that Overclocker and Galvanic Relativist put on the damage of    *)
(* the shot are left out.                                                   *)
UpdatePerks(a, ammo, h, luck) ==
  LET free == "VoltageRegulator" \in Perks /\ luck /\ 2 * h < FULL
      bent == IF "CircuitBender" \in Perks /\ luck /\ a \in charged
              THEN Most(0, h - Config[WeaponOf[a]].heatPerShot) ELSE h
  IN  [ammo |-> IF free THEN 0 ELSE ammo,
       heat |-> IF "CoolantLeak" \in Perks /\ 10 * bent >= 7 * FULL THEN FULL ELSE bent]

(* Mutant: the tripled ammo is not cut to its width.                        *)
ShotFormWide(a, h, ammo) ==
  LET w == WeaponOf[a]  c == Config[w]
  IN  [form EXCEPT
         ![w].ammoUse        = IF a \in charged THEN 3 * ammo ELSE ammo,
         ![w].numProjectiles = Scaled(@, c.iMinProjectiles, c.iMaxProjectiles,
                                      c.iAddProjectileThreshold, h),
         ![w].usAttackDamage = InterpolateBase(@, c.minDamage, c.maxDamage, h)]

ShotForm(a, h, ammo) ==
  LET w == WeaponOf[a]  c == Config[w]
  IN  [form EXCEPT
         ![w].ammoUse        = IF a \in charged THEN (3 * ammo) % BYTE ELSE ammo,
         ![w].numProjectiles = Scaled(@, c.iMinProjectiles, c.iMaxProjectiles,
                                      c.iAddProjectileThreshold, h),
         ![w].usAttackDamage = InterpolateBase(@, c.minDamage, c.maxDamage, h)]

FireConfigured(a, luck) ==
  LET w      == WeaponOf[a]  c == Config[w]
      h      == HeatOnFire(a)
      perked == UpdatePerks(a, Scaled(form[w].ammoUse, c.iMinAmmoUsed, c.iMaxAmmoUsed,
                                      c.iAddAmmoThreshold, h), h, luck)
      edited == IF bStats THEN ShotForm(a, h, perked.ammo) ELSE form
  IN  /\ w \in Configured /\ h <= MaxHeat
      /\ heat' = [heat EXCEPT ![a] = perked.heat]
      /\ Enter(a, "fire", ShotFields, edited, edited[w].numProjectiles, a \in charged)
      /\ UNCHANGED <<charged, blocked, bStats>>

(* A weapon without a configuration: the plain call.                        *)
FirePlain(a) ==
  /\ WeaponOf[a] \notin Configured
  /\ Enter(a, "plain", {}, form, form[WeaponOf[a]].numProjectiles, FALSE)
  /\ UNCHANGED <<heat, charged, blocked, bStats>>

FireWeaponWrapper(a) == FirePlain(a) \/ \E luck \in BOOLEAN : FireConfigured(a, luck)

(* Mutant: the effect is not used up.                                       *)
ProjectileKeepsCharge ==
  LET a == Top.actor
      alternate == a = Player /\ a \in charged /\ Config[Top.weapon].alternate
  IN  /\ stack # <<>> /\ Top.left > 0
      /\ stack' = [stack EXCEPT
           ![Len(stack)].left = @ - 1,
           ![Len(stack)].alternates = IF alternate THEN @ + 1 ELSE @]
      /\ UNCHANGED <<form, heat, charged, blocked, bStats>>

(* The shot launches a projectile: the first one uses the charge up, and is *)
(* the alternate one if it is the player's and the configuration has one.   *)
ProjectileWrapper ==
  LET a == Top.actor
      alternate == a = Player /\ a \in charged /\ Config[Top.weapon].alternate
  IN  /\ stack # <<>> /\ Top.left > 0
      /\ charged' = charged \ {a}
      /\ stack' = [stack EXCEPT
           ![Len(stack)].left = @ - 1,
           ![Len(stack)].alternates = IF alternate THEN @ + 1 ELSE @]
      /\ UNCHANGED <<form, heat, blocked, bStats>>

(* The engine returns to the hook, and the hook to its caller.              *)
Return ==
  /\ stack # <<>>
  /\ form' = WrittenBack(Top)
  /\ stack' = SubSeq(stack, 1, Len(stack) - 1)
  /\ UNCHANGED <<heat, charged, blocked, bStats>>

-----------------------------------------------------------------------------
(* Around the hooks                                                         *)

(* A frame of the main loop, which HeatWeapon models: the weapon cools, or  *)
(* is dropped or found, and its effects are set and cleared.  Only the      *)
(* player's weapon charges.                                                 *)
Update(a) ==
  /\ stack = <<>> /\ WeaponOf[a] \in Configured
  /\ \/ \E h \in 0..(IF heat[a] = NoHeat THEN 0 ELSE heat[a]) : heat' = [heat EXCEPT ![a] = h]
     \/ heat' = [heat EXCEPT ![a] = NoHeat]
  /\ IF heat'[a] = NoHeat
     THEN charged' = charged \ {a} /\ blocked' = blocked \ {a}
     ELSE /\ charged' \in {charged \ {a}, charged \cup ({a} \cap {Player})}
          /\ blocked' \in {blocked \ {a}, blocked \cup {a}}
  /\ UNCHANGED <<form, stack, bStats>>

(* SetOCSettings, from a script: events of the engine run scripts too.      *)
SetOCSettings ==
  /\ bStats' = ~bStats
  /\ UNCHANGED <<form, stack, heat, charged, blocked>>

Init ==
  /\ form = Original
  /\ stack = <<>>
  /\ heat = [a \in Actors |-> NoHeat]
  /\ charged = {} /\ blocked = {}
  /\ bStats \in BOOLEAN

Next ==
  \/ \E a \in Actors :
       PlayFireAnimation(a) \/ GetWeapAnimMult(a) \/ FireWeaponWrapper(a) \/ Update(a)
  \/ ProjectileWrapper \/ Return \/ SetOCSettings

Spec == Init /\ [][Next]_fvars

-----------------------------------------------------------------------------
(* Properties                                                               *)

Frame ==
  [hook : {"attack", "null", "mult", "fire", "plain"}, actor : Actors, weapon : Weapons,
   saves : SUBSET Fields, og : [Weapons -> Form], edited : [Weapons -> Form],
   left : Nat, charge : BOOLEAN, alternates : Nat]

TypeOK ==
  /\ form \in [Weapons -> Form]
  /\ \A w \in Weapons : form[w].ammoUse < BYTE /\ form[w].numProjectiles < BYTE
  /\ stack \in Seq(Frame)
  /\ heat \in [Actors -> Nat \cup {NoHeat}]
  /\ charged \subseteq Actors /\ blocked \subseteq Actors
  /\ bStats \in BOOLEAN

(* Whatever hooks interrupt each other and however bStats is switched while *)
(* they run, a form none of them is working on is the one the game loaded:  *)
(* "only the current weapon is altered".                                    *)
OthersUntouched ==
  \A w \in Weapons :
    (\A i \in DOMAIN stack : stack[i].weapon # w) => form[w] = Original[w]

(* When the engine is back from a nested hook, it finds the statistics its  *)
(* own hook gave it, though the nested one edited the same form.            *)
CallKeepsItsEdit == stack # <<>> => form = Top.edited

(* A shot launches the alternate projectile once at most, and only if it    *)
(* was fired with the charge: the condition on which it costs three times   *)
(* the ammo, when bStats is on.                                             *)
AlternatesArePaid ==
  \A i \in DOMAIN stack : stack[i].alternates <= IF stack[i].charge THEN 1 ELSE 0
=============================================================================
