----------------------------- MODULE HeatHistory ----------------------------
(***************************************************************************)
(* HeatWeapon with two history variables, for the properties that compare  *)
(* the state of the weapon with what really happened to it: how long ago   *)
(* it was last drawn, fired or pressed in play, in time and not in ticks,  *)
(* and how many shots left since it overheated.  No action reads them.     *)
(***************************************************************************)
EXTENDS HeatWeapon

VARIABLES age, lockShots

hvars == <<vars, age, lockShots>>

HInit == Init /\ age = 0 /\ lockShots = 0

(* The player presses the trigger of a weapon that may charge, where the    *)
(* charge mechanics see it: a press in a menu, a pause or a lockout, or of  *)
(* a weapon not yet drawn, restarts no ticks in the code and no age here.   *)
PressInPlay(down) ==
  /\ down /\ ~key.cur
  /\ IsPlayer /\ menu = "none" /\ st'.bIsActive /\ ~IsOverheating(st')
  /\ config.effects \cap STOP_COOLDOWN_FLAGS # {}

(* The age stops at the longest delay the code waits for.  The frame that   *)
(* erases a weapon leaves the age it had.                                   *)
AgeAfter(down, ft) ==
  IF menu = "paused" \/ ~present THEN age
  ELSE IF PressInPlay(down) THEN 0
  ELSE IF st'.bIsActive /\ ~st.bIsActive THEN ft
  ELSE Lesser(ERASE_DELAY, age + ft)

HFrame ==
  \E down \in BOOLEAN, ft \in FrameTimes, has3D \in BOOLEAN :
    /\ Frame(down, ft, has3D)
    /\ age' = AgeAfter(down, ft)
    /\ lockShots' = IF IsOverheating(st') THEN lockShots ELSE 0

HShot ==
  /\ ShotStep
  /\ age' = IF ammo = NoConfig THEN age ELSE 0
  /\ lockShots' = IF IsOverheating(st') THEN lockShots + 1 ELSE 0

HOther ==
  /\ \/ ActorUpdate
     \/ PlayFireAnimation
     \/ \E m \in Menus : SetMenu(m)
     \/ Unequip
     \/ Equip
     \/ \E a \in Ammo : SwapAmmo(a)
     \/ Die
     \/ PostLoadGame
  /\ age' = IF present' = present THEN age ELSE 0
  /\ lockShots' = IF IsOverheating(st') THEN lockShots ELSE 0

HNext == HFrame \/ HShot \/ HOther

HSpec == HInit /\ [][HNext]_hvars

(* A lockout lets out the shot of the attack that was already under way and *)
(* no other: PlayFireAnimation refuses every attack until it ends.          *)
OneShotPerLockout == lockShots <= 1

(* A weapon is erased only when it was last drawn, fired or pressed in play *)
(* at least ERASE_DELAY of real time ago.                                   *)
EraseIsTimely ==
  [][HFrame /\ present /\ ~present' => age' >= ERASE_DELAY]_hvars

(* The alternate projectile is earned no sooner than CHARGE_THRESHOLD of    *)
(* real time after the weapon was last drawn or fired and after the trigger *)
(* was last pressed in play.  It does not say that the trigger was down for *)
(* as long: one pressed in a menu and held until it closes may earn it at   *)
(* once.                                                                    *)
ChargeIsTimely ==
  [][HFrame /\ "AltProjectile" \in st'.uiOCEffect \ st.uiOCEffect
       => age' >= CHARGE_THRESHOLD]_hvars
=============================================================================
