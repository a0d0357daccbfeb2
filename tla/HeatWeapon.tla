----------------------------- MODULE HeatWeapon -----------------------------
(***************************************************************************)
(* The heat state machine of one weapon in the hands of one actor: the     *)
(* HeatState of Overcharge.hpp, driven once a frame by                     *)
(* UpdateActiveWeapons and, in between, by the hooks the engine calls      *)
(* (PlayFireAnimation, FireWeaponWrapper, ProjectileWrapper, the equipped- *)
(* weapon hook).  The trigger is the double-buffered control state of      *)
(* BSInputManager, which the plugin both reads and overwrites.             *)
(*                                                                         *)
(* Heat and time are integers: only their order against the thresholds     *)
(* matters to the code, and the thresholds are constants.                  *)
(***************************************************************************)
EXTENDS Integers

CONSTANTS
  HOT_THRESHOLD,    (* heat at which a weapon overheats (100 in the code)      *)
  COOL_THRESHOLD,   (* heat at which an overheated weapon recovers (50)        *)
  CHARGE_CAP,       (* the most heat that charging may reach (99)              *)
  COOLDOWN_DELAY,   (* time without a reset before heat drops or rises (0.5 s) *)
  CHARGE_THRESHOLD, (* time of charging that earns the alternate shot (2 s)    *)
  ERASE_DELAY,      (* time before a cold, inactive weapon is dropped (5 s)    *)
  MAX_TICKS,        (* saturation of the tick counter (0xFFFF)                 *)
  FrameTimes,       (* durations a frame may have                              *)
  Configs,          (* configurations of the weapon, one per configured ammo   *)
  NoConfig,         (* stands for ammo that no configuration names             *)
  Ammo,             (* the configurations of the ammo the actor may load       *)
  Perks,            (* perks of the actor that change the heat state           *)
  IsPlayer,         (* is the actor the player?                                *)
  IsAutomatic,      (* is the weapon automatic?                                *)
  Menus,            (* "none" and the menus that may be open                   *)
  HeatBound         (* bound: no shot is fired that would heat past it         *)

OCEffects == {"Overheat", "Overcharge", "ChargeDelay", "AltProjectile", "SelfDamage"}
STOP_COOLDOWN_FLAGS == {"Overcharge", "ChargeDelay"}
STOP_FIRING_FLAGS   == {"Overheat", "Overcharge", "ChargeDelay"}

(* iOverchargeEffect, iOverchargeEffectThreshold, fHeatPerShot and          *)
(* fCooldownPerSecond of a HeatConfiguration; a rate may be 0.              *)
HeatConfiguration ==
  [effects : SUBSET OCEffects, threshold : Nat, heatPerShot : Nat, cooldown : Nat]

ASSUME ThresholdsAssumption ==
  /\ HOT_THRESHOLD \in Nat /\ COOL_THRESHOLD \in Nat /\ CHARGE_CAP \in Nat
  /\ COOL_THRESHOLD < CHARGE_CAP /\ CHARGE_CAP < HOT_THRESHOLD
  /\ COOLDOWN_DELAY \in Nat /\ CHARGE_THRESHOLD \in Nat /\ ERASE_DELAY \in Nat
  /\ MAX_TICKS \in Nat \ {0}
  /\ HeatBound \in Nat

ASSUME EnvironmentAssumption ==
  /\ FrameTimes \subseteq Nat \ {0}
  /\ Configs \subseteq HeatConfiguration
  /\ NoConfig \notin Configs
  /\ Ammo \subseteq Configs \cup {NoConfig}
  /\ Ammo \cap Configs # {}
  /\ Perks \subseteq {"CircuitBender", "CriticalMass", "CoolantLeak"}
  /\ IsPlayer \in BOOLEAN /\ IsAutomatic \in BOOLEAN
  /\ "none" \in Menus /\ Menus \subseteq {"none", "menu", "paused"}

VARIABLES
  present,   (* the weapon has a HeatData in its container                   *)
  st,        (* HeatData::state                                              *)
  config,    (* HeatData::config                                             *)
  fireOnce,  (* the static of UpdateChargeDelay, as this weapon leaves it    *)
  key,       (* current and last sample of the attack control                *)
  polled,    (* the engine has not yet acted on the current sample           *)
  anim,      (* the attack: "idle", "firing" until the shot leaves, then     *)
             (* "fired"; "blocked" after a null animation                    *)
  queued,    (* the engine holds a queued attack                             *)
  ammo,      (* configuration of the equipped ammo, or NoConfig              *)
  equipped,  (* this weapon is the actor's current weapon                    *)
  dying,     (* the actor is dying                                           *)
  menu       (* "none", "menu" (MenuMode) or "paused" (start menu, console)  *)

instance == <<present, st, config, fireOnce>>
engine   == <<key, polled, anim, queued>>
world    == <<ammo, equipped, dying, menu>>
vars     == <<instance, engine, world>>

HeatState ==
  [bIsActive : BOOLEAN, iCanOverheat : 0..2, uiTicksPassed : 0..MAX_TICKS,
   uiOCEffect : SUBSET OCEffects, fTargetVal : Int, fHeatVal : Nat,
   fHeatPerShot : Nat, fCooldownRate : Nat]

KeyState == [cur : BOOLEAN, last : BOOLEAN]

TypeOK ==
  /\ present \in BOOLEAN
  /\ st \in HeatState
  /\ config \in Configs
  /\ fireOnce \in BOOLEAN
  /\ key \in KeyState
  /\ polled \in BOOLEAN
  /\ anim \in {"idle", "firing", "fired", "blocked"}
  /\ queued \in BOOLEAN
  /\ ammo \in Configs \cup {NoConfig}
  /\ equipped \in BOOLEAN
  /\ dying \in BOOLEAN
  /\ menu \in {"none", "menu", "paused"}

-----------------------------------------------------------------------------

Lesser(a, b)  == IF a < b THEN a ELSE b
Greater(a, b) == IF a < b THEN b ELSE a

(* The attack control, as GetUserAction and SetUserAction see it.           *)

Held(k)      == k.cur
Pressed(k)   == k.cur /\ ~k.last
Depressed(k) == k.last /\ ~k.cur
PressedKey   == [cur |-> TRUE, last |-> FALSE]

(* HeatState                                                                *)

IsHot(s)         == s.fHeatVal >= HOT_THRESHOLD
IsCool(s)        == s.fHeatVal <= COOL_THRESHOLD
IsOverheating(s) == "Overheat" \in s.uiOCEffect

NewState(c) ==
  [bIsActive |-> FALSE, iCanOverheat |-> 2, uiTicksPassed |-> 0, uiOCEffect |-> {},
   fTargetVal |-> 0, fHeatVal |-> 0,
   fHeatPerShot |-> c.heatPerShot, fCooldownRate |-> c.cooldown]

(* A zero rate leaves both rates as they were.                              *)
InitializeHeatData(s, c) ==
  IF c.heatPerShot = 0 \/ c.cooldown = 0 THEN s
  ELSE [s EXCEPT !.fHeatPerShot = c.heatPerShot, !.fCooldownRate = c.cooldown]

(* Mutant: the shot does not restart the tick counter.                      *)
HeatOnFireKeepsTicks(s) == [s EXCEPT !.fHeatVal = @ + s.fHeatPerShot]

HeatOnFire(s) ==
  [s EXCEPT !.fHeatVal = @ + s.fHeatPerShot, !.uiTicksPassed = 0]

(* Mutant: overheating is added to the effects instead of replacing them.   *)
UpdateOverheatKeepsEffects(s) ==
  IF s.iCanOverheat > 0 /\ ~IsOverheating(s)
  THEN IF IsHot(s) THEN [s EXCEPT !.uiOCEffect = @ \cup {"Overheat"}] ELSE s
  ELSE IF s.iCanOverheat = 0 \/ IsCool(s)
       THEN [s EXCEPT !.uiOCEffect = @ \ {"Overheat"}]
       ELSE s

UpdateOverheat(s) ==
  IF s.iCanOverheat > 0 /\ ~IsOverheating(s)
  THEN IF IsHot(s) THEN [s EXCEPT !.uiOCEffect = {"Overheat"}] ELSE s
  ELSE IF s.iCanOverheat = 0 \/ IsCool(s)
       THEN [s EXCEPT !.uiOCEffect = @ \ {"Overheat"}]
       ELSE s

-----------------------------------------------------------------------------
(* The charge mechanics of the player.  They take and return a frame: the   *)
(* state of the weapon, the attack control and the static fireOnce.         *)

(* Mutant: charging has no cap of its own.                                  *)
ChargeUncapped(s, ft) == [s EXCEPT !.fHeatVal = @ + ft * 2 * s.fHeatPerShot]

Charge(s, ft) ==
  [s EXCEPT !.fHeatVal = Lesser(CHARGE_CAP, @ + ft * 2 * s.fHeatPerShot)]

MayCharge(s, effect) ==
  effect \in s.uiOCEffect /\ ~IsOverheating(s) /\ s.fHeatVal <= HOT_THRESHOLD

(* Mutant: a press does not restart the tick counter.                       *)
ResetTicksNever(s, k) == s

ResetTicks(s, k) == IF Pressed(k) THEN [s EXCEPT !.uiTicksPassed = 0] ELSE s

UpdateOverchargeShot(f, ft) ==
  LET reset    == ResetTicks(f.st, f.key)
      released == Depressed(f.key) /\ "Overcharge" \in reset.uiOCEffect
      flagged  == [reset EXCEPT !.uiOCEffect =
                     IF Held(f.key) /\ "Overheat" \notin @ THEN @ \cup {"Overcharge"}
                     ELSE IF released THEN @ \ {"Overcharge"} ELSE @]
      time     == flagged.uiTicksPassed * ft
      charging == MayCharge(flagged, "Overcharge")
      heated   == IF charging /\ time >= COOLDOWN_DELAY THEN Charge(flagged, ft) ELSE flagged
      earned   == charging /\ time >= CHARGE_THRESHOLD /\ heated.fHeatVal >= config.threshold
  IN  IF "Overcharge" \notin config.effects THEN f
      ELSE [st       |-> [heated EXCEPT !.uiOCEffect = IF earned THEN @ \cup {"AltProjectile"}
                                                       ELSE @],
            key      |-> IF released THEN PressedKey ELSE f.key,
            fireOnce |-> f.fireOnce]

UpdateChargeDelay(f, ft) ==
  LET reset   == ResetTicks(f.st, f.key)
      begins  == Held(f.key) /\ reset.uiTicksPassed = 0
      aimed   == IF begins THEN [reset EXCEPT !.fTargetVal = reset.fHeatVal + config.threshold]
                 ELSE reset
      once    == f.fireOnce /\ ~begins
      release == Depressed(f.key) \/ (Held(f.key) /\ aimed.fHeatVal > aimed.fTargetVal)
      fires   == release /\ ~once /\ ~Depressed(f.key) /\ ~IsAutomatic
      flagged == IF release
                 THEN [aimed EXCEPT !.uiOCEffect = @ \ {"ChargeDelay"}, !.fTargetVal = -1]
                 ELSE [aimed EXCEPT !.uiOCEffect =
                         IF Held(f.key) THEN @ \cup {"ChargeDelay"} ELSE @]
  IN  IF "ChargeDelay" \notin config.effects THEN f
      ELSE [st       |-> IF MayCharge(flagged, "ChargeDelay") THEN Charge(flagged, ft) ELSE flagged,
            key      |-> IF fires THEN PressedKey ELSE f.key,
            fireOnce |-> once \/ fires]

(* Mutant: a menu or an inactive weapon leaves the charge effects alone.    *)
PlayerEffectsKeptInMenu(f, ft) ==
  IF ~IsPlayer \/ ~(f.st.bIsActive /\ menu = "none") \/ IsOverheating(f.st) THEN f
  ELSE UpdateChargeDelay(UpdateOverchargeShot(f, ft), ft)

(* The part of UpdateActiveWeapons that is the player's alone.              *)
PlayerEffects(f, ft) ==
  LET s     == f.st
      ready == [f EXCEPT !.st.iCanOverheat = IF @ = 1 THEN 2 ELSE @]
  IN  CASE ~IsPlayer -> f
        [] IsPlayer /\ ~(s.bIsActive /\ menu = "none") ->
             [f EXCEPT !.st.uiOCEffect = @ \ {"Overcharge", "AltProjectile", "ChargeDelay"}]
        [] IsPlayer /\ s.bIsActive /\ menu = "none" /\ IsOverheating(s) -> f
        [] OTHER -> UpdateChargeDelay(UpdateOverchargeShot(ready, ft), ft)

-----------------------------------------------------------------------------
(* UpdateActiveWeapons                                                      *)

Wielded == equipped /\ ~dying

(* Mutant: a weapon that is put away stays active.                          *)
ActivationKept(s, has3D) ==
  IF ~Wielded \/ s.bIsActive \/ ~has3D THEN s
  ELSE InitializeHeatData([s EXCEPT !.bIsActive = TRUE, !.uiTicksPassed = 0], config)

(* has3D: the weapon bone of the actor has children.                        *)
Activation(s, has3D) ==
  IF ~Wielded THEN [s EXCEPT !.bIsActive = FALSE]
  ELSE IF s.bIsActive \/ ~has3D THEN s
  ELSE InitializeHeatData([s EXCEPT !.bIsActive = TRUE, !.uiTicksPassed = 0], config)

(* Mutant: the counter passes its maximum.                                  *)
TickPastMax(s) == [s EXCEPT !.uiTicksPassed = IF @ <= MAX_TICKS THEN @ + 1 ELSE @]

Tick(s) == [s EXCEPT !.uiTicksPassed = IF @ < MAX_TICKS THEN @ + 1 ELSE @]

(* Mutant: the flags that stop firing also stop the cooling.                *)
CoolDownUnlessBlocked(s, time, ft) ==
  IF menu = "none" /\ time >= COOLDOWN_DELAY /\ s.uiOCEffect \cap STOP_FIRING_FLAGS = {}
  THEN [s EXCEPT !.fHeatVal = Greater(0, @ - ft * s.fCooldownRate)]
  ELSE s

CoolDown(s, time, ft) ==
  IF menu = "none" /\ time >= COOLDOWN_DELAY /\ s.uiOCEffect \cap STOP_COOLDOWN_FLAGS = {}
  THEN [s EXCEPT !.fHeatVal = Greater(0, @ - ft * s.fCooldownRate)]
  ELSE s

UpdateActiveWeapons(k, ft, has3D) ==
  LET awake   == Activation(st, has3D)
      time    == awake.uiTicksPassed * ft
      heated  == IF "Overheat" \in config.effects THEN UpdateOverheat(awake) ELSE awake
      frame   == PlayerEffects([st |-> Tick(heated), key |-> k, fireOnce |-> fireOnce], ft)
      erased  == ~frame.st.bIsActive /\ frame.st.fHeatVal = 0 /\ time >= ERASE_DELAY
  IN  /\ present'  = ~erased
      /\ st'       = IF erased THEN NewState(config) ELSE CoolDown(frame.st, time, ft)
      /\ key'      = frame.key
      /\ fireOnce' = frame.fireOnce
      /\ UNCHANGED config

(* One frame: the control is sampled, then the main loop updates the weapon *)
(* unless the start menu or the console is open.                            *)
Frame(down, ft, has3D) ==
  LET k == [cur |-> down, last |-> key.cur]
  IN  /\ IF present /\ menu # "paused"
         THEN UpdateActiveWeapons(k, ft, has3D)
         ELSE key' = k /\ UNCHANGED instance
      /\ polled' = TRUE
      /\ UNCHANGED <<anim, queued, world>>

-----------------------------------------------------------------------------
(* The hooks                                                                *)

(* The HeatData GetOrCreateHeat returns: an existing one takes the          *)
(* configuration of the equipped ammo, a missing one is created.            *)
HeatOf ==
  CASE ammo = NoConfig -> [present |-> present, st |-> st, config |-> config]
    [] ammo # NoConfig /\ ~present ->
         [present |-> TRUE, st |-> NewState(ammo), config |-> ammo]
    [] ammo # NoConfig /\ present /\ ammo # config ->
         [present |-> TRUE, st |-> InitializeHeatData(st, ammo), config |-> ammo]
    [] OTHER -> [present |-> TRUE, st |-> st, config |-> config]

(* GetEquippedOCWeapon, called by every update of the actor.                *)
ActorUpdate ==
  /\ menu = "none" /\ equipped
  /\ present' = HeatOf.present
  /\ st'      = HeatOf.st
  /\ config'  = HeatOf.config
  /\ UNCHANGED <<fireOnce, engine, world>>

WantsAttack == queued \/ (IF IsAutomatic THEN Held(key) ELSE Pressed(key))

(* Mutants: overheating does not stop firing; a refused attack stays queued. *)
PlayFireAnimationHot ==
  /\ menu = "none" /\ Wielded /\ polled /\ anim # "firing" /\ WantsAttack
  /\ anim' = IF present /\ st.uiOCEffect \cap STOP_COOLDOWN_FLAGS # {}
             THEN "blocked" ELSE "firing"
  /\ queued' = FALSE /\ polled' = FALSE
  /\ UNCHANGED <<key, instance, world>>

PlayFireAnimationQueued ==
  /\ menu = "none" /\ Wielded /\ polled /\ anim # "firing" /\ WantsAttack
  /\ anim' = IF present /\ st.uiOCEffect \cap STOP_FIRING_FLAGS # {}
             THEN "blocked" ELSE "firing"
  /\ polled' = FALSE
  /\ UNCHANGED <<queued, key, instance, world>>

(* The engine wants to attack and asks for the animation; the null          *)
(* animation of a blocked weapon also drops the queued attacks.             *)
PlayFireAnimation ==
  /\ menu = "none" /\ Wielded /\ polled /\ anim # "firing" /\ WantsAttack
  /\ anim'   = IF present /\ st.uiOCEffect \cap STOP_FIRING_FLAGS # {}
               THEN "blocked" ELSE "firing"
  /\ queued' = FALSE
  /\ polled' = FALSE
  /\ UNCHANGED <<key, instance, world>>

(* Mutant: Critical Mass deals its damage but does not disable overheating. *)
UpdatePerksStillOverheat(s, bends) ==
  IF "CriticalMass" \in Perks /\ IsHot(s)
  THEN [s EXCEPT !.uiOCEffect = @ \cup {"SelfDamage"}] ELSE s

(* UpdatePerks, as far as it touches heat and effects.  bends: the coin of  *)
(* Circuit Bender.                                                          *)
UpdatePerks(s, bends) ==
  LET bent     == IF "CircuitBender" \in Perks /\ "AltProjectile" \in s.uiOCEffect /\ bends
                  THEN [s EXCEPT !.fHeatVal = Greater(0, @ - s.fHeatPerShot)] ELSE s
      critical == IF "CriticalMass" \notin Perks THEN bent
                  ELSE IF ~IsHot(bent) THEN [bent EXCEPT !.uiOCEffect = @ \ {"SelfDamage"}]
                  ELSE IF "SelfDamage" \in bent.uiOCEffect THEN bent
                  ELSE [bent EXCEPT !.uiOCEffect = @ \cup {"SelfDamage"}, !.iCanOverheat = 0]
  IN  IF "CoolantLeak" \in Perks /\ 10 * critical.fHeatVal >= 7 * HOT_THRESHOLD
      THEN [critical EXCEPT !.fHeatVal = HOT_THRESHOLD]
      ELSE critical

(* FireWeaponWrapper with the ProjectileWrapper call it leads to: the shot  *)
(* of the running attack leaves.  lastRound: it emptied the weapon.         *)
FireShot(bends, lastRound) ==
  LET perked   == UpdatePerks(HeatOnFire(HeatOf.st), bends)
      launched == [perked EXCEPT !.uiOCEffect = @ \ {"AltProjectile"}]
      missing  == [st EXCEPT !.uiOCEffect = IF present THEN @ \ {"AltProjectile"} ELSE @]
  IN  /\ menu = "none" /\ anim = "firing"
      /\ ammo # NoConfig => HeatOf.st.fHeatVal + HeatOf.st.fHeatPerShot <= HeatBound
      /\ present' = HeatOf.present
      /\ config'  = HeatOf.config
      /\ st' = IF ammo = NoConfig THEN missing
               ELSE IF lastRound /\ IsPlayer /\ "CriticalMass" \notin Perks
               THEN [launched EXCEPT !.iCanOverheat = 1] ELSE launched
      /\ anim'   = "fired"
      /\ queued' = (IsAutomatic /\ Held(key))
      /\ UNCHANGED <<fireOnce, key, polled, world>>

-----------------------------------------------------------------------------
(* What the game does around the weapon.                                    *)

SetMenu(m) ==
  /\ menu # m /\ ("none" \in {m, menu})
  /\ menu' = m
  /\ UNCHANGED <<instance, engine, ammo, equipped, dying>>

(* Another weapon is drawn: an attack under way is cancelled.               *)
Unequip ==
  /\ equipped
  /\ equipped' = FALSE
  /\ anim' = "idle" /\ queued' = FALSE
  /\ UNCHANGED <<instance, key, polled, ammo, dying, menu>>

Equip ==
  /\ ~equipped
  /\ equipped' = TRUE
  /\ UNCHANGED <<instance, engine, ammo, dying, menu>>

SwapAmmo(a) ==
  /\ equipped /\ a # ammo /\ anim # "firing"
  /\ ammo' = a
  /\ UNCHANGED <<instance, engine, equipped, dying, menu>>

Die ==
  /\ ~dying
  /\ dying' = TRUE
  /\ anim' = "idle" /\ queued' = FALSE
  /\ UNCHANGED <<instance, key, polled, ammo, equipped, menu>>

(* A save is loaded: ClearOCWeapons empties the containers.                 *)
PostLoadGame ==
  /\ present' = FALSE /\ st' = NewState(config)
  /\ dying' = FALSE /\ anim' = "idle" /\ queued' = FALSE
  /\ UNCHANGED <<config, fireOnce, key, polled, ammo, equipped, menu>>

-----------------------------------------------------------------------------

Init ==
  /\ present = FALSE
  /\ config \in Ammo \cap Configs
  /\ st = NewState(config)
  /\ fireOnce = FALSE
  /\ key = [cur |-> FALSE, last |-> FALSE]
  /\ polled = FALSE
  /\ anim = "idle"
  /\ queued = FALSE
  /\ ammo = config
  /\ equipped \in BOOLEAN
  /\ dying = FALSE
  /\ menu = "none"

(* The control is the player's trigger; for any other actor it stands for   *)
(* the decision of the engine's combat AI to attack.                        *)
FrameStep ==
  \E down \in BOOLEAN, ft \in FrameTimes, has3D \in BOOLEAN : Frame(down, ft, has3D)

ShotStep == \E bends, lastRound \in BOOLEAN : FireShot(bends, lastRound)

Next ==
  \/ FrameStep
  \/ ActorUpdate
  \/ PlayFireAnimation
  \/ ShotStep
  \/ \E m \in Menus : SetMenu(m)
  \/ Unequip
  \/ Equip
  \/ \E a \in Ammo : SwapAmmo(a)
  \/ Die
  \/ PostLoadGame

Spec == Init /\ [][Next]_vars

(* The main loop of the game keeps running and, outside menus, updates the  *)
(* actor; nothing else is assumed.                                          *)
FairSpec == Spec /\ WF_vars(FrameStep) /\ WF_vars(ActorUpdate)

-----------------------------------------------------------------------------
(* Properties                                                               *)

(* An overheated weapon has lost its charge: Overheat replaces the charge   *)
(* effects when it is set and no update adds them back until it is gone, so *)
(* no charged projectile survives a lockout.                                *)
LockoutClearsCharge ==
  IsOverheating(st) =>
    st.uiOCEffect \cap {"Overcharge", "ChargeDelay", "AltProjectile"} = {}

(* A charge effect, which blocks firing and stops cooling, is only there    *)
(* while the sampled trigger is down: every release, menu, holster or death *)
(* is noticed by the very update that samples it.                           *)
ChargeNeedsTrigger ==
  st.uiOCEffect \cap STOP_COOLDOWN_FLAGS # {} => Held(key)

(* Charging stops short of overheating: only a shot makes a weapon hot.     *)
OnlyShotsOverheat ==
  [][~IsHot(st) /\ IsHot(st') => anim = "firing" /\ anim' = "fired"]_vars

(* An attack refused by PlayFireAnimation is forgotten, not postponed: the  *)
(* next attack needs the trigger down again.                                *)
BlockedAttackIsDropped ==
  [][anim = "blocked" /\ anim' = "firing" => Held(key)]_vars

(* Critical Mass trades overheating for self damage: the shot that makes    *)
(* the weapon hot disables overheating before any update can see the heat.  *)
CriticalMassNeverOverheats ==
  "CriticalMass" \in Perks => ~IsOverheating(st)

(* A weapon that stays in hand, or stays away, with one kind of ammo and no *)
(* menu open, always recovers from overheating.                             *)
LockoutEnds ==
  /\ <>[](menu = "none")
  /\ <>[]equipped \/ <>[]~equipped
  /\ \E a \in Ammo : <>[](ammo = a)
  => []<>~IsOverheating(st)

(* A weapon that is put away for good is eventually forgotten, whatever its *)
(* heat and effects were.                                                   *)
AbandonedIsErased ==
  <>[](menu = "none" /\ ~equipped) => <>[]~present

(* The frames a weapon needs, at most, to be cold: one for each tick that   *)
(* the delay still lacks and one for each unit of heat.                     *)
Remaining(s, delay) == Greater(0, delay - s.uiTicksPassed) + s.fHeatVal

(* A frame outside menus of a weapon that loses heat with time.             *)
CoolingFrame == FrameStep /\ present /\ menu = "none" /\ st.fCooldownRate > 0

(* Why lockouts end: until then every frame outside menus brings the        *)
(* overheated weapon nearer to being cool, and nothing but a shot and the   *)
(* drawing of the weapon, which restart the delay, takes any of it back.    *)
LockoutWearsOff ==
  [][IsOverheating(st) /\ IsOverheating(st') =>
       \/ anim = "firing" /\ anim' = "fired"
       \/ ~st.bIsActive /\ st'.bIsActive
       \/ /\ Remaining(st', COOLDOWN_DELAY) <= Remaining(st, COOLDOWN_DELAY)
          /\ CoolingFrame /\ "Overheat" \in config.effects =>
               Remaining(st', COOLDOWN_DELAY) < Remaining(st, COOLDOWN_DELAY)]_vars

(* A weapon that was put away needs both delays.                            *)
AwayDelay == Greater(COOLDOWN_DELAY, ERASE_DELAY)

(* Why weapons that were put away are forgotten: until then every frame     *)
(* outside menus brings them nearer to being cold and old enough, and       *)
(* nothing that happens while they are away takes any of it back.           *)
AbandonedWearsOff ==
  [][~Wielded /\ present /\ present' =>
       /\ Remaining(st', AwayDelay) <= Remaining(st, AwayDelay)
       /\ CoolingFrame => Remaining(st', AwayDelay) < Remaining(st, AwayDelay)]_vars

Mode ==
  CASE IsOverheating(st) -> "locked"
    [] ~IsOverheating(st) /\ st.uiOCEffect \cap STOP_FIRING_FLAGS # {} -> "charging"
    [] OTHER -> "ready"

(* The state machine keeps the promises of HeatCycle.                       *)
Cycle == INSTANCE HeatCycle WITH
  Hot <- HOT_THRESHOLD, Cool <- COOL_THRESHOLD, Cap <- CHARGE_CAP,
  MayDisable <- "CriticalMass" \in Perks,
  mode <- Mode, heat <- st.fHeatVal, attacking <- anim = "firing"

ImplementsCycle == Cycle!Spec
=============================================================================
