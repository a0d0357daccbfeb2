-------------------------- MODULE HeatWeaponProofs --------------------------
(***************************************************************************)
(* Theorems about HeatWeapon, for every threshold, configuration, perk and *)
(* menu its assumptions allow.                                             *)
(***************************************************************************)
EXTENDS HeatWeapon, TLAPS

USE ThresholdsAssumption, EnvironmentAssumption

-----------------------------------------------------------------------------
(* Arithmetic                                                              *)

(* The product of two naturals is a natural.                               *)
LEMMA NatTimes == \A x, y \in Nat : x * y \in Nat
  OBVIOUS

(* A charge and a cool-down of naturals stay naturals.                     *)
LEMMA LesserNat == \A a, b \in Nat : Lesser(a, b) \in Nat /\ Lesser(a, b) <= a
  BY DEF Lesser

LEMMA GreaterNat == \A a \in Int : Greater(0, a) \in Nat
  BY DEF Greater

-----------------------------------------------------------------------------
(* Every operation on a HeatState yields a HeatState.                      *)

(* A single field may be replaced by any value of its type.                *)
LEMMA FieldUpdate ==
  ASSUME NEW s \in HeatState
  PROVE  /\ \A b \in BOOLEAN : [s EXCEPT !.bIsActive = b] \in HeatState
         /\ \A n \in 0..2 : [s EXCEPT !.iCanOverheat = n] \in HeatState
         /\ \A n \in 0..MAX_TICKS : [s EXCEPT !.uiTicksPassed = n] \in HeatState
         /\ \A e \in SUBSET OCEffects : [s EXCEPT !.uiOCEffect = e] \in HeatState
         /\ \A t \in Int : [s EXCEPT !.fTargetVal = t] \in HeatState
         /\ \A h \in Nat : [s EXCEPT !.fHeatVal = h] \in HeatState
  BY DEF HeatState

LEMMA NewStateType == \A c \in Configs : NewState(c) \in HeatState
  BY DEF NewState, HeatState, HeatConfiguration

LEMMA InitializeHeatDataType ==
  \A s \in HeatState, c \in Configs : InitializeHeatData(s, c) \in HeatState
  BY DEF InitializeHeatData, HeatState, HeatConfiguration

LEMMA UpdateOverheatType == \A s \in HeatState : UpdateOverheat(s) \in HeatState
  BY DEF UpdateOverheat, HeatState, OCEffects

LEMMA HeatOnFireType == \A s \in HeatState : HeatOnFire(s) \in HeatState
  <1> SUFFICES ASSUME NEW s \in HeatState PROVE HeatOnFire(s) \in HeatState
    OBVIOUS
  <1>1. s.fHeatVal + s.fHeatPerShot \in Nat
    BY DEF HeatState
  <1> DEFINE hotter == [s EXCEPT !.fHeatVal = s.fHeatVal + s.fHeatPerShot]
  <1>2. hotter \in HeatState
    BY <1>1, FieldUpdate
  <1>3. HeatOnFire(s) = [hotter EXCEPT !.uiTicksPassed = 0]
    BY DEF HeatOnFire
  <1>4. QED
    <2> HIDE DEF hotter
    <2> QED BY <1>2, <1>3 DEF HeatState

LEMMA ChargeType ==
  \A s \in HeatState, ft \in FrameTimes :
    /\ Charge(s, ft) \in HeatState
    /\ Charge(s, ft).fHeatVal <= CHARGE_CAP
    /\ Charge(s, ft).uiOCEffect = s.uiOCEffect
  <1> SUFFICES ASSUME NEW s \in HeatState, NEW ft \in FrameTimes
      PROVE /\ Charge(s, ft) \in HeatState
            /\ Charge(s, ft).fHeatVal <= CHARGE_CAP
            /\ Charge(s, ft).uiOCEffect = s.uiOCEffect
    OBVIOUS
  <1>1. s.fHeatVal \in Nat /\ s.fHeatPerShot \in Nat /\ ft * 2 \in Nat
    BY DEF HeatState
  <1>2. s.fHeatVal + ft * 2 * s.fHeatPerShot \in Nat
    BY <1>1, NatTimes
  <1>3. QED
    BY <1>2, LesserNat DEF Charge, HeatState

LEMMA ResetTicksType ==
  \A s \in HeatState, k \in KeyState : ResetTicks(s, k) \in HeatState
  BY DEF ResetTicks, HeatState

-----------------------------------------------------------------------------
(* The charge mechanics keep the type of a frame.                          *)

Frames == [st : HeatState, key : KeyState, fireOnce : BOOLEAN]

LEMMA OverchargeShotType ==
  ASSUME TypeOK, NEW f \in Frames, NEW ft \in FrameTimes
  PROVE  UpdateOverchargeShot(f, ft) \in Frames
  <1> DEFINE reset    == ResetTicks(f.st, f.key)
             released == Depressed(f.key) /\ "Overcharge" \in reset.uiOCEffect
             flagged  == [reset EXCEPT !.uiOCEffect =
                            IF Held(f.key) /\ "Overheat" \notin @ THEN @ \cup {"Overcharge"}
                            ELSE IF released THEN @ \ {"Overcharge"} ELSE @]
             time     == flagged.uiTicksPassed * ft
             charging == MayCharge(flagged, "Overcharge")
             heated   == IF charging /\ time >= COOLDOWN_DELAY THEN Charge(flagged, ft) ELSE flagged
             earned   == charging /\ time >= CHARGE_THRESHOLD /\ heated.fHeatVal >= config.threshold
             new      == [heated EXCEPT !.uiOCEffect =
                            IF earned THEN @ \cup {"AltProjectile"} ELSE @]
  <1>1. reset \in HeatState
    BY ResetTicksType DEF Frames
  <1>2. flagged \in HeatState
    <2> HIDE DEF reset, released
    <2> QED BY <1>1 DEF HeatState, OCEffects
  <1>3. heated \in HeatState
    <2> HIDE DEF flagged, charging, time
    <2> QED BY <1>2, ChargeType
  <1>4. new \in HeatState
    <2> HIDE DEF heated, earned
    <2> QED BY <1>3 DEF HeatState, OCEffects
  <1>5. UpdateOverchargeShot(f, ft) =
          IF "Overcharge" \notin config.effects THEN f
          ELSE [st |-> new, key |-> IF released THEN PressedKey ELSE f.key,
                fireOnce |-> f.fireOnce]
    BY DEF UpdateOverchargeShot
  <1>6. QED
    <2> HIDE DEF new, released
    <2> QED BY <1>4, <1>5 DEF Frames, PressedKey, KeyState

LEMMA ChargeDelayType ==
  ASSUME TypeOK, NEW f \in Frames, NEW ft \in FrameTimes
  PROVE  UpdateChargeDelay(f, ft) \in Frames
  <1> DEFINE reset   == ResetTicks(f.st, f.key)
             begins  == Held(f.key) /\ reset.uiTicksPassed = 0
             aimed   == IF begins
                        THEN [reset EXCEPT !.fTargetVal = reset.fHeatVal + config.threshold]
                        ELSE reset
             once    == f.fireOnce /\ ~begins
             release == Depressed(f.key) \/ (Held(f.key) /\ aimed.fHeatVal > aimed.fTargetVal)
             fires   == release /\ ~once /\ ~Depressed(f.key) /\ ~IsAutomatic
             flagged == IF release
                        THEN [aimed EXCEPT !.uiOCEffect = @ \ {"ChargeDelay"}, !.fTargetVal = -1]
                        ELSE [aimed EXCEPT !.uiOCEffect =
                                IF Held(f.key) THEN @ \cup {"ChargeDelay"} ELSE @]
             new     == IF MayCharge(flagged, "ChargeDelay") THEN Charge(flagged, ft) ELSE flagged
  <1>1. reset \in HeatState
    BY ResetTicksType DEF Frames
  <1>2. aimed \in HeatState
    <2>1. reset.fHeatVal + config.threshold \in Int
      <3> HIDE DEF reset
      <3> QED BY <1>1 DEF HeatState, TypeOK, HeatConfiguration
    <2> HIDE DEF reset, begins
    <2> QED BY <1>1, <2>1 DEF HeatState
  <1>3. flagged \in HeatState
    <2> DEFINE dropped == [aimed EXCEPT !.uiOCEffect = @ \ {"ChargeDelay"}]
               kept    == [aimed EXCEPT !.uiOCEffect =
                             IF Held(f.key) THEN @ \cup {"ChargeDelay"} ELSE @]
    <2>1. dropped \in HeatState /\ kept \in HeatState
      <3> HIDE DEF aimed
      <3> QED BY <1>2 DEF HeatState, OCEffects
    <2>2. [dropped EXCEPT !.fTargetVal = -1] \in HeatState
      <3> HIDE DEF dropped
      <3> QED BY <2>1 DEF HeatState
    <2>3. flagged = IF release THEN [dropped EXCEPT !.fTargetVal = -1] ELSE kept
      <3> HIDE DEF aimed, release
      <3> QED OBVIOUS
    <2> HIDE DEF flagged, dropped, kept, release
    <2> QED BY <2>1, <2>2, <2>3
  <1>4. new \in HeatState
    <2> HIDE DEF flagged
    <2> QED BY <1>3, ChargeType
  <1>5. once \in BOOLEAN /\ fires \in BOOLEAN
    BY DEF Frames, KeyState, Held, Depressed
  <1>6. UpdateChargeDelay(f, ft) =
          IF "ChargeDelay" \notin config.effects THEN f
          ELSE [st |-> new, key |-> IF fires THEN PressedKey ELSE f.key,
                fireOnce |-> once \/ fires]
    BY DEF UpdateChargeDelay
  <1>7. QED
    <2> HIDE DEF new, once, fires
    <2> QED BY <1>4, <1>5, <1>6 DEF Frames, PressedKey, KeyState

LEMMA PlayerEffectsType ==
  ASSUME TypeOK, NEW f \in Frames, NEW ft \in FrameTimes
  PROVE  PlayerEffects(f, ft) \in Frames
  <1> DEFINE ready   == [f EXCEPT !.st.iCanOverheat = IF @ = 1 THEN 2 ELSE @]
             dropped == [f EXCEPT !.st.uiOCEffect =
                           @ \ {"Overcharge", "AltProjectile", "ChargeDelay"}]
  <1>1. ready \in Frames
    BY DEF Frames, HeatState
  <1>2. dropped \in Frames
    BY DEF Frames, HeatState, OCEffects
  <1>3. UpdateChargeDelay(UpdateOverchargeShot(ready, ft), ft) \in Frames
    BY <1>1, OverchargeShotType, ChargeDelayType
  <1>4. PlayerEffects(f, ft) \in
          {f, dropped, UpdateChargeDelay(UpdateOverchargeShot(ready, ft), ft)}
    <2> HIDE DEF dropped, ready
    <2> QED BY DEF PlayerEffects, dropped, ready
  <1>5. QED
    <2> HIDE DEF dropped, ready
    <2> QED BY <1>1, <1>2, <1>3, <1>4

-----------------------------------------------------------------------------
(* The update, the hooks and the type invariant.                           *)

LEMMA ActivationType ==
  ASSUME TypeOK, NEW has3D \in BOOLEAN
  PROVE  Activation(st, has3D) \in HeatState
  <1> DEFINE awake == [st EXCEPT !.bIsActive = TRUE]
             reset == [awake EXCEPT !.uiTicksPassed = 0]
  <1>1. awake \in HeatState
    BY DEF TypeOK, HeatState
  <1>2. reset \in HeatState
    <2> HIDE DEF awake
    <2> QED BY <1>1 DEF HeatState
  <1>3. InitializeHeatData(reset, config) \in HeatState
    <2> HIDE DEF reset
    <2> QED BY <1>2, InitializeHeatDataType DEF TypeOK
  <1>4. [st EXCEPT !.bIsActive = FALSE] \in HeatState
    BY DEF TypeOK, HeatState
  <1>5. Activation(st, has3D) \in
          {st, [st EXCEPT !.bIsActive = FALSE], InitializeHeatData(reset, config)}
    BY DEF Activation
  <1>6. QED
    <2> HIDE DEF reset
    <2> QED BY <1>3, <1>4, <1>5 DEF TypeOK

LEMMA TickType == \A s \in HeatState : Tick(s) \in HeatState
  BY DEF Tick, HeatState

LEMMA CoolDownType ==
  \A s \in HeatState, time \in Nat, ft \in FrameTimes : CoolDown(s, time, ft) \in HeatState
  <1> SUFFICES ASSUME NEW s \in HeatState, NEW time \in Nat, NEW ft \in FrameTimes
      PROVE CoolDown(s, time, ft) \in HeatState
    OBVIOUS
  <1>1. s.fHeatVal \in Nat /\ ft * s.fCooldownRate \in Nat
    BY NatTimes DEF HeatState
  <1>2. Greater(0, s.fHeatVal - ft * s.fCooldownRate) \in Nat
    BY <1>1, GreaterNat
  <1>3. QED
    BY <1>2, FieldUpdate DEF CoolDown

LEMMA UpdatePerksType ==
  ASSUME NEW s \in HeatState, NEW bends \in BOOLEAN
  PROVE  UpdatePerks(s, bends) \in HeatState
  <1> DEFINE bent     == IF "CircuitBender" \in Perks /\ "AltProjectile" \in s.uiOCEffect /\ bends
                         THEN [s EXCEPT !.fHeatVal = Greater(0, @ - s.fHeatPerShot)] ELSE s
             marked   == [bent EXCEPT !.uiOCEffect = @ \cup {"SelfDamage"}]
             critical == IF "CriticalMass" \notin Perks THEN bent
                         ELSE IF ~IsHot(bent)
                         THEN [bent EXCEPT !.uiOCEffect = @ \ {"SelfDamage"}]
                         ELSE IF "SelfDamage" \in bent.uiOCEffect THEN bent
                         ELSE [bent EXCEPT !.uiOCEffect = @ \cup {"SelfDamage"},
                                           !.iCanOverheat = 0]
  <1>1. bent \in HeatState
    <2>1. s.fHeatVal - s.fHeatPerShot \in Int
      BY DEF HeatState
    <2>2. QED
      BY <2>1, GreaterNat DEF HeatState
  <1>2. marked \in HeatState /\ [bent EXCEPT !.uiOCEffect = @ \ {"SelfDamage"}] \in HeatState
    <2> HIDE DEF bent
    <2> QED BY <1>1 DEF HeatState, OCEffects
  <1>3. [marked EXCEPT !.iCanOverheat = 0] \in HeatState
    <2> HIDE DEF marked
    <2> QED BY <1>2 DEF HeatState
  <1>4. critical \in HeatState
    <2> HIDE DEF bent
    <2>1. critical \in {bent, [bent EXCEPT !.uiOCEffect = @ \ {"SelfDamage"}],
                        [marked EXCEPT !.iCanOverheat = 0]}
      OBVIOUS
    <2> HIDE DEF critical, marked
    <2> QED BY <1>1, <1>2, <1>3, <2>1
  <1>5. UpdatePerks(s, bends) \in {critical, [critical EXCEPT !.fHeatVal = HOT_THRESHOLD]}
    <2> HIDE DEF bent
    <2>1. UpdatePerks(s, bends) =
            IF "CoolantLeak" \in Perks /\ 10 * critical.fHeatVal >= 7 * HOT_THRESHOLD
            THEN [critical EXCEPT !.fHeatVal = HOT_THRESHOLD] ELSE critical
      BY DEF UpdatePerks, bent
    <2> HIDE DEF critical
    <2> QED BY <2>1
  <1>6. QED
    <2> HIDE DEF critical
    <2> QED BY <1>4, <1>5, FieldUpdate, ZenonT(60)

LEMMA HeatOfType ==
  ASSUME TypeOK
  PROVE  HeatOf.present \in BOOLEAN /\ HeatOf.st \in HeatState /\ HeatOf.config \in Configs
  BY NewStateType, InitializeHeatDataType DEF HeatOf, TypeOK

LEMMA UpdateActiveWeaponsType ==
  ASSUME TypeOK, NEW k \in KeyState, NEW ft \in FrameTimes, NEW has3D \in BOOLEAN,
         UpdateActiveWeapons(k, ft, has3D)
  PROVE  /\ present' \in BOOLEAN /\ st' \in HeatState /\ config' \in Configs
         /\ key' \in KeyState /\ fireOnce' \in BOOLEAN
  <1> DEFINE awake  == Activation(st, has3D)
             time   == awake.uiTicksPassed * ft
             heated == IF "Overheat" \in config.effects THEN UpdateOverheat(awake) ELSE awake
             frame  == PlayerEffects([st |-> Tick(heated), key |-> k, fireOnce |-> fireOnce], ft)
             erased == ~frame.st.bIsActive /\ frame.st.fHeatVal = 0 /\ time >= ERASE_DELAY
  <1>1. awake \in HeatState
    BY ActivationType
  <1>2. time \in Nat
    <2> HIDE DEF awake
    <2>1. awake.uiTicksPassed \in Nat
      BY <1>1 DEF HeatState
    <2> QED BY <2>1, NatTimes
  <1>3. heated \in HeatState
    <2> HIDE DEF awake
    <2> QED BY <1>1, UpdateOverheatType
  <1>4. frame \in Frames
    <2> HIDE DEF heated
    <2>1. [st |-> Tick(heated), key |-> k, fireOnce |-> fireOnce] \in Frames
      BY <1>3, TickType DEF Frames, TypeOK
    <2> QED BY <2>1, PlayerEffectsType
  <1>5. /\ present' = ~erased
        /\ st' = IF erased THEN NewState(config) ELSE CoolDown(frame.st, time, ft)
        /\ key' = frame.key
        /\ fireOnce' = frame.fireOnce
        /\ config' = config
    BY DEF UpdateActiveWeapons
  <1>6. frame.st \in HeatState /\ frame.key \in KeyState /\ frame.fireOnce \in BOOLEAN
    <2> HIDE DEF frame
    <2> QED BY <1>4 DEF Frames
  <1>7. st' \in HeatState
    <2> HIDE DEF frame, time, erased
    <2> QED BY <1>2, <1>5, <1>6, NewStateType, CoolDownType DEF TypeOK
  <1>8. QED
    <2> HIDE DEF frame, erased
    <2> QED BY <1>5, <1>6, <1>7 DEF TypeOK

LEMMA FireShotType ==
  ASSUME TypeOK, NEW bends \in BOOLEAN, NEW lastRound \in BOOLEAN, FireShot(bends, lastRound)
  PROVE  present' \in BOOLEAN /\ st' \in HeatState /\ config' \in Configs
  <1> DEFINE perked   == UpdatePerks(HeatOnFire(HeatOf.st), bends)
             launched == [perked EXCEPT !.uiOCEffect = @ \ {"AltProjectile"}]
             missing  == [st EXCEPT !.uiOCEffect = IF present THEN @ \ {"AltProjectile"} ELSE @]
  <1>1. perked \in HeatState
    BY HeatOfType, HeatOnFireType, UpdatePerksType
  <1>2. launched \in HeatState
    <2> HIDE DEF perked
    <2> QED BY <1>1 DEF HeatState, OCEffects
  <1>3. [launched EXCEPT !.iCanOverheat = 1] \in HeatState
    <2> HIDE DEF launched
    <2> QED BY <1>2 DEF HeatState
  <1>4. missing \in HeatState
    BY DEF TypeOK, HeatState, OCEffects
  <1>5. st' \in {missing, launched, [launched EXCEPT !.iCanOverheat = 1]}
    <2>1. st' = IF ammo = NoConfig THEN missing
                ELSE IF lastRound /\ IsPlayer /\ "CriticalMass" \notin Perks
                THEN [launched EXCEPT !.iCanOverheat = 1] ELSE launched
      BY DEF FireShot
    <2> HIDE DEF missing, launched
    <2> QED BY <2>1
  <1>6. present' = HeatOf.present /\ config' = HeatOf.config
    BY DEF FireShot
  <1>7. QED
    <2> HIDE DEF missing, launched
    <2> QED BY <1>2, <1>3, <1>4, <1>5, <1>6, HeatOfType

LEMMA TypeStep == TypeOK /\ [Next]_vars => TypeOK'
  <1> SUFFICES ASSUME TypeOK, [Next]_vars PROVE TypeOK'
    OBVIOUS
  <1>1. CASE FrameStep
    <2> PICK down \in BOOLEAN, ft \in FrameTimes, has3D \in BOOLEAN : Frame(down, ft, has3D)
      BY <1>1 DEF FrameStep
    <2> DEFINE k == [cur |-> down, last |-> key.cur]
    <2>1. k \in KeyState
      BY DEF TypeOK, KeyState
    <2>2. CASE present /\ menu # "paused"
      <3>1. UpdateActiveWeapons(k, ft, has3D)
        BY <2>2 DEF Frame
      <3>2. /\ present' \in BOOLEAN /\ st' \in HeatState /\ config' \in Configs
            /\ key' \in KeyState /\ fireOnce' \in BOOLEAN
        <4> HIDE DEF k
        <4> QED BY <2>1, <3>1, UpdateActiveWeaponsType
      <3> QED BY <3>2 DEF Frame, TypeOK, world
    <2>3. CASE ~(present /\ menu # "paused")
      BY <2>1, <2>3 DEF Frame, TypeOK, instance, world
    <2> QED BY <2>2, <2>3
  <1>2. CASE ActorUpdate
    BY <1>2, HeatOfType DEF ActorUpdate, TypeOK, engine, world
  <1>3. CASE PlayFireAnimation
    BY <1>3 DEF PlayFireAnimation, TypeOK, instance, world
  <1>4. CASE ShotStep
    <2> PICK bends \in BOOLEAN, lastRound \in BOOLEAN : FireShot(bends, lastRound)
      BY <1>4 DEF ShotStep
    <2>1. present' \in BOOLEAN /\ st' \in HeatState /\ config' \in Configs
      BY FireShotType
    <2>2. /\ anim' = "fired" /\ queued' = (IsAutomatic /\ Held(key))
          /\ UNCHANGED <<fireOnce, key, polled, world>>
      BY DEF FireShot
    <2> QED BY <2>1, <2>2 DEF TypeOK, KeyState, Held, world
  <1>5. CASE \E m \in Menus : SetMenu(m)
    BY <1>5 DEF SetMenu, TypeOK, instance, engine
  <1>6. CASE Unequip
    BY <1>6 DEF Unequip, TypeOK, instance
  <1>7. CASE Equip
    BY <1>7 DEF Equip, TypeOK, instance, engine
  <1>8. CASE \E a \in Ammo : SwapAmmo(a)
    BY <1>8 DEF SwapAmmo, TypeOK, instance, engine
  <1>9. CASE Die
    BY <1>9 DEF Die, TypeOK, instance
  <1>10. CASE PostLoadGame
    BY <1>10, NewStateType DEF PostLoadGame, TypeOK
  <1>11. CASE UNCHANGED vars
    BY <1>11 DEF TypeOK, vars, instance, engine, world
  <1>12. QED
    BY <1>1, <1>2, <1>3, <1>4, <1>5, <1>6, <1>7, <1>8, <1>9, <1>10, <1>11 DEF Next

(* Every field of the state keeps its type, the tick counter its width and  *)
(* the heat its sign: UpdateActiveWeapons saturates the counter and clamps  *)
(* the cooling.                                                             *)
THEOREM TypeCorrect == Spec => []TypeOK
  <1>1. ASSUME Init PROVE TypeOK
    <2>1. config \in Configs
      BY <1>1 DEF Init
    <2>2. st \in HeatState
      BY <1>1, <2>1, NewStateType DEF Init
    <2>3. key \in KeyState
      BY <1>1 DEF Init, KeyState
    <2> QED BY <1>1, <2>1, <2>2, <2>3 DEF Init, TypeOK
  <1>2. QED
    BY <1>1, TypeStep, PTL DEF Spec

-----------------------------------------------------------------------------
(* What the operations of a frame may do to a state is captured by one      *)
(* relation, Moves; each invariant is then a short argument about Moves,    *)
(* UpdateOverheat and the shot.                                             *)

ChargeEffects == {"Overcharge", "ChargeDelay", "AltProjectile"}

(* No operation of a frame but UpdateOverheat touches Overheat or           *)
(* SelfDamage, none adds to the effects of an overheated weapon, and heat   *)
(* rises at most to the charge cap.                                         *)
Moves(s, t) ==
  /\ (t.iCanOverheat = 0) = (s.iCanOverheat = 0)
  /\ t.uiOCEffect \ ChargeEffects = s.uiOCEffect \ ChargeEffects
  /\ IsOverheating(s) => t.uiOCEffect \subseteq s.uiOCEffect
  /\ t.fHeatVal <= s.fHeatVal \/ t.fHeatVal <= CHARGE_CAP

(* The fields the invariants read.                                          *)
Same(s, t) ==
  t.iCanOverheat = s.iCanOverheat /\ t.uiOCEffect = s.uiOCEffect /\ t.fHeatVal = s.fHeatVal

LEMMA MovesTransitive ==
  ASSUME NEW s \in HeatState, NEW t \in HeatState, NEW u \in HeatState,
         Moves(s, t), Moves(t, u)
  PROVE  Moves(s, u)
  <1>1. IsOverheating(s) = IsOverheating(t)
    BY DEF Moves, IsOverheating, ChargeEffects
  <1>2. u.fHeatVal <= s.fHeatVal \/ u.fHeatVal <= CHARGE_CAP
    BY DEF Moves, HeatState
  <1>3. QED
    BY <1>1, <1>2 DEF Moves

LEMMA MovesReflexive == \A s \in HeatState : Moves(s, s)
  BY DEF Moves, HeatState

(* The overcharge shot of a weapon that is not overheated.                  *)
LEMMA OverchargeShotMoves ==
  ASSUME TypeOK, NEW f \in Frames, NEW ft \in FrameTimes, ~IsOverheating(f.st)
  PROVE  Moves(f.st, UpdateOverchargeShot(f, ft).st)
  <1> DEFINE reset    == ResetTicks(f.st, f.key)
             released == Depressed(f.key) /\ "Overcharge" \in reset.uiOCEffect
             flagged  == [reset EXCEPT !.uiOCEffect =
                            IF Held(f.key) /\ "Overheat" \notin @ THEN @ \cup {"Overcharge"}
                            ELSE IF released THEN @ \ {"Overcharge"} ELSE @]
             time     == flagged.uiTicksPassed * ft
             charging == MayCharge(flagged, "Overcharge")
             heated   == IF charging /\ time >= COOLDOWN_DELAY THEN Charge(flagged, ft) ELSE flagged
             earned   == charging /\ time >= CHARGE_THRESHOLD /\ heated.fHeatVal >= config.threshold
             new      == [heated EXCEPT !.uiOCEffect =
                            IF earned THEN @ \cup {"AltProjectile"} ELSE @]
  <1>1. reset \in HeatState /\ Same(f.st, reset)
    BY ResetTicksType DEF Frames, ResetTicks, Same, HeatState
  <1>2. /\ flagged \in HeatState
        /\ flagged.iCanOverheat = reset.iCanOverheat /\ flagged.fHeatVal = reset.fHeatVal
        /\ flagged.uiOCEffect \ ChargeEffects = reset.uiOCEffect \ ChargeEffects
    <2> HIDE DEF reset, released
    <2> QED BY <1>1 DEF HeatState, OCEffects, ChargeEffects
  <1>3. /\ heated \in HeatState
        /\ heated.iCanOverheat = flagged.iCanOverheat
        /\ heated.uiOCEffect = flagged.uiOCEffect
        /\ heated.fHeatVal = flagged.fHeatVal \/ heated.fHeatVal <= CHARGE_CAP
    <2>1. Charge(flagged, ft).iCanOverheat = flagged.iCanOverheat
      <3> HIDE DEF flagged
      <3> QED BY <1>2 DEF Charge, HeatState
    <2> HIDE DEF flagged, charging, time
    <2> QED BY <1>2, <2>1, ChargeType
  <1>4. /\ new.iCanOverheat = heated.iCanOverheat /\ new.fHeatVal = heated.fHeatVal
        /\ new.uiOCEffect \ ChargeEffects = heated.uiOCEffect \ ChargeEffects
    <2> HIDE DEF heated, earned
    <2> QED BY <1>3 DEF HeatState, ChargeEffects
  <1>5. UpdateOverchargeShot(f, ft).st = IF "Overcharge" \notin config.effects THEN f.st ELSE new
    <2>1. UpdateOverchargeShot(f, ft) =
            IF "Overcharge" \notin config.effects THEN f
            ELSE [st |-> new, key |-> IF released THEN PressedKey ELSE f.key,
                  fireOnce |-> f.fireOnce]
      BY DEF UpdateOverchargeShot
    <2> HIDE DEF new, released
    <2> QED BY <2>1
  <1>6. f.st.fHeatVal \in Nat
    BY DEF Frames, HeatState
  <1>7. QED
    <2> HIDE DEF new, heated, flagged, reset
    <2> QED BY <1>1, <1>2, <1>3, <1>4, <1>5, <1>6 DEF Moves, Same

(* The charge delay of a weapon that is not overheated.                     *)
LEMMA ChargeDelayMoves ==
  ASSUME TypeOK, NEW f \in Frames, NEW ft \in FrameTimes, ~IsOverheating(f.st)
  PROVE  Moves(f.st, UpdateChargeDelay(f, ft).st)
  <1> DEFINE reset   == ResetTicks(f.st, f.key)
             begins  == Held(f.key) /\ reset.uiTicksPassed = 0
             aimed   == IF begins
                        THEN [reset EXCEPT !.fTargetVal = reset.fHeatVal + config.threshold]
                        ELSE reset
             once    == f.fireOnce /\ ~begins
             release == Depressed(f.key) \/ (Held(f.key) /\ aimed.fHeatVal > aimed.fTargetVal)
             fires   == release /\ ~once /\ ~Depressed(f.key) /\ ~IsAutomatic
             flagged == IF release
                        THEN [aimed EXCEPT !.uiOCEffect = @ \ {"ChargeDelay"}, !.fTargetVal = -1]
                        ELSE [aimed EXCEPT !.uiOCEffect =
                                IF Held(f.key) THEN @ \cup {"ChargeDelay"} ELSE @]
             new     == IF MayCharge(flagged, "ChargeDelay") THEN Charge(flagged, ft) ELSE flagged
  <1>1. reset \in HeatState /\ Same(f.st, reset)
    BY ResetTicksType DEF Frames, ResetTicks, Same, HeatState
  <1>2. aimed \in HeatState /\ Same(reset, aimed)
    <2>1. reset.fHeatVal + config.threshold \in Int
      <3> HIDE DEF reset
      <3> QED BY <1>1 DEF HeatState, TypeOK, HeatConfiguration
    <2> HIDE DEF reset, begins
    <2> QED BY <1>1, <2>1 DEF HeatState, Same
  <1>3. /\ flagged \in HeatState
        /\ flagged.iCanOverheat = aimed.iCanOverheat /\ flagged.fHeatVal = aimed.fHeatVal
        /\ flagged.uiOCEffect \ ChargeEffects = aimed.uiOCEffect \ ChargeEffects
    <2> DEFINE dropped == [aimed EXCEPT !.uiOCEffect = @ \ {"ChargeDelay"}]
               kept    == [aimed EXCEPT !.uiOCEffect =
                             IF Held(f.key) THEN @ \cup {"ChargeDelay"} ELSE @]
               aimless == [dropped EXCEPT !.fTargetVal = -1]
               Alike(t) == /\ t.iCanOverheat = aimed.iCanOverheat
                           /\ t.fHeatVal = aimed.fHeatVal
                           /\ t.uiOCEffect \ ChargeEffects = aimed.uiOCEffect \ ChargeEffects
    <2>1. /\ dropped \in HeatState /\ Alike(dropped)
          /\ kept \in HeatState /\ Alike(kept)
      <3> HIDE DEF aimed
      <3> QED BY <1>2 DEF HeatState, OCEffects, ChargeEffects
    <2>2. aimless \in HeatState /\ Same(dropped, aimless)
      <3> HIDE DEF dropped
      <3> QED BY <2>1 DEF HeatState, Same
    <2>3. flagged = IF release THEN aimless ELSE kept
      <3> HIDE DEF aimed, release
      <3> QED OBVIOUS
    <2> HIDE DEF flagged, dropped, kept, aimless, aimed, release
    <2> QED BY <2>1, <2>2, <2>3 DEF Same
  <1>4. /\ new.iCanOverheat = flagged.iCanOverheat
        /\ new.uiOCEffect = flagged.uiOCEffect
        /\ new.fHeatVal = flagged.fHeatVal \/ new.fHeatVal <= CHARGE_CAP
    <2>1. Charge(flagged, ft).iCanOverheat = flagged.iCanOverheat
      <3> HIDE DEF flagged
      <3> QED BY <1>3 DEF Charge, HeatState
    <2> HIDE DEF flagged
    <2> QED BY <1>3, <2>1, ChargeType
  <1>5. UpdateChargeDelay(f, ft).st = IF "ChargeDelay" \notin config.effects THEN f.st ELSE new
    <2>1. UpdateChargeDelay(f, ft) =
            IF "ChargeDelay" \notin config.effects THEN f
            ELSE [st |-> new, key |-> IF fires THEN PressedKey ELSE f.key,
                  fireOnce |-> once \/ fires]
      BY DEF UpdateChargeDelay
    <2> HIDE DEF new, fires, once
    <2> QED BY <2>1
  <1>6. f.st.fHeatVal \in Nat
    BY DEF Frames, HeatState
  <1>7. QED
    <2> HIDE DEF new, flagged, aimed, reset
    <2> QED BY <1>1, <1>2, <1>3, <1>4, <1>5, <1>6 DEF Moves, Same

LEMMA PlayerEffectsMoves ==
  ASSUME TypeOK, NEW f \in Frames, NEW ft \in FrameTimes
  PROVE  Moves(f.st, PlayerEffects(f, ft).st)
  <1> DEFINE ready   == [f EXCEPT !.st.iCanOverheat = IF @ = 1 THEN 2 ELSE @]
             dropped == [f EXCEPT !.st.uiOCEffect =
                           @ \ {"Overcharge", "AltProjectile", "ChargeDelay"}]
             shot    == UpdateOverchargeShot(ready, ft)
  <1>1. f.st \in HeatState
    BY DEF Frames
  <1>2. CASE ~IsPlayer \/ (f.st.bIsActive /\ menu = "none" /\ IsOverheating(f.st))
    <2>1. PlayerEffects(f, ft) = f
      BY <1>2 DEF PlayerEffects
    <2> QED BY <1>1, <2>1, MovesReflexive
  <1>3. CASE IsPlayer /\ ~(f.st.bIsActive /\ menu = "none")
    <2>1. PlayerEffects(f, ft) = dropped
      BY <1>3 DEF PlayerEffects
    <2>2. /\ dropped.st.iCanOverheat = f.st.iCanOverheat
          /\ dropped.st.uiOCEffect = f.st.uiOCEffect \ ChargeEffects
          /\ dropped.st.fHeatVal = f.st.fHeatVal
      BY <1>1 DEF Frames, HeatState, ChargeEffects
    <2>3. f.st.fHeatVal \in Nat
      BY <1>1 DEF HeatState
    <2> HIDE DEF dropped
    <2> QED BY <2>1, <2>2, <2>3 DEF Moves
  <1>4. CASE IsPlayer /\ f.st.bIsActive /\ menu = "none" /\ ~IsOverheating(f.st)
    <2>1. PlayerEffects(f, ft) = UpdateChargeDelay(shot, ft)
      BY <1>4 DEF PlayerEffects
    <2>2. ready \in Frames /\ Moves(f.st, ready.st) /\ ~IsOverheating(ready.st)
      BY <1>1, <1>4 DEF Frames, HeatState, Moves, IsOverheating
    <2>3. shot \in Frames /\ Moves(ready.st, shot.st)
      <3> HIDE DEF ready
      <3> QED BY <2>2, OverchargeShotType, OverchargeShotMoves
    <2>4. ~IsOverheating(shot.st)
      <3> HIDE DEF shot, ready
      <3> QED BY <2>2, <2>3 DEF Moves, IsOverheating, ChargeEffects
    <2>5. /\ UpdateChargeDelay(shot, ft) \in Frames
          /\ Moves(shot.st, UpdateChargeDelay(shot, ft).st)
      <3> HIDE DEF shot
      <3> QED BY <2>3, <2>4, ChargeDelayType, ChargeDelayMoves
    <2>6. f.st \in HeatState /\ ready.st \in HeatState /\ shot.st \in HeatState
          /\ UpdateChargeDelay(shot, ft).st \in HeatState
      <3> HIDE DEF shot, ready
      <3> QED BY <1>1, <2>2, <2>3, <2>5 DEF Frames
    <2>7. Moves(f.st, shot.st)
      <3> HIDE DEF shot, ready
      <3> QED BY <2>2, <2>3, <2>6, MovesTransitive
    <2> HIDE DEF shot, ready
    <2> QED BY <2>1, <2>5, <2>6, <2>7, MovesTransitive
  <1>5. QED
    BY <1>2, <1>3, <1>4 DEF TypeOK

(* Charging leaves its flag: what a charge mechanic adds to the heat of a   *)
(* weapon, it adds under its own effect, and only to an active weapon.      *)
Charges(s, t, effect) ==
  /\ t.bIsActive = s.bIsActive
  /\ \/ t.fHeatVal = s.fHeatVal
     \/ t.fHeatVal <= CHARGE_CAP /\ effect \in t.uiOCEffect

LEMMA OverchargeShotCharges ==
  ASSUME TypeOK, NEW f \in Frames, NEW ft \in FrameTimes
  PROVE  Charges(f.st, UpdateOverchargeShot(f, ft).st, "Overcharge")
  <1> DEFINE reset    == ResetTicks(f.st, f.key)
             released == Depressed(f.key) /\ "Overcharge" \in reset.uiOCEffect
             flagged  == [reset EXCEPT !.uiOCEffect =
                            IF Held(f.key) /\ "Overheat" \notin @ THEN @ \cup {"Overcharge"}
                            ELSE IF released THEN @ \ {"Overcharge"} ELSE @]
             time     == flagged.uiTicksPassed * ft
             charging == MayCharge(flagged, "Overcharge")
             heated   == IF charging /\ time >= COOLDOWN_DELAY THEN Charge(flagged, ft) ELSE flagged
             earned   == charging /\ time >= CHARGE_THRESHOLD /\ heated.fHeatVal >= config.threshold
             new      == [heated EXCEPT !.uiOCEffect =
                            IF earned THEN @ \cup {"AltProjectile"} ELSE @]
  <1>1. /\ reset \in HeatState
        /\ reset.bIsActive = f.st.bIsActive /\ reset.fHeatVal = f.st.fHeatVal
    BY ResetTicksType DEF Frames, ResetTicks, HeatState
  <1>2. /\ flagged \in HeatState
        /\ flagged.bIsActive = reset.bIsActive /\ flagged.fHeatVal = reset.fHeatVal
    <2> HIDE DEF reset, released
    <2> QED BY <1>1 DEF HeatState, OCEffects
  <1>3. heated \in HeatState /\ Charges(flagged, heated, "Overcharge")
    <2>1. Charge(flagged, ft).bIsActive = flagged.bIsActive
      <3> HIDE DEF flagged
      <3> QED BY <1>2 DEF Charge, HeatState
    <2>2. charging => "Overcharge" \in flagged.uiOCEffect
      <3> HIDE DEF flagged
      <3> QED BY DEF MayCharge
    <2> HIDE DEF flagged, charging, time
    <2> QED BY <1>2, <2>1, <2>2, ChargeType DEF Charges
  <1>4. /\ new.bIsActive = heated.bIsActive /\ new.fHeatVal = heated.fHeatVal
        /\ heated.uiOCEffect \subseteq new.uiOCEffect
    <2> HIDE DEF heated, earned
    <2> QED BY <1>3 DEF HeatState
  <1>5. UpdateOverchargeShot(f, ft).st = IF "Overcharge" \notin config.effects THEN f.st ELSE new
    <2>1. UpdateOverchargeShot(f, ft) =
            IF "Overcharge" \notin config.effects THEN f
            ELSE [st |-> new, key |-> IF released THEN PressedKey ELSE f.key,
                  fireOnce |-> f.fireOnce]
      BY DEF UpdateOverchargeShot
    <2> HIDE DEF new, released
    <2> QED BY <2>1
  <1>6. QED
    <2> HIDE DEF new, heated, flagged, reset
    <2> QED BY <1>1, <1>2, <1>3, <1>4, <1>5 DEF Charges

LEMMA ChargeDelayCharges ==
  ASSUME TypeOK, NEW f \in Frames, NEW ft \in FrameTimes
  PROVE  LET t == UpdateChargeDelay(f, ft).st
         IN  /\ Charges(f.st, t, "ChargeDelay")
             /\ f.st.uiOCEffect \subseteq t.uiOCEffect \cup {"ChargeDelay"}
  <1> DEFINE reset   == ResetTicks(f.st, f.key)
             begins  == Held(f.key) /\ reset.uiTicksPassed = 0
             aimed   == IF begins
                        THEN [reset EXCEPT !.fTargetVal = reset.fHeatVal + config.threshold]
                        ELSE reset
             once    == f.fireOnce /\ ~begins
             release == Depressed(f.key) \/ (Held(f.key) /\ aimed.fHeatVal > aimed.fTargetVal)
             fires   == release /\ ~once /\ ~Depressed(f.key) /\ ~IsAutomatic
             dropped == [aimed EXCEPT !.uiOCEffect = @ \ {"ChargeDelay"}]
             aimless == [dropped EXCEPT !.fTargetVal = -1]
             kept    == [aimed EXCEPT !.uiOCEffect =
                           IF Held(f.key) THEN @ \cup {"ChargeDelay"} ELSE @]
             flagged == IF release
                        THEN [aimed EXCEPT !.uiOCEffect = @ \ {"ChargeDelay"}, !.fTargetVal = -1]
                        ELSE [aimed EXCEPT !.uiOCEffect =
                                IF Held(f.key) THEN @ \cup {"ChargeDelay"} ELSE @]
             new     == IF MayCharge(flagged, "ChargeDelay") THEN Charge(flagged, ft) ELSE flagged
             Alike(s, t) == t.bIsActive = s.bIsActive /\ t.fHeatVal = s.fHeatVal
  <1>1. reset \in HeatState /\ Alike(f.st, reset) /\ reset.uiOCEffect = f.st.uiOCEffect
    BY ResetTicksType DEF Frames, ResetTicks, HeatState
  <1>2. aimed \in HeatState /\ Alike(reset, aimed) /\ aimed.uiOCEffect = reset.uiOCEffect
    <2>1. reset.fHeatVal + config.threshold \in Int
      <3> HIDE DEF reset
      <3> QED BY <1>1 DEF HeatState, TypeOK, HeatConfiguration
    <2> HIDE DEF reset, begins
    <2> QED BY <1>1, <2>1 DEF HeatState
  <1>3. /\ flagged \in HeatState /\ Alike(aimed, flagged)
        /\ aimed.uiOCEffect \subseteq flagged.uiOCEffect \cup {"ChargeDelay"}
    <2>1. /\ dropped \in HeatState /\ Alike(aimed, dropped)
          /\ dropped.uiOCEffect = aimed.uiOCEffect \ {"ChargeDelay"}
          /\ kept \in HeatState /\ Alike(aimed, kept)
          /\ aimed.uiOCEffect \subseteq kept.uiOCEffect
      <3> HIDE DEF aimed
      <3> QED BY <1>2 DEF HeatState, OCEffects
    <2>2. /\ aimless \in HeatState /\ Alike(dropped, aimless)
          /\ aimless.uiOCEffect = dropped.uiOCEffect
      <3> HIDE DEF dropped
      <3> QED BY <2>1 DEF HeatState
    <2>3. flagged = IF release THEN aimless ELSE kept
      <3> HIDE DEF aimed, release
      <3> QED OBVIOUS
    <2> HIDE DEF flagged, dropped, kept, aimless, aimed, release
    <2> QED BY <2>1, <2>2, <2>3
  <1>4. Charges(flagged, new, "ChargeDelay") /\ new.uiOCEffect = flagged.uiOCEffect
    <2>1. Charge(flagged, ft).bIsActive = flagged.bIsActive
      <3> HIDE DEF flagged
      <3> QED BY <1>3 DEF Charge, HeatState
    <2>2. MayCharge(flagged, "ChargeDelay") => "ChargeDelay" \in flagged.uiOCEffect
      <3> HIDE DEF flagged
      <3> QED BY DEF MayCharge
    <2> HIDE DEF flagged
    <2> QED BY <1>3, <2>1, <2>2, ChargeType DEF Charges
  <1>5. UpdateChargeDelay(f, ft).st = IF "ChargeDelay" \notin config.effects THEN f.st ELSE new
    <2>1. UpdateChargeDelay(f, ft) =
            IF "ChargeDelay" \notin config.effects THEN f
            ELSE [st |-> new, key |-> IF fires THEN PressedKey ELSE f.key,
                  fireOnce |-> once \/ fires]
      BY DEF UpdateChargeDelay
    <2> HIDE DEF new, fires, once
    <2> QED BY <2>1
  <1>6. QED
    <2> HIDE DEF new, flagged, aimed, reset
    <2> QED BY <1>1, <1>2, <1>3, <1>4, <1>5 DEF Charges

(* Heat that rises in a frame rises under a charge flag, and an inactive    *)
(* weapon keeps its heat.                                                   *)
Flagged(s, t) ==
  /\ t.fHeatVal > s.fHeatVal => t.uiOCEffect \cap STOP_COOLDOWN_FLAGS # {}
  /\ ~t.bIsActive => t.fHeatVal = s.fHeatVal

LEMMA PlayerEffectsFlagged ==
  ASSUME TypeOK, NEW f \in Frames, NEW ft \in FrameTimes
  PROVE  Flagged(f.st, PlayerEffects(f, ft).st)
  <1> DEFINE ready   == [f EXCEPT !.st.iCanOverheat = IF @ = 1 THEN 2 ELSE @]
             dropped == [f EXCEPT !.st.uiOCEffect =
                           @ \ {"Overcharge", "AltProjectile", "ChargeDelay"}]
             shot    == UpdateOverchargeShot(ready, ft)
             last    == UpdateChargeDelay(shot, ft)
  <1>1. f.st \in HeatState /\ f.st.fHeatVal \in Nat
    BY DEF Frames, HeatState
  <1>2. CASE ~IsPlayer \/ (f.st.bIsActive /\ menu = "none" /\ IsOverheating(f.st))
    <2>1. PlayerEffects(f, ft) = f
      BY <1>2 DEF PlayerEffects
    <2> QED BY <1>1, <2>1 DEF Flagged
  <1>3. CASE IsPlayer /\ ~(f.st.bIsActive /\ menu = "none")
    <2>1. PlayerEffects(f, ft) = dropped
      BY <1>3 DEF PlayerEffects
    <2>2. dropped.st.fHeatVal = f.st.fHeatVal
      BY <1>1 DEF Frames, HeatState
    <2> HIDE DEF dropped
    <2> QED BY <1>1, <2>1, <2>2 DEF Flagged
  <1>4. CASE IsPlayer /\ f.st.bIsActive /\ menu = "none" /\ ~IsOverheating(f.st)
    <2>1. PlayerEffects(f, ft) = last
      BY <1>4 DEF PlayerEffects
    <2>2. /\ ready \in Frames
          /\ ready.st.bIsActive /\ ready.st.fHeatVal = f.st.fHeatVal
      BY <1>1, <1>4 DEF Frames, HeatState
    <2>3. shot \in Frames /\ Charges(ready.st, shot.st, "Overcharge")
      <3> HIDE DEF ready
      <3> QED BY <2>2, OverchargeShotType, OverchargeShotCharges
    <2>4. /\ last \in Frames /\ Charges(shot.st, last.st, "ChargeDelay")
          /\ shot.st.uiOCEffect \subseteq last.st.uiOCEffect \cup {"ChargeDelay"}
      <3> HIDE DEF shot
      <3> QED BY <2>3, ChargeDelayType, ChargeDelayCharges
    <2>5. last.st.bIsActive
      <3> HIDE DEF last, shot, ready
      <3> QED BY <2>2, <2>3, <2>4 DEF Charges
    <2>6. ASSUME last.st.fHeatVal > f.st.fHeatVal
          PROVE  "ChargeDelay" \in last.st.uiOCEffect \/ "Overcharge" \in last.st.uiOCEffect
      <3> HIDE DEF last, shot, ready
      <3> QED BY <1>1, <2>2, <2>3, <2>4, <2>6 DEF Charges
    <2> HIDE DEF last, shot, ready
    <2> QED BY <2>1, <2>5, <2>6 DEF Flagged, STOP_COOLDOWN_FLAGS
  <1>5. QED
    BY <1>2, <1>3, <1>4 DEF TypeOK

(* Cooling.                                                                 *)
LEMMA CoolDownCools ==
  ASSUME NEW s \in HeatState, NEW time \in Nat, NEW ft \in FrameTimes
  PROVE  LET t == CoolDown(s, time, ft)
         IN  /\ t.fHeatVal <= s.fHeatVal /\ t.uiOCEffect = s.uiOCEffect
             /\ t.iCanOverheat = s.iCanOverheat
  <1>1. s.fHeatVal \in Nat /\ ft * s.fCooldownRate \in Nat
    BY NatTimes DEF HeatState
  <1>2. Greater(0, s.fHeatVal - ft * s.fCooldownRate) <= s.fHeatVal
    BY <1>1 DEF Greater
  <1>3. CoolDown(s, time, ft).fHeatVal <= s.fHeatVal
    BY <1>1, <1>2 DEF CoolDown, HeatState
  <1>4. /\ CoolDown(s, time, ft).iCanOverheat = s.iCanOverheat
        /\ CoolDown(s, time, ft).uiOCEffect = s.uiOCEffect
    BY DEF CoolDown, HeatState
  <1>5. QED
    BY <1>3, <1>4

LEMMA CoolDownMoves ==
  ASSUME NEW s \in HeatState, NEW time \in Nat, NEW ft \in FrameTimes
  PROVE  Moves(s, CoolDown(s, time, ft))
  BY CoolDownCools DEF Moves

(* A frame takes the old state, perhaps through UpdateOverheat, to t.  From *)
(* there it moves on, or the weapon is erased, cold.                        *)
MovesFrom(t) ==
  \/ st' = NewState(config) /\ ~present' /\ t.fHeatVal = 0
  \/ /\ Moves(t, st') /\ present'
     /\ st'.fHeatVal > t.fHeatVal => st'.uiOCEffect \cap STOP_COOLDOWN_FLAGS # {}

LEMMA FrameMoves ==
  ASSUME TypeOK, NEW k \in KeyState, NEW ft \in FrameTimes, NEW has3D \in BOOLEAN,
         UpdateActiveWeapons(k, ft, has3D)
  PROVE  \E s \in HeatState : Same(st, s) /\ (MovesFrom(s) \/ MovesFrom(UpdateOverheat(s)))
  <1> DEFINE awake  == Activation(st, has3D)
             time   == awake.uiTicksPassed * ft
             heated == IF "Overheat" \in config.effects THEN UpdateOverheat(awake) ELSE awake
             frame  == PlayerEffects([st |-> Tick(heated), key |-> k, fireOnce |-> fireOnce], ft)
             erased == ~frame.st.bIsActive /\ frame.st.fHeatVal = 0 /\ time >= ERASE_DELAY
  <1>1. awake \in HeatState
    BY ActivationType
  <1>2. Same(st, awake)
    BY DEF Activation, InitializeHeatData, Same, TypeOK, HeatState
  <1>3. time \in Nat
    <2> HIDE DEF awake
    <2>1. awake.uiTicksPassed \in Nat
      BY <1>1 DEF HeatState
    <2> QED BY <2>1, NatTimes
  <1>4. heated \in HeatState
    <2> HIDE DEF awake
    <2> QED BY <1>1, UpdateOverheatType
  <1>5. Tick(heated) \in HeatState /\ Moves(heated, Tick(heated))
    <2> HIDE DEF heated
    <2>1. Tick(heated) \in HeatState
      BY <1>4, TickType
    <2>2. Same(heated, Tick(heated))
      BY <1>4 DEF Tick, Same, HeatState
    <2>3. heated.fHeatVal \in Nat
      BY <1>4 DEF HeatState
    <2> QED BY <2>1, <2>2, <2>3 DEF Same, Moves
  <1>6. /\ frame.st \in HeatState /\ Moves(Tick(heated), frame.st)
        /\ Flagged(Tick(heated), frame.st)
    <2> HIDE DEF heated
    <2>1. [st |-> Tick(heated), key |-> k, fireOnce |-> fireOnce] \in Frames
      BY <1>5 DEF Frames, TypeOK
    <2>2. frame \in Frames
      BY <2>1, PlayerEffectsType
    <2>3. Moves(Tick(heated), frame.st) /\ Flagged(Tick(heated), frame.st)
      BY <2>1, PlayerEffectsMoves, PlayerEffectsFlagged
    <2> HIDE DEF frame
    <2> QED BY <2>2, <2>3 DEF Frames
  <1>7. /\ st' = IF erased THEN NewState(config) ELSE CoolDown(frame.st, time, ft)
        /\ present' = ~erased
    BY DEF UpdateActiveWeapons
  <1>a. Tick(heated).fHeatVal = heated.fHeatVal
    <2> HIDE DEF heated
    <2> QED BY <1>4 DEF Tick, HeatState
  <1>b. heated = awake \/ heated = UpdateOverheat(awake)
    OBVIOUS
  <1>8. CASE erased
    <2>1. heated.fHeatVal = 0
      <3> HIDE DEF heated, frame
      <3> QED BY <1>6, <1>8, <1>a DEF Flagged
    <2>2. MovesFrom(heated)
      <3> HIDE DEF heated, frame, time
      <3> QED BY <1>7, <1>8, <2>1 DEF MovesFrom
    <2> HIDE DEF heated, awake
    <2> QED BY <1>1, <1>2, <1>b, <2>2
  <1>9. CASE ~erased
    <2> DEFINE cold == CoolDown(frame.st, time, ft)
    <2>1. st' = cold /\ present'
      BY <1>7, <1>9
    <2>2. cold \in HeatState /\ Moves(frame.st, cold)
      <3> HIDE DEF frame, time
      <3> QED BY <1>3, <1>6, CoolDownType, CoolDownMoves
    <2>3. Moves(heated, frame.st)
      <3> HIDE DEF heated, frame
      <3> QED BY <1>4, <1>5, <1>6, MovesTransitive
    <2>4. Moves(heated, cold)
      <3> HIDE DEF heated, frame, cold
      <3> QED BY <1>4, <1>6, <2>2, <2>3, MovesTransitive
    <2>5. cold.uiOCEffect = frame.st.uiOCEffect /\ cold.fHeatVal <= frame.st.fHeatVal
      <3> HIDE DEF frame, time
      <3> QED BY <1>3, <1>6, CoolDownCools
    <2>6. ASSUME cold.fHeatVal > heated.fHeatVal
          PROVE  cold.uiOCEffect \cap STOP_COOLDOWN_FLAGS # {}
      <3>1. heated.fHeatVal \in Nat /\ cold.fHeatVal \in Nat /\ frame.st.fHeatVal \in Nat
        <4> HIDE DEF heated, frame, cold
        <4> QED BY <1>4, <1>6, <2>2 DEF HeatState
      <3>2. frame.st.fHeatVal > heated.fHeatVal
        <4> HIDE DEF heated, frame, cold
        <4> QED BY <2>5, <2>6, <3>1
      <3> HIDE DEF heated, frame, cold
      <3> QED BY <1>6, <1>a, <2>5, <3>2 DEF Flagged
    <2>7. MovesFrom(heated)
      <3> HIDE DEF heated, frame, cold
      <3> QED BY <2>1, <2>4, <2>6 DEF MovesFrom
    <2> HIDE DEF heated, awake
    <2> QED BY <1>1, <1>2, <1>b, <2>7
  <1>10. QED
    BY <1>8, <1>9

(* Looking up the heat of the weapon leaves what the invariants read as it  *)
(* was, or gives a new state.                                               *)
LEMMA HeatOfSame ==
  ASSUME TypeOK
  PROVE  Same(st, HeatOf.st) \/ (~present /\ \E c \in Configs : HeatOf.st = NewState(c))
  <1>1. Same(st, st) /\ Same(st, InitializeHeatData(st, ammo))
    BY DEF InitializeHeatData, Same, TypeOK, HeatState
  <1>2. HeatOf.st \in {st, InitializeHeatData(st, ammo)}
          \/ (~present /\ ammo \in Configs /\ HeatOf.st = NewState(ammo))
    BY DEF HeatOf, TypeOK
  <1>3. QED
    BY <1>1, <1>2

(* Every step is an update, gives a new state, or is a shot.                *)
LEMMA StepCases ==
  ASSUME TypeOK, [Next]_vars
  PROVE  \/ \E s \in HeatState :
              /\ Same(st, s)
              /\ Moves(s, st') \/ Moves(UpdateOverheat(s), st')
         \/ \E c \in Configs : st' = NewState(c)
         \/ ShotStep
  <1> DEFINE Update == \E s \in HeatState :
                         Same(st, s) /\ (Moves(s, st') \/ Moves(UpdateOverheat(s), st'))
             New    == \E c \in Configs : st' = NewState(c)
  <1>1. st \in HeatState /\ config \in Configs
    BY DEF TypeOK
  <1>2. st' \in HeatState
    BY TypeStep DEF TypeOK
  <1>3. ASSUME Same(st, st') PROVE Update
    BY <1>2, <1>3, MovesReflexive
  <1>4. Same(st, st)
    BY DEF Same
  <1>5. CASE FrameStep
    <2> PICK down \in BOOLEAN, ft \in FrameTimes, has3D \in BOOLEAN : Frame(down, ft, has3D)
      BY <1>5 DEF FrameStep
    <2> DEFINE k == [cur |-> down, last |-> key.cur]
    <2>1. CASE present /\ menu # "paused"
      <3>1. UpdateActiveWeapons(k, ft, has3D)
        BY <2>1 DEF Frame
      <3>2. k \in KeyState
        BY DEF TypeOK, KeyState
      <3>3. PICK s \in HeatState : Same(st, s) /\ (MovesFrom(s) \/ MovesFrom(UpdateOverheat(s)))
        <4> HIDE DEF k
        <4> QED BY <3>1, <3>2, FrameMoves
      <3> QED BY <1>1, <3>3 DEF MovesFrom
    <2>2. CASE ~(present /\ menu # "paused")
      <3>1. st' = st
        BY <2>2 DEF Frame, instance
      <3> HIDE DEF Update
      <3> QED BY <1>3, <1>4, <3>1 DEF Update
    <2> QED BY <2>1, <2>2
  <1>6. CASE ActorUpdate
    <2>1. st' = HeatOf.st
      BY <1>6 DEF ActorUpdate
    <2> HIDE DEF Update
    <2> QED BY <1>3, <2>1, HeatOfSame DEF Update
  <1>7. CASE PostLoadGame
    BY <1>1, <1>7 DEF PostLoadGame
  <1>8. CASE \/ PlayFireAnimation \/ Unequip \/ Equip \/ Die \/ UNCHANGED vars
             \/ \E m \in Menus : SetMenu(m)
             \/ \E a \in Ammo : SwapAmmo(a)
    <2>1. st' = st
      BY <1>8 DEF PlayFireAnimation, SetMenu, Unequip, Equip, SwapAmmo, Die, vars, instance
    <2> HIDE DEF Update
    <2> QED BY <1>3, <1>4, <2>1 DEF Update
  <1>9. QED
    <2> HIDE DEF Update, New
    <2> QED BY <1>5, <1>6, <1>7, <1>8 DEF Next, Update, New

(* What a shot may do to the effects and to iCanOverheat.                   *)
LEMMA PerksEffects ==
  ASSUME NEW s \in HeatState, NEW bends \in BOOLEAN
  PROVE  LET p == UpdatePerks(s, bends)
         IN  /\ p.uiOCEffect \ {"SelfDamage"} = s.uiOCEffect \ {"SelfDamage"}
             /\ p.iCanOverheat \in {0, s.iCanOverheat}
             /\ "CriticalMass" \notin Perks => p.iCanOverheat = s.iCanOverheat
             /\ "CriticalMass" \in Perks /\ "CoolantLeak" \notin Perks =>
                  /\ IsHot(p) => "SelfDamage" \in p.uiOCEffect
                  /\ "SelfDamage" \in p.uiOCEffect =>
                       "SelfDamage" \in s.uiOCEffect \/ p.iCanOverheat = 0
  <1> DEFINE bent     == IF "CircuitBender" \in Perks /\ "AltProjectile" \in s.uiOCEffect /\ bends
                         THEN [s EXCEPT !.fHeatVal = Greater(0, @ - s.fHeatPerShot)] ELSE s
             cleared  == [bent EXCEPT !.uiOCEffect = @ \ {"SelfDamage"}]
             marked   == [bent EXCEPT !.uiOCEffect = @ \cup {"SelfDamage"}]
             disabled == [marked EXCEPT !.iCanOverheat = 0]
             critical == IF "CriticalMass" \notin Perks THEN bent
                         ELSE IF ~IsHot(bent) THEN cleared
                         ELSE IF "SelfDamage" \in bent.uiOCEffect THEN bent
                         ELSE disabled
             leaking  == [critical EXCEPT !.fHeatVal = HOT_THRESHOLD]
             p        == UpdatePerks(s, bends)
  <1>1. /\ bent \in HeatState
        /\ bent.uiOCEffect = s.uiOCEffect /\ bent.iCanOverheat = s.iCanOverheat
    <2>1. s.fHeatVal - s.fHeatPerShot \in Int
      BY DEF HeatState
    <2> QED BY <2>1, GreaterNat DEF HeatState
  <1>2. /\ cleared \in HeatState
        /\ cleared.uiOCEffect = bent.uiOCEffect \ {"SelfDamage"}
        /\ cleared.iCanOverheat = bent.iCanOverheat /\ cleared.fHeatVal = bent.fHeatVal
        /\ marked \in HeatState
        /\ marked.uiOCEffect = bent.uiOCEffect \cup {"SelfDamage"}
        /\ marked.fHeatVal = bent.fHeatVal
    <2> HIDE DEF bent
    <2> QED BY <1>1 DEF HeatState, OCEffects
  <1>3. /\ disabled \in HeatState
        /\ disabled.uiOCEffect = marked.uiOCEffect /\ disabled.iCanOverheat = 0
        /\ disabled.fHeatVal = marked.fHeatVal
    <2> HIDE DEF marked
    <2> QED BY <1>2 DEF HeatState
  <1>4. /\ critical \in HeatState
        /\ critical.uiOCEffect \ {"SelfDamage"} = s.uiOCEffect \ {"SelfDamage"}
        /\ critical.iCanOverheat \in {0, s.iCanOverheat}
        /\ "CriticalMass" \notin Perks => critical.iCanOverheat = s.iCanOverheat
        /\ "CriticalMass" \in Perks =>
             /\ IsHot(critical) => "SelfDamage" \in critical.uiOCEffect
             /\ "SelfDamage" \in critical.uiOCEffect =>
                  "SelfDamage" \in s.uiOCEffect \/ critical.iCanOverheat = 0
    <2> HIDE DEF bent, cleared, marked, disabled
    <2> QED BY <1>1, <1>2, <1>3 DEF IsHot
  <1>5. /\ leaking.uiOCEffect = critical.uiOCEffect
        /\ leaking.iCanOverheat = critical.iCanOverheat
    <2> HIDE DEF critical
    <2> QED BY <1>4 DEF HeatState
  <1>6. /\ p \in {critical, leaking}
        /\ "CoolantLeak" \notin Perks => p = critical
    <2>1. p = IF "CoolantLeak" \in Perks /\ 10 * critical.fHeatVal >= 7 * HOT_THRESHOLD
              THEN leaking ELSE critical
      <3> HIDE DEF bent
      <3>1. UpdatePerks(s, bends) =
              IF "CoolantLeak" \in Perks /\ 10 * critical.fHeatVal >= 7 * HOT_THRESHOLD
              THEN leaking ELSE critical
        BY DEF UpdatePerks, bent
      <3> HIDE DEF critical, leaking
      <3> QED BY <3>1
    <2> HIDE DEF critical, leaking, p
    <2> QED BY <2>1
  <1>7. QED
    <2> HIDE DEF critical, leaking, p
    <2>1. /\ p.uiOCEffect \ {"SelfDamage"} = s.uiOCEffect \ {"SelfDamage"}
          /\ p.iCanOverheat \in {0, s.iCanOverheat}
          /\ "CriticalMass" \notin Perks => p.iCanOverheat = s.iCanOverheat
      BY <1>4, <1>5, <1>6
    <2>2. ASSUME "CriticalMass" \in Perks, "CoolantLeak" \notin Perks
          PROVE  /\ IsHot(p) => "SelfDamage" \in p.uiOCEffect
                 /\ "SelfDamage" \in p.uiOCEffect =>
                      "SelfDamage" \in s.uiOCEffect \/ p.iCanOverheat = 0
      BY <1>4, <1>6, <2>2
    <2>3. QED BY <2>1, <2>2 DEF p

LEMMA ShotEffects ==
  ASSUME TypeOK, ShotStep
  PROVE  \E s \in HeatState :
           /\ Same(st, s) \/ (~present /\ \E c \in Configs : s = NewState(c))
           /\ "CriticalMass" \notin Perks => st'.iCanOverheat \in {s.iCanOverheat, 1}
           /\ st'.uiOCEffect \ {"SelfDamage", "AltProjectile"}
                = s.uiOCEffect \ {"SelfDamage", "AltProjectile"}
           /\ "AltProjectile" \in st'.uiOCEffect => "AltProjectile" \in s.uiOCEffect
           /\ "CriticalMass" \in Perks /\ "CoolantLeak" \notin Perks =>
                \/ /\ st'.uiOCEffect \cap {"SelfDamage"} = s.uiOCEffect \cap {"SelfDamage"}
                   /\ st'.iCanOverheat = s.iCanOverheat /\ st'.fHeatVal = s.fHeatVal
                \/ /\ st'.iCanOverheat \in {0, s.iCanOverheat}
                   /\ IsHot(st') => "SelfDamage" \in st'.uiOCEffect
                   /\ "SelfDamage" \in st'.uiOCEffect =>
                        "SelfDamage" \in s.uiOCEffect \/ st'.iCanOverheat = 0
  <1> PICK bends \in BOOLEAN, lastRound \in BOOLEAN : FireShot(bends, lastRound)
    BY DEF ShotStep
  <1> DEFINE shot     == HeatOnFire(HeatOf.st)
             perked   == UpdatePerks(shot, bends)
             launched == [perked EXCEPT !.uiOCEffect = @ \ {"AltProjectile"}]
             emptied  == [launched EXCEPT !.iCanOverheat = 1]
             missing  == [st EXCEPT !.uiOCEffect = IF present THEN @ \ {"AltProjectile"} ELSE @]
  <1>1. st' = IF ammo = NoConfig THEN missing
              ELSE IF lastRound /\ IsPlayer /\ "CriticalMass" \notin Perks
              THEN emptied ELSE launched
    BY DEF FireShot
  <1>2. CASE ammo = NoConfig
    <2>1. st' = missing
      <3> HIDE DEF missing, launched, emptied
      <3> QED BY <1>1, <1>2
    <2>2. st \in HeatState /\ Same(st, st)
      BY DEF TypeOK, Same
    <2>3. /\ missing.uiOCEffect \in {st.uiOCEffect, st.uiOCEffect \ {"AltProjectile"}}
          /\ missing.iCanOverheat = st.iCanOverheat /\ missing.fHeatVal = st.fHeatVal
      BY <2>2 DEF HeatState
    <2> HIDE DEF missing
    <2> QED BY <2>1, <2>2, <2>3
  <1>3. CASE ammo # NoConfig
    <2> DEFINE s == HeatOf.st
    <2>1. /\ s \in HeatState
          /\ Same(st, s) \/ (~present /\ \E c \in Configs : s = NewState(c))
      BY HeatOfType, HeatOfSame
    <2>2. shot \in HeatState /\ shot.uiOCEffect = s.uiOCEffect /\ shot.iCanOverheat = s.iCanOverheat
      <3> HIDE DEF s
      <3> QED BY <2>1, HeatOnFireType DEF HeatOnFire, HeatState, s
    <2>3. perked \in HeatState
      <3> HIDE DEF shot
      <3> QED BY <2>2, UpdatePerksType
    <2>4. /\ launched \in HeatState
          /\ launched.uiOCEffect = perked.uiOCEffect \ {"AltProjectile"}
          /\ launched.iCanOverheat = perked.iCanOverheat /\ launched.fHeatVal = perked.fHeatVal
      <3> HIDE DEF perked
      <3> QED BY <2>3 DEF HeatState
    <2>5. emptied.uiOCEffect = launched.uiOCEffect /\ emptied.iCanOverheat = 1
      <3> HIDE DEF launched
      <3> QED BY <2>4 DEF HeatState
    <2>6. /\ perked.uiOCEffect \ {"SelfDamage"} = shot.uiOCEffect \ {"SelfDamage"}
          /\ perked.iCanOverheat \in {0, shot.iCanOverheat}
          /\ "CriticalMass" \notin Perks => perked.iCanOverheat = shot.iCanOverheat
          /\ "CriticalMass" \in Perks /\ "CoolantLeak" \notin Perks =>
               /\ IsHot(perked) => "SelfDamage" \in perked.uiOCEffect
               /\ "SelfDamage" \in perked.uiOCEffect =>
                    "SelfDamage" \in shot.uiOCEffect \/ perked.iCanOverheat = 0
      <3> HIDE DEF shot
      <3> QED BY <2>2, PerksEffects
    <2> HIDE DEF emptied, launched, perked, shot, s
    <2>7. /\ st'.uiOCEffect = launched.uiOCEffect
          /\ "CriticalMass" \in Perks => st' = launched
      BY <1>1, <1>3, <2>5
    <2>8. ASSUME "CriticalMass" \in Perks, "CoolantLeak" \notin Perks
          PROVE  /\ st'.iCanOverheat \in {0, s.iCanOverheat}
                 /\ IsHot(st') => "SelfDamage" \in st'.uiOCEffect
                 /\ "SelfDamage" \in st'.uiOCEffect =>
                      "SelfDamage" \in s.uiOCEffect \/ st'.iCanOverheat = 0
      BY <2>2, <2>4, <2>6, <2>7, <2>8 DEF IsHot
    <2>9. /\ st'.uiOCEffect \ {"SelfDamage", "AltProjectile"}
               = s.uiOCEffect \ {"SelfDamage", "AltProjectile"}
          /\ "AltProjectile" \in st'.uiOCEffect => "AltProjectile" \in s.uiOCEffect
      BY <2>2, <2>4, <2>6, <2>7
    <2>10. "CriticalMass" \notin Perks => st'.iCanOverheat \in {s.iCanOverheat, 1}
      BY <1>1, <1>3, <2>2, <2>4, <2>5, <2>6
    <2>11. QED
      BY <2>1, <2>8, <2>9, <2>10
  <1>4. QED
    BY <1>2, <1>3

-----------------------------------------------------------------------------
(* The theorems.                                                            *)

Cleared(s) == IsOverheating(s) => s.uiOCEffect \cap ChargeEffects = {}

LEMMA LockoutClearsStep ==
  TypeOK /\ LockoutClearsCharge /\ [Next]_vars => LockoutClearsCharge'
  <1> SUFFICES ASSUME TypeOK, LockoutClearsCharge, [Next]_vars PROVE Cleared(st')
    BY DEF LockoutClearsCharge, Cleared, ChargeEffects, IsOverheating
  <1>1. Cleared(st)
    BY DEF LockoutClearsCharge, Cleared, ChargeEffects
  <1>2. \A c \in Configs : Cleared(NewState(c))
    BY DEF Cleared, NewState, IsOverheating
  <1>3. ASSUME NEW s, Same(st, s) PROVE Cleared(s)
    BY <1>1, <1>3 DEF Same, Cleared, IsOverheating
  <1>4. ASSUME NEW s \in HeatState, Cleared(s) PROVE Cleared(UpdateOverheat(s))
    <2>1. UpdateOverheat(s).uiOCEffect
            \in {s.uiOCEffect, {"Overheat"}, s.uiOCEffect \ {"Overheat"}}
      BY DEF UpdateOverheat, HeatState
    <2> QED BY <1>4, <2>1 DEF Cleared, IsOverheating, ChargeEffects
  <1>5. ASSUME NEW s, Cleared(s), Moves(s, st') PROVE Cleared(st')
    BY <1>5 DEF Cleared, Moves, IsOverheating, ChargeEffects
  <1>6. CASE \E s \in HeatState :
               Same(st, s) /\ (Moves(s, st') \/ Moves(UpdateOverheat(s), st'))
    BY <1>3, <1>4, <1>5, <1>6
  <1>7. CASE \E c \in Configs : st' = NewState(c)
    BY <1>2, <1>7
  <1>8. CASE ShotStep
    <2> PICK s \in HeatState :
          /\ Same(st, s) \/ \E c \in Configs : s = NewState(c)
          /\ st'.uiOCEffect \ {"SelfDamage", "AltProjectile"}
               = s.uiOCEffect \ {"SelfDamage", "AltProjectile"}
          /\ "AltProjectile" \in st'.uiOCEffect => "AltProjectile" \in s.uiOCEffect
      BY <1>8, ShotEffects
    <2>1. Cleared(s)
      BY <1>2, <1>3
    <2> QED BY <2>1 DEF Cleared, IsOverheating, ChargeEffects
  <1>9. QED
    BY <1>6, <1>7, <1>8, StepCases

(* An overheated weapon has lost its charge, in every reachable state:      *)
(* UpdateOverheat replaces the effects, MayCharge and UpdateActiveWeapons   *)
(* keep the charge mechanics away until Overheat is gone, and a shot adds   *)
(* no charge effect.                                                        *)
THEOREM LockoutClears == Spec => []LockoutClearsCharge
  <1>1. Init => LockoutClearsCharge
    BY DEF Init, LockoutClearsCharge, NewState, IsOverheating
  <1>2. QED
    BY <1>1, LockoutClearsStep, TypeCorrect, PTL DEF Spec

(* Charging never heats a weapon past the threshold, in any step of any     *)
(* behaviour: only a shot makes a weapon hot, because the charge cap is     *)
(* below the threshold and everything else only cools.                      *)
THEOREM OnlyShots == Spec => OnlyShotsOverheat
  <1> DEFINE Cold == ~IsHot(st) /\ IsHot(st') => anim = "firing" /\ anim' = "fired"
  <1>1. TypeOK /\ [Next]_vars => Cold
    <2> SUFFICES ASSUME TypeOK, [Next]_vars PROVE Cold
      OBVIOUS
    <2>1. CASE \E s \in HeatState :
                 Same(st, s) /\ (Moves(s, st') \/ Moves(UpdateOverheat(s), st'))
      <3> PICK s \in HeatState :
            Same(st, s) /\ (Moves(s, st') \/ Moves(UpdateOverheat(s), st'))
        BY <2>1
      <3>1. UpdateOverheat(s).fHeatVal = s.fHeatVal
        BY DEF UpdateOverheat, HeatState
      <3>2. st'.fHeatVal \in Nat /\ st.fHeatVal \in Nat
        BY TypeStep DEF TypeOK, HeatState
      <3>3. st'.fHeatVal <= st.fHeatVal \/ st'.fHeatVal <= CHARGE_CAP
        BY <3>1 DEF Same, Moves
      <3> QED BY <3>2, <3>3 DEF IsHot
    <2>2. CASE \E c \in Configs : st' = NewState(c)
      BY <2>2 DEF NewState, IsHot
    <2>3. CASE ShotStep
      BY <2>3 DEF ShotStep, FireShot
    <2>4. QED
      BY <2>1, <2>2, <2>3, StepCases
  <1>2. TypeOK /\ [Next]_vars => [Cold]_vars
    BY <1>1
  <1>3. QED
    BY <1>2, TypeCorrect, PTL DEF Spec, OnlyShotsOverheat, Cold

(* What Critical Mass keeps true of a weapon: heat and self damage come     *)
(* only with overheating disabled.                                          *)
Disabled(s) ==
  /\ ~IsOverheating(s)
  /\ "SelfDamage" \in s.uiOCEffect => s.iCanOverheat = 0
  /\ IsHot(s) => s.iCanOverheat = 0

LEMMA CriticalMassStep ==
  ASSUME "CriticalMass" \in Perks, "CoolantLeak" \notin Perks,
         TypeOK, Disabled(st), [Next]_vars
  PROVE  Disabled(st')
  <1>1. \A c \in Configs : Disabled(NewState(c))
    BY DEF Disabled, NewState, IsOverheating, IsHot
  <1>2. ASSUME NEW s, Same(st, s) PROVE Disabled(s)
    BY <1>2 DEF Same, Disabled, IsOverheating, IsHot
  <1>3. ASSUME NEW s \in HeatState, Disabled(s)
        PROVE  UpdateOverheat(s) \in HeatState /\ Disabled(UpdateOverheat(s))
    <2>1. CASE s.iCanOverheat = 0
      <3>1. UpdateOverheat(s) = [s EXCEPT !.uiOCEffect = @ \ {"Overheat"}]
        BY <2>1 DEF UpdateOverheat
      <3> QED BY <2>1, <3>1, <1>3, UpdateOverheatType DEF Disabled, IsOverheating, IsHot, HeatState
    <2>2. CASE s.iCanOverheat # 0
      <3>1. s.iCanOverheat > 0
        BY <2>2 DEF HeatState
      <3>2. UpdateOverheat(s) = s
        BY <1>3, <2>2, <3>1 DEF UpdateOverheat, Disabled
      <3> QED BY <1>3, <3>2
    <2> QED BY <2>1, <2>2
  <1>4. ASSUME NEW s \in HeatState, Disabled(s), Moves(s, st') PROVE Disabled(st')
    <2>1. st'.fHeatVal \in Nat /\ s.fHeatVal \in Nat
      BY TypeStep DEF TypeOK, HeatState
    <2>2. IsHot(st') => IsHot(s)
      BY <1>4, <2>1 DEF Moves, IsHot
    <2> QED BY <1>4, <2>2 DEF Disabled, Moves, IsOverheating, ChargeEffects
  <1>5. CASE \E s \in HeatState :
               Same(st, s) /\ (Moves(s, st') \/ Moves(UpdateOverheat(s), st'))
    BY <1>2, <1>3, <1>4, <1>5
  <1>6. CASE \E c \in Configs : st' = NewState(c)
    BY <1>1, <1>6
  <1>7. CASE ShotStep
    <2> PICK s \in HeatState :
          /\ Same(st, s) \/ \E c \in Configs : s = NewState(c)
          /\ st'.uiOCEffect \ {"SelfDamage", "AltProjectile"}
               = s.uiOCEffect \ {"SelfDamage", "AltProjectile"}
          /\ \/ /\ st'.uiOCEffect \cap {"SelfDamage"} = s.uiOCEffect \cap {"SelfDamage"}
                /\ st'.iCanOverheat = s.iCanOverheat /\ st'.fHeatVal = s.fHeatVal
             \/ /\ st'.iCanOverheat \in {0, s.iCanOverheat}
                /\ IsHot(st') => "SelfDamage" \in st'.uiOCEffect
                /\ "SelfDamage" \in st'.uiOCEffect =>
                     "SelfDamage" \in s.uiOCEffect \/ st'.iCanOverheat = 0
      BY <1>7, ShotEffects
    <2>1. Disabled(s)
      BY <1>1, <1>2
    <2>2. ~IsOverheating(st')
      BY <2>1 DEF Disabled, IsOverheating
    <2>3. /\ "SelfDamage" \in st'.uiOCEffect => st'.iCanOverheat = 0
          /\ IsHot(st') => st'.iCanOverheat = 0
      BY <2>1 DEF Disabled, IsHot
    <2> QED BY <2>2, <2>3 DEF Disabled
  <1>8. QED
    BY <1>5, <1>6, <1>7, StepCases

(* Without Coolant Leak, whose heat UpdatePerks adds after Critical Mass    *)
(* was decided, a weapon in the hands of an actor with Critical Mass never  *)
(* overheats.                                                               *)
THEOREM CriticalMass ==
  ASSUME "CoolantLeak" \notin Perks
  PROVE  Spec => []CriticalMassNeverOverheats
  <1> DEFINE IInv == "CriticalMass" \in Perks => Disabled(st)
  <1>1. Init => IInv
    BY DEF Init, Disabled, NewState, IsOverheating, IsHot
  <1>2. TypeOK /\ IInv /\ [Next]_vars => IInv'
    BY CriticalMassStep
  <1>3. IInv => CriticalMassNeverOverheats
    BY DEF Disabled, CriticalMassNeverOverheats
  <1> HIDE DEF IInv
  <1>4. QED
    BY <1>1, <1>2, <1>3, TypeCorrect, PTL DEF Spec

(* An attack that PlayFireAnimation refused begins again only with the      *)
(* trigger down: the null animation also emptied the engine's queue, and    *)
(* only a shot that leaves may fill it.                                     *)
THEOREM BlockedIsDropped == Spec => BlockedAttackIsDropped
  <1> DEFINE Empty == anim = "blocked" => ~queued
             Again == anim = "blocked" /\ anim' = "firing" => Held(key)
  <1>1. Init => Empty
    BY DEF Init
  <1>2. Empty /\ [Next]_vars => Empty'
    <2> SUFFICES ASSUME Empty, [Next]_vars PROVE Empty'
      OBVIOUS
    <2>1. CASE FrameStep
      BY <2>1 DEF FrameStep, Frame
    <2>2. CASE ShotStep
      BY <2>2 DEF ShotStep, FireShot
    <2>3. CASE PlayFireAnimation \/ Unequip \/ Die \/ PostLoadGame
      BY <2>3 DEF PlayFireAnimation, Unequip, Die, PostLoadGame
    <2>4. CASE \/ ActorUpdate \/ Equip \/ UNCHANGED vars
               \/ \E m \in Menus : SetMenu(m)
               \/ \E a \in Ammo : SwapAmmo(a)
      BY <2>4 DEF ActorUpdate, SetMenu, Equip, SwapAmmo, vars, engine
    <2>5. QED
      BY <2>1, <2>2, <2>3, <2>4 DEF Next
  <1>3. TypeOK /\ Empty /\ [Next]_vars => Again
    <2> SUFFICES ASSUME TypeOK, Empty, [Next]_vars, anim = "blocked", anim' = "firing"
                 PROVE  Held(key)
      OBVIOUS
    <2>1. PlayFireAnimation
      BY DEF Next, FrameStep, Frame, ShotStep, FireShot, ActorUpdate, SetMenu, Unequip, Equip,
             SwapAmmo, Die, PostLoadGame, vars, engine
    <2>2. WantsAttack /\ ~queued
      BY <2>1 DEF PlayFireAnimation
    <2> QED BY <2>2 DEF WantsAttack, Held, Pressed
  <1>4. TypeOK /\ Empty /\ [Next]_vars => [Again]_vars
    BY <1>3
  <1>5. QED
    BY <1>1, <1>2, <1>4, TypeCorrect, PTL DEF Spec, BlockedAttackIsDropped, Again

-----------------------------------------------------------------------------
(* The trigger.                                                             *)

(* A weapon without a HeatData is cold and bare.                            *)
Bare == ~present => st.uiOCEffect = {} /\ st.fHeatVal = 0

LEMMA BareStep ==
  ASSUME TypeOK, Bare, [Next]_vars
  PROVE  Bare'
  <1>1. CASE FrameStep
    <2> PICK down \in BOOLEAN, ft \in FrameTimes, has3D \in BOOLEAN : Frame(down, ft, has3D)
      BY <1>1 DEF FrameStep
    <2> DEFINE k == [cur |-> down, last |-> key.cur]
    <2>1. CASE present /\ menu # "paused"
      <3>1. UpdateActiveWeapons(k, ft, has3D)
        BY <2>1 DEF Frame
      <3>2. k \in KeyState
        BY DEF TypeOK, KeyState
      <3>3. PICK s \in HeatState : Same(st, s) /\ (MovesFrom(s) \/ MovesFrom(UpdateOverheat(s)))
        <4> HIDE DEF k
        <4> QED BY <3>1, <3>2, FrameMoves
      <3>4. ~present' => st' = NewState(config)
        BY <3>3 DEF MovesFrom
      <3> QED BY <3>4 DEF Bare, NewState
    <2>2. CASE ~(present /\ menu # "paused")
      BY <2>2 DEF Frame, instance, Bare
    <2> QED BY <2>1, <2>2
  <1>2. CASE ActorUpdate
    BY <1>2 DEF ActorUpdate, HeatOf, Bare
  <1>3. CASE ShotStep
    <2> PICK bends \in BOOLEAN, lastRound \in BOOLEAN : FireShot(bends, lastRound)
      BY <1>3 DEF ShotStep
    <2> SUFFICES ASSUME ~present' PROVE st' = st /\ ~present
      BY DEF Bare
    <2>1. ~HeatOf.present
      BY DEF FireShot
    <2>2. ammo = NoConfig /\ ~present
      BY <2>1 DEF HeatOf
    <2>3. st' = [st EXCEPT !.uiOCEffect = IF present THEN @ \ {"AltProjectile"} ELSE @]
      BY <2>2 DEF FireShot
    <2>4. st' = st
      BY <2>2, <2>3 DEF TypeOK, HeatState
    <2> QED BY <2>2, <2>4
  <1>4. CASE PostLoadGame
    BY <1>4 DEF PostLoadGame, NewState, Bare
  <1>5. CASE \/ PlayFireAnimation \/ Unequip \/ Equip \/ Die \/ UNCHANGED vars
             \/ \E m \in Menus : SetMenu(m)
             \/ \E a \in Ammo : SwapAmmo(a)
    BY <1>5 DEF PlayFireAnimation, SetMenu, Unequip, Equip, SwapAmmo, Die, vars, instance, Bare
  <1>6. QED
    BY <1>1, <1>2, <1>3, <1>4, <1>5 DEF Next

(* Charge flags live with the trigger: the first mechanic to see a release  *)
(* takes its own flag away, and when it presses the trigger again to fire   *)
(* the shot, the other may keep its flag.                                   *)

ChargeFlags(s) == s.uiOCEffect \cap STOP_COOLDOWN_FLAGS

(* The frame begins: every flag was set under a trigger that was down.      *)
Armed(f) ==
  /\ ChargeFlags(f.st) \subseteq config.effects
  /\ ChargeFlags(f.st) # {} => f.key.cur \/ f.key.last

LEMMA OverchargeShotTrigger ==
  ASSUME TypeOK, NEW f \in Frames, NEW ft \in FrameTimes, Armed(f)
  PROVE  LET t == UpdateOverchargeShot(f, ft)
         IN  /\ "Overcharge" \in t.st.uiOCEffect =>
                  Held(t.key) /\ "Overcharge" \in config.effects
             /\ "ChargeDelay" \in t.st.uiOCEffect <=> "ChargeDelay" \in f.st.uiOCEffect
             /\ t.key \in {f.key, PressedKey}
  <1> DEFINE reset    == ResetTicks(f.st, f.key)
             released == Depressed(f.key) /\ "Overcharge" \in reset.uiOCEffect
             flagged  == [reset EXCEPT !.uiOCEffect =
                            IF Held(f.key) /\ "Overheat" \notin @ THEN @ \cup {"Overcharge"}
                            ELSE IF released THEN @ \ {"Overcharge"} ELSE @]
             time     == flagged.uiTicksPassed * ft
             charging == MayCharge(flagged, "Overcharge")
             heated   == IF charging /\ time >= COOLDOWN_DELAY THEN Charge(flagged, ft) ELSE flagged
             earned   == charging /\ time >= CHARGE_THRESHOLD /\ heated.fHeatVal >= config.threshold
             new      == [heated EXCEPT !.uiOCEffect =
                            IF earned THEN @ \cup {"AltProjectile"} ELSE @]
  <1>1. reset \in HeatState /\ reset.uiOCEffect = f.st.uiOCEffect
    BY ResetTicksType DEF Frames, ResetTicks, HeatState
  <1>2. /\ flagged \in HeatState
        /\ flagged.uiOCEffect =
             IF Held(f.key) /\ "Overheat" \notin reset.uiOCEffect
             THEN reset.uiOCEffect \cup {"Overcharge"}
             ELSE IF released THEN reset.uiOCEffect \ {"Overcharge"} ELSE reset.uiOCEffect
    <2> HIDE DEF reset, released
    <2> QED BY <1>1 DEF HeatState, OCEffects
  <1>3. heated \in HeatState /\ heated.uiOCEffect = flagged.uiOCEffect
    <2> HIDE DEF flagged, charging, time
    <2> QED BY <1>2, ChargeType
  <1>4. new.uiOCEffect \in {heated.uiOCEffect, heated.uiOCEffect \cup {"AltProjectile"}}
    <2> HIDE DEF heated, earned
    <2> QED BY <1>3 DEF HeatState
  <1>5. UpdateOverchargeShot(f, ft) =
          IF "Overcharge" \notin config.effects THEN f
          ELSE [st |-> new, key |-> IF released THEN PressedKey ELSE f.key,
                fireOnce |-> f.fireOnce]
    BY DEF UpdateOverchargeShot
  <1>6. CASE "Overcharge" \notin config.effects
    <2>1. UpdateOverchargeShot(f, ft) = f
      <3> HIDE DEF new, released
      <3> QED BY <1>5, <1>6
    <2> QED BY <1>6, <2>1 DEF Armed, ChargeFlags, STOP_COOLDOWN_FLAGS
  <1>7. CASE "Overcharge" \in config.effects
    <2> DEFINE t == UpdateOverchargeShot(f, ft)
    <2>1. t.st = new /\ t.key = IF released THEN PressedKey ELSE f.key
      <3> HIDE DEF new, released
      <3> QED BY <1>5, <1>7
    <2>2. /\ "Overcharge" \in new.uiOCEffect <=> "Overcharge" \in flagged.uiOCEffect
          /\ "ChargeDelay" \in new.uiOCEffect <=> "ChargeDelay" \in f.st.uiOCEffect
      <3> HIDE DEF new, heated, flagged, reset, released
      <3> QED BY <1>1, <1>2, <1>3, <1>4
    <2>3. "Overcharge" \in flagged.uiOCEffect => Held(f.key) /\ ~released
      <3>1. CASE Held(f.key)
        BY <3>1 DEF Depressed, Held
      <3>2. CASE ~Held(f.key) /\ "Overcharge" \notin reset.uiOCEffect
        <4> HIDE DEF flagged, reset, released
        <4> QED BY <1>2, <3>2
      <3>3. CASE ~Held(f.key) /\ "Overcharge" \in reset.uiOCEffect
        <4>1. f.key.last
          <5> HIDE DEF reset
          <5> QED BY <1>1, <3>3 DEF Armed, ChargeFlags, STOP_COOLDOWN_FLAGS, Held
        <4>2. released
          BY <3>3, <4>1 DEF Depressed, Held
        <4> HIDE DEF flagged, reset, released
        <4> QED BY <1>2, <3>3, <4>2
      <3> QED BY <3>1, <3>2, <3>3
    <2> HIDE DEF t, new, heated, flagged, reset, released
    <2>4. /\ "Overcharge" \in t.st.uiOCEffect => Held(t.key)
          /\ "ChargeDelay" \in t.st.uiOCEffect <=> "ChargeDelay" \in f.st.uiOCEffect
          /\ t.key \in {f.key, PressedKey}
      BY <2>1, <2>2, <2>3
    <2> QED BY <1>7, <2>4 DEF t
  <1>8. QED
    BY <1>6, <1>7

LEMMA ChargeDelayTrigger ==
  ASSUME TypeOK, NEW f \in Frames, NEW ft \in FrameTimes,
         "ChargeDelay" \in f.st.uiOCEffect => "ChargeDelay" \in config.effects
  PROVE  LET t == UpdateChargeDelay(f, ft)
         IN  /\ "ChargeDelay" \in t.st.uiOCEffect =>
                  /\ "ChargeDelay" \in config.effects
                  /\ Held(t.key) \/ ("ChargeDelay" \in f.st.uiOCEffect /\ ~f.key.last)
             /\ "Overcharge" \in t.st.uiOCEffect <=> "Overcharge" \in f.st.uiOCEffect
             /\ Held(f.key) => Held(t.key)
  <1> DEFINE reset   == ResetTicks(f.st, f.key)
             begins  == Held(f.key) /\ reset.uiTicksPassed = 0
             aimed   == IF begins
                        THEN [reset EXCEPT !.fTargetVal = reset.fHeatVal + config.threshold]
                        ELSE reset
             once    == f.fireOnce /\ ~begins
             release == Depressed(f.key) \/ (Held(f.key) /\ aimed.fHeatVal > aimed.fTargetVal)
             fires   == release /\ ~once /\ ~Depressed(f.key) /\ ~IsAutomatic
             dropped == [aimed EXCEPT !.uiOCEffect = @ \ {"ChargeDelay"}]
             aimless == [dropped EXCEPT !.fTargetVal = -1]
             kept    == [aimed EXCEPT !.uiOCEffect =
                           IF Held(f.key) THEN @ \cup {"ChargeDelay"} ELSE @]
             flagged == IF release
                        THEN [aimed EXCEPT !.uiOCEffect = @ \ {"ChargeDelay"}, !.fTargetVal = -1]
                        ELSE [aimed EXCEPT !.uiOCEffect =
                                IF Held(f.key) THEN @ \cup {"ChargeDelay"} ELSE @]
             new     == IF MayCharge(flagged, "ChargeDelay") THEN Charge(flagged, ft) ELSE flagged
             t       == UpdateChargeDelay(f, ft)
  <1>1. reset \in HeatState /\ reset.uiOCEffect = f.st.uiOCEffect
    BY ResetTicksType DEF Frames, ResetTicks, HeatState
  <1>2. aimed \in HeatState /\ aimed.uiOCEffect = reset.uiOCEffect
    <2>1. reset.fHeatVal + config.threshold \in Int
      <3> HIDE DEF reset
      <3>1. reset.fHeatVal \in Nat
        BY <1>1 DEF HeatState
      <3>2. config.threshold \in Nat
        BY DEF TypeOK, HeatConfiguration
      <3> QED BY <3>1, <3>2
    <2> HIDE DEF reset, begins
    <2> QED BY <1>1, <2>1 DEF HeatState
  <1>3. /\ flagged \in HeatState
        /\ flagged.uiOCEffect =
             IF release THEN aimed.uiOCEffect \ {"ChargeDelay"}
             ELSE IF Held(f.key) THEN aimed.uiOCEffect \cup {"ChargeDelay"}
             ELSE aimed.uiOCEffect
    <2>1. /\ dropped \in HeatState /\ dropped.uiOCEffect = aimed.uiOCEffect \ {"ChargeDelay"}
          /\ kept \in HeatState
          /\ kept.uiOCEffect = IF Held(f.key) THEN aimed.uiOCEffect \cup {"ChargeDelay"}
                               ELSE aimed.uiOCEffect
      <3> HIDE DEF aimed
      <3> QED BY <1>2 DEF HeatState, OCEffects
    <2>2. aimless \in HeatState /\ aimless.uiOCEffect = dropped.uiOCEffect
      <3> HIDE DEF dropped
      <3> QED BY <2>1 DEF HeatState
    <2>3. flagged = IF release THEN aimless ELSE kept
      <3> HIDE DEF aimed, release
      <3> QED OBVIOUS
    <2> HIDE DEF flagged, dropped, kept, aimless, aimed, release
    <2> QED BY <2>1, <2>2, <2>3
  <1>4. new.uiOCEffect = flagged.uiOCEffect
    <2> HIDE DEF flagged
    <2> QED BY <1>3, ChargeType
  <1>5. t = IF "ChargeDelay" \notin config.effects THEN f
            ELSE [st |-> new, key |-> IF fires THEN PressedKey ELSE f.key,
                  fireOnce |-> once \/ fires]
    BY DEF UpdateChargeDelay
  <1>6. CASE "ChargeDelay" \notin config.effects
    <2>1. t = f
      <3> HIDE DEF new, fires, once, t
      <3> QED BY <1>5, <1>6
    <2> HIDE DEF t
    <2>2. "ChargeDelay" \notin t.st.uiOCEffect /\ t = f
      BY <1>6, <2>1
    <2> QED BY <2>2 DEF t
  <1>7. CASE "ChargeDelay" \in config.effects
    <2>1. t.st = new /\ t.key = IF fires THEN PressedKey ELSE f.key
      <3> HIDE DEF new, fires, once, t
      <3> QED BY <1>5, <1>7
    <2>2. /\ "Overcharge" \in new.uiOCEffect <=> "Overcharge" \in f.st.uiOCEffect
          /\ "ChargeDelay" \in new.uiOCEffect =>
               ~release /\ (Held(f.key) \/ "ChargeDelay" \in f.st.uiOCEffect)
      <3> HIDE DEF new, flagged, aimed, reset, release
      <3> QED BY <1>1, <1>2, <1>3, <1>4
    <2>3. ~release => Held(f.key) \/ ~f.key.last
      <3> HIDE DEF aimed
      <3>1. ~release => ~Depressed(f.key)
        OBVIOUS
      <3> HIDE DEF release
      <3> QED BY <3>1 DEF Depressed, Held
    <2>4. Held(PressedKey)
      BY DEF Held, PressedKey
    <2> HIDE DEF t, new, flagged, aimed, reset, release, fires
    <2>5. /\ "ChargeDelay" \in t.st.uiOCEffect =>
               Held(t.key) \/ ("ChargeDelay" \in f.st.uiOCEffect /\ ~f.key.last)
          /\ "Overcharge" \in t.st.uiOCEffect <=> "Overcharge" \in f.st.uiOCEffect
          /\ Held(f.key) => Held(t.key)
      BY <2>1, <2>2, <2>3, <2>4
    <2> QED BY <1>7, <2>5 DEF t
  <1>8. QED
    BY <1>6, <1>7

LEMMA PlayerEffectsTrigger ==
  ASSUME TypeOK, NEW f \in Frames, NEW ft \in FrameTimes, Armed(f),
         ~IsPlayer \/ IsOverheating(f.st) => ChargeFlags(f.st) = {}
  PROVE  LET t == PlayerEffects(f, ft)
         IN  /\ ChargeFlags(t.st) \subseteq config.effects
             /\ ChargeFlags(t.st) # {} => IsPlayer /\ Held(t.key)
  <1> DEFINE ready   == [f EXCEPT !.st.iCanOverheat = IF @ = 1 THEN 2 ELSE @]
             dropped == [f EXCEPT !.st.uiOCEffect =
                           @ \ {"Overcharge", "AltProjectile", "ChargeDelay"}]
             shot    == UpdateOverchargeShot(ready, ft)
             last    == UpdateChargeDelay(shot, ft)
  <1>1. f.st \in HeatState /\ f.key \in KeyState
    BY DEF Frames
  <1>2. CASE ~IsPlayer \/ (f.st.bIsActive /\ menu = "none" /\ IsOverheating(f.st))
    <2>1. PlayerEffects(f, ft) = f
      BY <1>2 DEF PlayerEffects
    <2> QED BY <1>2, <2>1
  <1>3. CASE IsPlayer /\ ~(f.st.bIsActive /\ menu = "none")
    <2>1. PlayerEffects(f, ft) = dropped
      BY <1>3 DEF PlayerEffects
    <2>2. dropped.st.uiOCEffect = f.st.uiOCEffect \ {"Overcharge", "AltProjectile", "ChargeDelay"}
      BY <1>1 DEF Frames, HeatState
    <2> HIDE DEF dropped
    <2>3. ChargeFlags(dropped.st) = {}
      BY <2>2 DEF ChargeFlags, STOP_COOLDOWN_FLAGS
    <2> QED BY <2>1, <2>3
  <1>4. CASE IsPlayer /\ f.st.bIsActive /\ menu = "none" /\ ~IsOverheating(f.st)
    <2>1. PlayerEffects(f, ft) = last
      BY <1>4 DEF PlayerEffects
    <2>2. /\ ready \in Frames /\ ready.key = f.key
          /\ ready.st.uiOCEffect = f.st.uiOCEffect
      BY <1>1 DEF Frames, HeatState
    <2>3. Armed(ready)
      <3> HIDE DEF ready
      <3> QED BY <2>2 DEF Armed, ChargeFlags
    <2>4. /\ shot \in Frames
          /\ "Overcharge" \in shot.st.uiOCEffect =>
               Held(shot.key) /\ "Overcharge" \in config.effects
          /\ "ChargeDelay" \in shot.st.uiOCEffect <=> "ChargeDelay" \in ready.st.uiOCEffect
          /\ shot.key \in {ready.key, PressedKey}
      <3> HIDE DEF ready
      <3> QED BY <2>2, <2>3, OverchargeShotType, OverchargeShotTrigger
    <2>5. "ChargeDelay" \in shot.st.uiOCEffect =>
            /\ "ChargeDelay" \in config.effects
            /\ Held(shot.key) \/ shot.key.last
      <3> HIDE DEF ready, shot
      <3> QED BY <2>3, <2>4 DEF Armed, ChargeFlags, STOP_COOLDOWN_FLAGS, Held, PressedKey
    <2>6. /\ "ChargeDelay" \in last.st.uiOCEffect =>
               /\ "ChargeDelay" \in config.effects
               /\ Held(last.key) \/ ("ChargeDelay" \in shot.st.uiOCEffect /\ ~shot.key.last)
          /\ "Overcharge" \in last.st.uiOCEffect <=> "Overcharge" \in shot.st.uiOCEffect
          /\ Held(shot.key) => Held(last.key)
      <3> HIDE DEF ready, shot
      <3> QED BY <2>4, <2>5, ChargeDelayTrigger
    <2> HIDE DEF last, shot, ready
    <2>7. /\ ChargeFlags(last.st) \subseteq config.effects
          /\ ChargeFlags(last.st) # {} => Held(last.key)
      BY <2>4, <2>5, <2>6 DEF ChargeFlags, STOP_COOLDOWN_FLAGS
    <2> QED BY <1>4, <2>1, <2>7
  <1>5. QED
    BY <1>2, <1>3, <1>4 DEF TypeOK

-----------------------------------------------------------------------------

(* What a frame begins with is armed, whatever the player does.             *)
TriggerInv ==
  /\ config \in Ammo /\ ammo \in Ammo /\ menu # "paused"
  /\ ChargeFlags(st) \subseteq config.effects
  /\ ChargeFlags(st) # {} => IsPlayer /\ Held(key)

(* Every ammo the actor may load charges in the same way.                   *)
AmmoAgrees ==
  \A c, d \in Ammo \cap Configs :
    c.effects \cap STOP_COOLDOWN_FLAGS = d.effects \cap STOP_COOLDOWN_FLAGS

LEMMA FrameTrigger ==
  ASSUME TypeOK, LockoutClearsCharge, TriggerInv,
         NEW k \in KeyState, k.last = key.cur, NEW ft \in FrameTimes, NEW has3D \in BOOLEAN,
         UpdateActiveWeapons(k, ft, has3D)
  PROVE  /\ ChargeFlags(st') \subseteq config.effects
         /\ ChargeFlags(st') # {} => IsPlayer /\ Held(key')
  <1> DEFINE awake  == Activation(st, has3D)
             time   == awake.uiTicksPassed * ft
             heated == IF "Overheat" \in config.effects THEN UpdateOverheat(awake) ELSE awake
             begun  == [st |-> Tick(heated), key |-> k, fireOnce |-> fireOnce]
             frame  == PlayerEffects(begun, ft)
             erased == ~frame.st.bIsActive /\ frame.st.fHeatVal = 0 /\ time >= ERASE_DELAY
  <1>1. awake \in HeatState /\ awake.uiOCEffect = st.uiOCEffect
    BY ActivationType DEF Activation, InitializeHeatData, TypeOK, HeatState
  <1>2. time \in Nat
    <2> HIDE DEF awake
    <2>1. awake.uiTicksPassed \in Nat
      BY <1>1 DEF HeatState
    <2> QED BY <2>1, NatTimes
  <1>3. /\ heated \in HeatState
        /\ heated.uiOCEffect
             \in {awake.uiOCEffect, {"Overheat"}, awake.uiOCEffect \ {"Overheat"}}
    <2> HIDE DEF awake
    <2> QED BY <1>1, UpdateOverheatType DEF UpdateOverheat, HeatState
  <1>4. /\ begun \in Frames /\ begun.key = k
        /\ begun.st.uiOCEffect = heated.uiOCEffect
    <2> HIDE DEF heated
    <2> QED BY <1>3, TickType DEF Frames, TypeOK, Tick, HeatState
  <1> HIDE DEF awake, heated, begun
  <1>5. /\ ChargeFlags(begun.st) \in {{}, ChargeFlags(st)}
        /\ IsOverheating(begun.st) => ChargeFlags(begun.st) = {}
    BY <1>1, <1>3, <1>4
       DEF ChargeFlags, STOP_COOLDOWN_FLAGS, LockoutClearsCharge, IsOverheating
  <1>6. Armed(begun) /\ (~IsPlayer \/ IsOverheating(begun.st) => ChargeFlags(begun.st) = {})
    BY <1>4, <1>5 DEF Armed, TriggerInv, Held
  <1>7. /\ ChargeFlags(frame.st) \subseteq config.effects
        /\ ChargeFlags(frame.st) # {} => IsPlayer /\ Held(frame.key)
        /\ frame.st \in HeatState
    <2>1. frame \in Frames
      BY <1>4, PlayerEffectsType
    <2> QED BY <1>4, <1>6, <2>1, PlayerEffectsTrigger DEF Frames
  <1>8. /\ st' = IF erased THEN NewState(config) ELSE CoolDown(frame.st, time, ft)
        /\ key' = frame.key
    BY DEF UpdateActiveWeapons, awake, heated, begun
  <1> HIDE DEF frame, time, erased
  <1>9. CASE erased
    <2>1. st'.uiOCEffect = {}
      BY <1>8, <1>9 DEF NewState
    <2> QED BY <2>1 DEF ChargeFlags
  <1>10. CASE ~erased
    <2>1. st'.uiOCEffect = frame.st.uiOCEffect
      BY <1>2, <1>7, <1>8, <1>10, CoolDownCools
    <2> QED BY <1>7, <1>8, <2>1 DEF ChargeFlags
  <1>11. QED
    BY <1>9, <1>10

LEMMA TriggerStep ==
  ASSUME AmmoAgrees, "paused" \notin Menus,
         TypeOK, LockoutClearsCharge, Bare, TriggerInv, [Next]_vars
  PROVE  TriggerInv'
  <1> DEFINE Kept(s) == ChargeFlags(s) = {} \/ ChargeFlags(s) = ChargeFlags(st)
  <1>0. config \in Configs /\ config \in Ammo
    BY DEF TypeOK, TriggerInv
  <1>1. ASSUME config' \in Configs \cap Ammo, ammo' \in Ammo, menu' = menu, key' = key, Kept(st')
        PROVE  TriggerInv'
    <2>1. ChargeFlags(st') \subseteq config'.effects
      BY <1>0, <1>1 DEF AmmoAgrees, TriggerInv, ChargeFlags
    <2> QED BY <1>1, <2>1 DEF TriggerInv, ChargeFlags, Held
  <1>2. HeatOf.config \in Configs \cap Ammo
    BY <1>0 DEF HeatOf, TypeOK, TriggerInv
  <1>3. Kept(HeatOf.st)
    <2>1. CASE Same(st, HeatOf.st)
      BY <2>1 DEF Same, ChargeFlags
    <2>2. CASE \E c \in Configs : HeatOf.st = NewState(c)
      BY <2>2 DEF NewState, ChargeFlags
    <2> QED BY <2>1, <2>2, HeatOfSame
  <1>4. CASE FrameStep
    <2> PICK down \in BOOLEAN, ft \in FrameTimes, has3D \in BOOLEAN : Frame(down, ft, has3D)
      BY <1>4 DEF FrameStep
    <2> DEFINE k == [cur |-> down, last |-> key.cur]
    <2>1. k \in KeyState /\ k.last = key.cur
      BY DEF TypeOK, KeyState
    <2>2. config' = config /\ ammo' = ammo /\ menu' = menu
      BY DEF Frame, UpdateActiveWeapons, instance, world
    <2>3. CASE present
      <3>1. UpdateActiveWeapons(k, ft, has3D)
        BY <2>3 DEF Frame, TriggerInv
      <3>2. /\ ChargeFlags(st') \subseteq config.effects
            /\ ChargeFlags(st') # {} => IsPlayer /\ Held(key')
        <4> HIDE DEF k
        <4> QED BY <2>1, <3>1, FrameTrigger
      <3> QED BY <2>2, <3>2 DEF TriggerInv, ChargeFlags, Held
    <2>4. CASE ~present
      <3>1. st' = st /\ st.uiOCEffect = {}
        BY <2>4 DEF Frame, instance, Bare
      <3> QED BY <2>2, <3>1 DEF TriggerInv, ChargeFlags
    <2> QED BY <2>3, <2>4
  <1>5. CASE ActorUpdate
    BY <1>1, <1>2, <1>3, <1>5 DEF ActorUpdate, engine, world, TriggerInv
  <1>6. CASE ShotStep
    <2>1. config' = HeatOf.config /\ key' = key /\ UNCHANGED world
      BY <1>6 DEF ShotStep, FireShot
    <2>2. PICK s \in HeatState :
            /\ Same(st, s) \/ \E c \in Configs : s = NewState(c)
            /\ st'.uiOCEffect \ {"SelfDamage", "AltProjectile"}
                 = s.uiOCEffect \ {"SelfDamage", "AltProjectile"}
      BY <1>6, ShotEffects
    <2>3. ChargeFlags(st') = ChargeFlags(s)
      BY <2>2 DEF ChargeFlags, STOP_COOLDOWN_FLAGS
    <2>4. Kept(s)
      BY <2>2 DEF Same, NewState, ChargeFlags
    <2> QED BY <1>1, <1>2, <2>1, <2>3, <2>4 DEF world, TriggerInv
  <1>7. CASE PostLoadGame
    BY <1>0, <1>1, <1>7 DEF PostLoadGame, NewState, ChargeFlags, TriggerInv
  <1>8. CASE \E m \in Menus : SetMenu(m)
    BY <1>8 DEF SetMenu, instance, engine, TriggerInv, ChargeFlags, Held
  <1>9. CASE \E a \in Ammo : SwapAmmo(a)
    BY <1>0, <1>1, <1>9 DEF SwapAmmo, instance, engine, TriggerInv
  <1>10. CASE PlayFireAnimation \/ Unequip \/ Equip \/ Die \/ UNCHANGED vars
    BY <1>0, <1>1, <1>10
       DEF PlayFireAnimation, Unequip, Equip, Die, vars, instance, engine, world, TriggerInv
  <1>11. QED
    BY <1>4, <1>5, <1>6, <1>7, <1>8, <1>9, <1>10 DEF Next

(* A charge flag is only there while the trigger is down, for any mix of    *)
(* the two charge mechanics, of menus, deaths, holstering and reloads,      *)
(* provided that all the ammo charges alike and that the start menu and the *)
(* console, in which UpdateActiveWeapons is skipped, stay closed.           *)
THEOREM ChargesNeedTheTrigger ==
  ASSUME AmmoAgrees, "paused" \notin Menus
  PROVE  Spec => []ChargeNeedsTrigger
  <1>1. Init => TriggerInv /\ Bare
    BY DEF Init, TriggerInv, Bare, NewState, ChargeFlags
  <1>2. TypeOK /\ LockoutClearsCharge /\ Bare /\ TriggerInv /\ [Next]_vars => TriggerInv'
    BY TriggerStep
  <1>3. TypeOK /\ Bare /\ [Next]_vars => Bare'
    BY BareStep
  <1>4. TriggerInv => ChargeNeedsTrigger
    BY DEF TriggerInv, ChargeNeedsTrigger, ChargeFlags
  <1>5. QED
    BY <1>1, <1>2, <1>3, <1>4, TypeCorrect, LockoutClears, PTL DEF Spec
=============================================================================
