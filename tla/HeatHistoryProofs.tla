--------------------------- MODULE HeatHistoryProofs -------------------------
(***************************************************************************)
(* The proofs about whole stretches of a weapon's life.                    *)
(*                                                                         *)
(* HeatWeapon implements HeatCycle: the mapping reads the mode off the     *)
(* effects; what it does not show of the state is kept by the invariant    *)
(* CycleInv: a weapon without a HeatData is cold and bare, and overheating *)
(* is disabled only by Critical Mass.                                      *)
(*                                                                         *)
(* HeatHistory adds variables that no action reads, so that HSpec implies  *)
(* Spec and all that is proved of it.  What the history shows follows from *)
(* two more invariants: LockInv counts the attack under way with the shots *)
(* of a lockout, and ClockInv bounds the tick counter by the age.          *)
(*                                                                         *)
(* Last, what brings lockouts and abandoned weapons to their end: a        *)
(* measure that frames lower and next to nothing raises.                   *)
(***************************************************************************)
EXTENDS HeatWeaponProofs, HeatHistory

USE ThresholdsAssumption, EnvironmentAssumption

(* Only Critical Mass disables overheating.                                 *)
Able == st.iCanOverheat = 0 => "CriticalMass" \in Perks

CycleInv == TypeOK /\ LockoutClearsCharge /\ Bare /\ Able

LEMMA AbleStep ==
  ASSUME TypeOK, Able, [Next]_vars
  PROVE  Able'
  <1> SUFFICES ASSUME "CriticalMass" \notin Perks PROVE st'.iCanOverheat # 0
    BY DEF Able
  <1>1. st.iCanOverheat # 0
    BY DEF Able
  <1>2. \A c \in Configs : NewState(c).iCanOverheat # 0
    BY DEF NewState
  <1>3. CASE \E s \in HeatState :
               Same(st, s) /\ (Moves(s, st') \/ Moves(UpdateOverheat(s), st'))
    <2> PICK s \in HeatState :
          Same(st, s) /\ (Moves(s, st') \/ Moves(UpdateOverheat(s), st'))
      BY <1>3
    <2>1. UpdateOverheat(s).iCanOverheat = s.iCanOverheat
      BY DEF UpdateOverheat, HeatState
    <2> QED BY <1>1, <2>1 DEF Same, Moves
  <1>4. CASE \E c \in Configs : st' = NewState(c)
    BY <1>2, <1>4
  <1>5. CASE ShotStep
    <2> PICK s \in HeatState :
          /\ Same(st, s) \/ (~present /\ \E c \in Configs : s = NewState(c))
          /\ "CriticalMass" \notin Perks => st'.iCanOverheat \in {s.iCanOverheat, 1}
      BY <1>5, ShotEffects
    <2> QED BY <1>1, <1>2 DEF Same
  <1>6. QED
    BY <1>3, <1>4, <1>5, StepCases

-----------------------------------------------------------------------------
(* The steps of HeatWeapon, as the cycle sees them.                         *)

(* The mode that effects stand for.                                         *)
ModeOf(effects) ==
  CASE "Overheat" \in effects -> "locked"
    [] "Overheat" \notin effects /\ effects \cap STOP_FIRING_FLAGS # {} -> "charging"
    [] OTHER -> "ready"

LEMMA ModeCases ==
  ASSUME NEW e
  PROVE  /\ "Overheat" \in e => ModeOf(e) = "locked"
         /\ "Overheat" \notin e /\ e \cap STOP_COOLDOWN_FLAGS # {} => ModeOf(e) = "charging"
         /\ e \cap STOP_FIRING_FLAGS = {} => ModeOf(e) = "ready"
         /\ ModeOf(e) = "locked" => "Overheat" \in e
         /\ ModeOf(e) \in {"ready", "charging", "locked"}
  <1>1. CASE "Overheat" \in e
    <2>1. ModeOf(e) = "locked"
      BY <1>1 DEF ModeOf
    <2> QED BY <1>1, <2>1 DEF STOP_FIRING_FLAGS
  <1>2. CASE "Overheat" \notin e /\ e \cap STOP_FIRING_FLAGS # {}
    <2>1. ModeOf(e) = "charging"
      BY <1>2 DEF ModeOf
    <2> QED BY <1>2, <2>1
  <1>3. CASE "Overheat" \notin e /\ e \cap STOP_FIRING_FLAGS = {}
    <2>1. ModeOf(e) = "ready"
      BY <1>3 DEF ModeOf
    <2> QED BY <1>3, <2>1 DEF STOP_FIRING_FLAGS, STOP_COOLDOWN_FLAGS
  <1>4. QED
    BY <1>1, <1>2, <1>3

LEMMA ModeIs == Mode = ModeOf(st.uiOCEffect) /\ Mode' = ModeOf(st'.uiOCEffect)
  BY DEF Mode, ModeOf, IsOverheating

(* The mode depends on the effects that stop firing alone.                  *)
LEMMA ModeKept ==
  ASSUME st'.uiOCEffect \cap STOP_FIRING_FLAGS = st.uiOCEffect \cap STOP_FIRING_FLAGS
  PROVE  Mode' = Mode
  <1>1. "Overheat" \in st'.uiOCEffect <=> "Overheat" \in st.uiOCEffect
    BY DEF STOP_FIRING_FLAGS
  <1>2. CASE "Overheat" \in st.uiOCEffect
    BY <1>1, <1>2, ModeIs, ModeCases
  <1>3. CASE "Overheat" \notin st.uiOCEffect /\ st.uiOCEffect \cap STOP_FIRING_FLAGS = {}
    BY <1>3, ModeIs, ModeCases
  <1>4. CASE "Overheat" \notin st.uiOCEffect /\ st.uiOCEffect \cap STOP_FIRING_FLAGS # {}
    <2>1. st.uiOCEffect \cap STOP_COOLDOWN_FLAGS # {}
      BY <1>4 DEF STOP_FIRING_FLAGS, STOP_COOLDOWN_FLAGS
    <2>2. st'.uiOCEffect \cap STOP_COOLDOWN_FLAGS # {}
      BY <1>1, <1>4 DEF STOP_FIRING_FLAGS, STOP_COOLDOWN_FLAGS
    <2> QED BY <1>1, <1>4, <2>1, <2>2, ModeIs, ModeCases
  <1>5. QED
    BY <1>2, <1>3, <1>4

LEMMA FrameTicks ==
  ASSUME CycleInv, CycleInv', FrameStep
  PROVE  Cycle!Tick \/ UNCHANGED Cycle!cycle
  <1> PICK down \in BOOLEAN, ft \in FrameTimes, has3D \in BOOLEAN : Frame(down, ft, has3D)
    BY DEF FrameStep
  <1> DEFINE k == [cur |-> down, last |-> key.cur]
  <1>1. anim' = anim
    BY DEF Frame
  <1>2. CASE ~(present /\ menu # "paused")
    <2>1. st' = st
      BY <1>2 DEF Frame, instance
    <2> QED BY <1>1, <2>1, ModeKept DEF Cycle!cycle
  <1>3. CASE present /\ menu # "paused"
    <2>1. UpdateActiveWeapons(k, ft, has3D)
      BY <1>3 DEF Frame
    <2>2. k \in KeyState
      BY DEF CycleInv, TypeOK, KeyState
    <2>3. PICK s \in HeatState : Same(st, s) /\ (MovesFrom(s) \/ MovesFrom(UpdateOverheat(s)))
      <3> HIDE DEF k
      <3> QED BY <2>1, <2>2, FrameMoves DEF CycleInv
    <2>4. PICK t \in {s, UpdateOverheat(s)} : MovesFrom(t)
      BY <2>3
    <2>5. /\ st.fHeatVal \in Nat /\ st'.fHeatVal \in Nat
          /\ t.fHeatVal = st.fHeatVal
          /\ IsOverheating(t) /\ ~IsOverheating(st) => st.fHeatVal >= HOT_THRESHOLD
          /\ IsOverheating(st) /\ ~IsOverheating(t) =>
               st.fHeatVal <= COOL_THRESHOLD \/ "CriticalMass" \in Perks
      <3>1. st.fHeatVal \in Nat /\ st'.fHeatVal \in Nat /\ s.fHeatVal = st.fHeatVal
            /\ s.uiOCEffect = st.uiOCEffect /\ s.iCanOverheat = st.iCanOverheat
        BY <2>3 DEF CycleInv, TypeOK, HeatState, Same
      <3>2. UpdateOverheat(s).fHeatVal = s.fHeatVal
        BY DEF UpdateOverheat, HeatState
      <3>3. /\ IsOverheating(UpdateOverheat(s)) /\ ~IsOverheating(s) =>
                 s.fHeatVal >= HOT_THRESHOLD
            /\ IsOverheating(s) /\ ~IsOverheating(UpdateOverheat(s)) =>
                 s.fHeatVal <= COOL_THRESHOLD \/ s.iCanOverheat = 0
        BY DEF UpdateOverheat, HeatState, IsOverheating, IsHot, IsCool
      <3>4. t = s \/ t = UpdateOverheat(s)
        BY <2>4
      <3> QED BY <3>1, <3>2, <3>3, <3>4 DEF IsOverheating, CycleInv, Able
    <2>6. CASE st' = NewState(config) /\ t.fHeatVal = 0
      <3>1. st'.uiOCEffect = {} /\ st'.fHeatVal = 0
        BY <2>6 DEF NewState
      <3>2. Mode' = "ready"
        BY <3>1, ModeIs, ModeCases
      <3>3. st.fHeatVal <= COOL_THRESHOLD
        BY <2>5, <2>6, ThresholdsAssumption
      <3> QED BY <1>1, <2>5, <3>1, <3>2, <3>3 DEF Cycle!Tick
    <2>7. CASE /\ Moves(t, st')
               /\ st'.fHeatVal > t.fHeatVal => st'.uiOCEffect \cap STOP_COOLDOWN_FLAGS # {}
      <3>1. IsOverheating(st') <=> IsOverheating(t)
        BY <2>7 DEF Moves, IsOverheating, ChargeEffects
      <3>2. /\ Mode = "locked" <=> IsOverheating(st)
            /\ Mode' = "locked" <=> IsOverheating(st')
            /\ Mode' \in {"ready", "charging", "locked"}
        BY ModeIs, ModeCases DEF IsOverheating
      <3>3. ASSUME st'.fHeatVal > st.fHeatVal
            PROVE  Mode' = "charging" /\ st'.fHeatVal <= CHARGE_CAP
        <4>1. st'.uiOCEffect \cap STOP_COOLDOWN_FLAGS # {}
          BY <2>5, <2>7, <3>3
        <4>2. ~IsOverheating(st')
          BY <4>1 DEF CycleInv, LockoutClearsCharge, IsOverheating, STOP_COOLDOWN_FLAGS
        <4>3. Mode' = "charging"
          BY <4>1, <4>2, ModeIs, ModeCases DEF IsOverheating
        <4>4. st'.fHeatVal <= CHARGE_CAP
          BY <2>5, <2>7, <3>3 DEF Moves
        <4> QED BY <4>3, <4>4
      <3> QED BY <1>1, <2>5, <3>1, <3>2, <3>3 DEF Cycle!Tick
    <2> QED BY <2>4, <2>6, <2>7 DEF MovesFrom
  <1>4. QED
    BY <1>2, <1>3

LEMMA ShotShoots ==
  ASSUME CycleInv, CycleInv', ShotStep
  PROVE  Cycle!Shoot
  <1>1. anim = "firing" /\ anim' = "fired"
    BY DEF ShotStep, FireShot
  <1>2. PICK s \in HeatState :
          /\ Same(st, s) \/ (~present /\ \E c \in Configs : s = NewState(c))
          /\ st'.uiOCEffect \ {"SelfDamage", "AltProjectile"}
               = s.uiOCEffect \ {"SelfDamage", "AltProjectile"}
    BY ShotEffects DEF CycleInv
  <1>3. s.uiOCEffect = st.uiOCEffect
    BY <1>2 DEF Same, NewState, CycleInv, Bare
  <1>4. st'.uiOCEffect \cap STOP_FIRING_FLAGS = st.uiOCEffect \cap STOP_FIRING_FLAGS
    BY <1>2, <1>3 DEF STOP_FIRING_FLAGS
  <1>5. Mode' = Mode /\ st'.fHeatVal \in Nat
    BY <1>4, ModeKept DEF CycleInv, TypeOK, HeatState
  <1>6. QED
    BY <1>1, <1>5 DEF Cycle!Shoot

LEMMA AttackAttacks ==
  ASSUME CycleInv, PlayFireAnimation
  PROVE  Cycle!Attack \/ Cycle!Cancel
  <1>1. anim # "firing" /\ st' = st
    BY DEF PlayFireAnimation, instance
  <1>2. Mode' = Mode
    BY <1>1, ModeKept
  <1>3. CASE anim' # "firing"
    BY <1>1, <1>2, <1>3 DEF Cycle!Cancel
  <1>4. CASE anim' = "firing"
    <2>1. ~(present /\ st.uiOCEffect \cap STOP_FIRING_FLAGS # {})
      BY <1>4 DEF PlayFireAnimation
    <2>2. st.uiOCEffect \cap STOP_FIRING_FLAGS = {}
      BY <2>1 DEF CycleInv, Bare
    <2>3. Mode = "ready"
      BY <2>2, ModeIs, ModeCases
    <2> QED BY <1>1, <1>2, <1>4, <2>3 DEF Cycle!Attack
  <1>5. QED
    BY <1>3, <1>4

LEMMA CycleStep ==
  ASSUME CycleInv, CycleInv', [Next]_vars
  PROVE  [Cycle!Next]_(Cycle!cycle)
  <1>1. CASE FrameStep
    BY <1>1, FrameTicks DEF Cycle!Next
  <1>2. CASE ShotStep
    BY <1>2, ShotShoots DEF Cycle!Next
  <1>3. CASE PlayFireAnimation
    BY <1>3, AttackAttacks DEF Cycle!Next
  <1>4. CASE ActorUpdate
    <2>1. st' = HeatOf.st /\ anim' = anim
      BY <1>4 DEF ActorUpdate, engine
    <2>2. st'.uiOCEffect = st.uiOCEffect /\ st'.fHeatVal = st.fHeatVal
      <3>1. Same(st, HeatOf.st) \/ (~present /\ \E c \in Configs : HeatOf.st = NewState(c))
        BY HeatOfSame DEF CycleInv
      <3>2. CASE Same(st, HeatOf.st)
        BY <2>1, <3>2 DEF Same
      <3>3. CASE ~present /\ \E c \in Configs : HeatOf.st = NewState(c)
        BY <2>1, <3>3 DEF NewState, CycleInv, Bare
      <3> QED BY <3>1, <3>2, <3>3
    <2>3. Mode' = Mode
      BY <2>2, ModeKept
    <2> QED BY <2>1, <2>2, <2>3 DEF Cycle!cycle
  <1>5. CASE PostLoadGame
    <2>1. st'.uiOCEffect = {} /\ st'.fHeatVal = 0 /\ anim' = "idle"
      BY <1>5 DEF PostLoadGame, NewState
    <2>2. Mode' = "ready"
      BY <2>1, ModeIs, ModeCases
    <2> QED BY <2>1, <2>2 DEF Cycle!Next, Cycle!Forget
  <1>6. CASE Unequip \/ Die
    <2>1. st' = st /\ anim' = "idle"
      BY <1>6 DEF Unequip, Die, instance
    <2>2. Mode' = Mode
      BY <2>1, ModeKept
    <2> QED BY <2>1, <2>2 DEF Cycle!Next, Cycle!Cancel
  <1>7. CASE \/ Equip \/ UNCHANGED vars
             \/ \E m \in Menus : SetMenu(m)
             \/ \E a \in Ammo : SwapAmmo(a)
    <2>1. st' = st /\ anim' = anim
      BY <1>7 DEF SetMenu, Equip, SwapAmmo, vars, instance, engine
    <2>2. Mode' = Mode
      BY <2>1, ModeKept
    <2> QED BY <2>1, <2>2 DEF Cycle!cycle
  <1>8. QED
    BY <1>1, <1>2, <1>3, <1>4, <1>5, <1>6, <1>7 DEF Next

(* The state machine of a weapon keeps the promises of HeatCycle, whatever  *)
(* the thresholds, configurations and perks: a lockout starts hot and ends  *)
(* cool, unless Critical Mass disables it; heat rises by shots and, while   *)
(* charging, up to the cap; and no attack begins while the weapon is locked *)
(* or charging.                                                             *)
THEOREM RefinesCycle == Spec => ImplementsCycle
  <1>1. Init => Cycle!Init
    <2> SUFFICES ASSUME Init PROVE Cycle!Init
      OBVIOUS
    <2>1. st.uiOCEffect = {} /\ st.fHeatVal = 0 /\ anim = "idle"
      BY DEF Init, NewState
    <2>2. Mode = "ready"
      BY <2>1, ModeIs, ModeCases
    <2> QED BY <2>1, <2>2 DEF Cycle!Init
  <1>2. Init => Bare /\ Able
    BY DEF Init, NewState, Bare, Able
  <1>3. TypeOK /\ Bare /\ [Next]_vars => Bare'
    BY BareStep
  <1>4. TypeOK /\ Able /\ [Next]_vars => Able'
    BY AbleStep
  <1>5. CycleInv /\ CycleInv' /\ [Next]_vars => [Cycle!Next]_(Cycle!cycle)
    BY CycleStep
  <1>6. Spec => []CycleInv
    BY <1>2, <1>3, <1>4, TypeCorrect, LockoutClears, PTL DEF Spec, CycleInv
  <1>7. QED
    BY <1>1, <1>5, <1>6, PTL DEF Spec, ImplementsCycle, Cycle!Spec

-----------------------------------------------------------------------------
(* The history.                                                             *)

LEMMA HistoryStep == [HNext]_hvars => [Next]_vars
  <1>1. HFrame => FrameStep
    BY DEF HFrame, FrameStep
  <1>2. HShot => ShotStep
    BY DEF HShot
  <1>3. HOther => Next
    BY DEF HOther, Next
  <1>4. QED
    BY <1>1, <1>2, <1>3 DEF HNext, Next, hvars

(* The history variables follow the weapon and add nothing to it.           *)
THEOREM HistoryAddsNothing == HSpec => Spec
  <1>1. HInit => Init
    BY DEF HInit
  <1>2. QED
    BY <1>1, HistoryStep, PTL DEF HSpec, Spec

(* During a lockout at most one shot has left or is about to.               *)
LockInv ==
  /\ lockShots \in Nat
  /\ IsOverheating(st) => lockShots + (IF anim = "firing" THEN 1 ELSE 0) <= 1
  /\ ~IsOverheating(st) => lockShots = 0

LEMMA LockStep ==
  ASSUME TypeOK, Bare, LockInv, [HNext]_hvars
  PROVE  LockInv'
  <1>1. CASE HFrame
    <2>1. /\ anim' = anim
          /\ lockShots' = IF IsOverheating(st') THEN lockShots ELSE 0
      BY <1>1 DEF HFrame, Frame
    <2>2. lockShots = 0 \/ IsOverheating(st)
      BY DEF LockInv
    <2> QED BY <2>1, <2>2 DEF LockInv
  <1>2. CASE HShot
    <2>1. /\ ShotStep /\ anim = "firing" /\ anim' = "fired"
          /\ lockShots' = IF IsOverheating(st') THEN lockShots + 1 ELSE 0
      BY <1>2 DEF HShot, ShotStep, FireShot
    <2>2. IsOverheating(st') => IsOverheating(st)
      <3> PICK s \in HeatState :
            /\ Same(st, s) \/ (~present /\ \E c \in Configs : s = NewState(c))
            /\ st'.uiOCEffect \ {"SelfDamage", "AltProjectile"}
                 = s.uiOCEffect \ {"SelfDamage", "AltProjectile"}
        BY <2>1, ShotEffects
      <3>1. s.uiOCEffect = st.uiOCEffect
        BY SMTT(30) DEF Same, NewState, Bare
      <3> QED BY <3>1 DEF IsOverheating
    <2> QED BY <2>1, <2>2 DEF LockInv
  <1>3. CASE HOther
    <2>1. lockShots' = IF IsOverheating(st') THEN lockShots ELSE 0
      BY <1>3 DEF HOther
    <2>2. IsOverheating(st') => IsOverheating(st)
      <3>1. CASE ActorUpdate
        <4>1. st' = HeatOf.st
          BY <3>1 DEF ActorUpdate
        <4>2. HeatOf.st.uiOCEffect \in {st.uiOCEffect, {}}
          <5>1. CASE Same(st, HeatOf.st)
            BY <5>1 DEF Same
          <5>2. CASE \E c \in Configs : HeatOf.st = NewState(c)
            BY <5>2 DEF NewState
          <5> QED BY <5>1, <5>2, HeatOfSame
        <4> QED BY <4>1, <4>2 DEF IsOverheating
      <3>2. CASE PostLoadGame
        BY <3>2 DEF PostLoadGame, NewState, IsOverheating
      <3>3. CASE ~ActorUpdate /\ ~PostLoadGame
        BY <1>3, <3>3
           DEF HOther, PlayFireAnimation, SetMenu, Unequip, Equip, SwapAmmo, Die, instance
      <3> QED BY <3>1, <3>2, <3>3
    <2>3. anim' = "firing" => anim = "firing" \/ ~IsOverheating(st')
      <3>1. CASE PlayFireAnimation
        <4>1. anim' = "firing" => ~(present /\ st.uiOCEffect \cap STOP_FIRING_FLAGS # {})
          BY <3>1 DEF PlayFireAnimation
        <4>2. anim' = "firing" => st.uiOCEffect \cap STOP_FIRING_FLAGS = {}
          BY <4>1 DEF Bare
        <4> QED BY <2>2, <4>2 DEF IsOverheating, STOP_FIRING_FLAGS
      <3>2. CASE ~PlayFireAnimation
        BY <1>3, <3>2
           DEF HOther, ActorUpdate, SetMenu, Unequip, Equip, SwapAmmo, Die, PostLoadGame, engine
      <3> QED BY <3>1, <3>2
    <2> QED BY <2>1, <2>2, <2>3 DEF LockInv
  <1>4. CASE UNCHANGED hvars
    BY <1>4 DEF hvars, vars, instance, engine, LockInv
  <1>5. QED
    BY <1>1, <1>2, <1>3, <1>4 DEF HNext

(* A lockout lets out the shot of the attack that was under way when it     *)
(* began and no other, whatever menus, reloads, holstering, deaths and      *)
(* perks come in between: PlayFireAnimation finds the HeatData, which an    *)
(* overheated weapon always has, and refuses.                               *)
THEOREM LockoutStopsTheGun == HSpec => []OneShotPerLockout
  <1>1. HInit => LockInv /\ Bare
    BY DEF HInit, Init, LockInv, Bare, NewState, IsOverheating
  <1>2. TypeOK /\ Bare /\ LockInv /\ [HNext]_hvars => LockInv'
    BY LockStep
  <1>3. TypeOK /\ Bare /\ [HNext]_hvars => Bare'
    BY BareStep, HistoryStep
  <1>4. LockInv => OneShotPerLockout
    BY DEF LockInv, OneShotPerLockout
  <1>5. HSpec => []TypeOK
    BY HistoryAddsNothing, TypeCorrect, PTL
  <1>6. QED
    BY <1>1, <1>2, <1>3, <1>4, <1>5, PTL DEF HSpec

-----------------------------------------------------------------------------
(* The tick counter, which the code multiplies by the length of the frame.  *)

LEMMA OverchargeShotClock ==
  ASSUME TypeOK, NEW f \in Frames, NEW ft \in FrameTimes
  PROVE  LET t == UpdateOverchargeShot(f, ft)
         IN  /\ t.st.uiTicksPassed = IF "Overcharge" \in config.effects /\ Pressed(f.key)
                                     THEN 0 ELSE f.st.uiTicksPassed
             /\ Pressed(f.key) => t.key = f.key
             /\ "AltProjectile" \in t.st.uiOCEffect \ f.st.uiOCEffect =>
                  /\ "Overcharge" \in config.effects /\ t.key = f.key
                  /\ t.st.uiTicksPassed * ft >= CHARGE_THRESHOLD
  <1> DEFINE reset    == ResetTicks(f.st, f.key)
             released == Depressed(f.key) /\ "Overcharge" \in reset.uiOCEffect
             flagged  == [reset EXCEPT !.uiOCEffect =
                            IF Held(f.key) /\ "Overheat" \notin @ THEN @ \cup {"Overcharge"}
                            ELSE IF released THEN @ \ {"Overcharge"} ELSE @]
             time     == flagged.uiTicksPassed * ft
             charging == MayCharge(flagged, "Overcharge")
             heated   == IF charging /\ time >= COOLDOWN_DELAY THEN Charge(flagged, ft) ELSE flagged
             earned   == charging /\ time >= CHARGE_THRESHOLD /\ heated.fHeatVal >= config.threshold
             new      == [heated EXCEPT !.uiOCEffect =
                            IF earned THEN @ \cup {"AltProjectile"} ELSE @]
             t        == UpdateOverchargeShot(f, ft)
  <1>1. /\ reset \in HeatState /\ reset.uiOCEffect = f.st.uiOCEffect
        /\ reset.uiTicksPassed = IF Pressed(f.key) THEN 0 ELSE f.st.uiTicksPassed
    BY ResetTicksType DEF Frames, ResetTicks, HeatState
  <1>2. /\ flagged \in HeatState /\ flagged.uiTicksPassed = reset.uiTicksPassed
        /\ flagged.uiOCEffect =
             IF Held(f.key) /\ "Overheat" \notin reset.uiOCEffect
             THEN reset.uiOCEffect \cup {"Overcharge"}
             ELSE IF released THEN reset.uiOCEffect \ {"Overcharge"} ELSE reset.uiOCEffect
    <2> HIDE DEF reset, released
    <2> QED BY <1>1 DEF HeatState, OCEffects
  <1>3. /\ heated \in HeatState /\ heated.uiOCEffect = flagged.uiOCEffect
        /\ heated.uiTicksPassed = flagged.uiTicksPassed
    <2>1. Charge(flagged, ft).uiTicksPassed = flagged.uiTicksPassed
      <3> HIDE DEF flagged
      <3> QED BY <1>2 DEF Charge, HeatState
    <2> HIDE DEF flagged, charging, time
    <2> QED BY <1>2, <2>1, ChargeType
  <1>4. /\ new.uiTicksPassed = heated.uiTicksPassed
        /\ "AltProjectile" \in new.uiOCEffect => "AltProjectile" \in heated.uiOCEffect \/ earned
    <2> HIDE DEF heated, earned
    <2> QED BY <1>3 DEF HeatState
  <1>5. earned => ~released /\ flagged.uiTicksPassed * ft >= CHARGE_THRESHOLD
    <2>1. earned => "Overcharge" \in flagged.uiOCEffect
      <3> HIDE DEF flagged, heated
      <3> QED BY DEF MayCharge
    <2>2. released => ~Held(f.key)
      BY DEF Depressed, Held
    <2>3. earned => time >= CHARGE_THRESHOLD
      <3> HIDE DEF charging, time, heated
      <3> QED OBVIOUS
    <2>4. "Overcharge" \in flagged.uiOCEffect => ~released
      <3> HIDE DEF flagged, released, reset
      <3> QED BY <1>2, <2>2
    <2> HIDE DEF earned, flagged, released
    <2> QED BY <2>1, <2>3, <2>4
  <1>6. t = IF "Overcharge" \notin config.effects THEN f
            ELSE [st |-> new, key |-> IF released THEN PressedKey ELSE f.key,
                  fireOnce |-> f.fireOnce]
    BY DEF UpdateOverchargeShot
  <1>7. Pressed(f.key) => ~released
    BY DEF Pressed, Depressed
  <1>8. CASE "Overcharge" \notin config.effects
    <2>1. t = f
      <3> HIDE DEF new, released, t
      <3> QED BY <1>6, <1>8
    <2> HIDE DEF t
    <2>2. /\ t.st.uiTicksPassed = f.st.uiTicksPassed /\ t.key = f.key
          /\ t.st.uiOCEffect = f.st.uiOCEffect
      BY <2>1
    <2> QED BY <1>8, <2>2 DEF t
  <1>9. CASE "Overcharge" \in config.effects
    <2>1. t.st = new /\ t.key = IF released THEN PressedKey ELSE f.key
      <3> HIDE DEF new, released, t
      <3> QED BY <1>6, <1>9
    <2> HIDE DEF t, new, heated, flagged, earned, released, reset
    <2>2. "AltProjectile" \in flagged.uiOCEffect => "AltProjectile" \in f.st.uiOCEffect
      BY <1>1, <1>2
    <2>3. t.st.uiTicksPassed = flagged.uiTicksPassed
      BY <1>3, <1>4, <2>1
    <2>4. "AltProjectile" \in t.st.uiOCEffect \ f.st.uiOCEffect => earned
      BY <1>3, <1>4, <2>1, <2>2
    <2>5. t.st.uiTicksPassed = IF Pressed(f.key) THEN 0 ELSE f.st.uiTicksPassed
      BY <1>1, <1>2, <2>3
    <2>6. earned => t.key = f.key /\ t.st.uiTicksPassed * ft >= CHARGE_THRESHOLD
      BY <1>5, <2>1, <2>3
    <2>7. Pressed(f.key) => t.key = f.key
      BY <1>7, <2>1
    <2> QED BY <1>9, <2>4, <2>5, <2>6, <2>7 DEF t
  <1>10. QED
    BY <1>8, <1>9

LEMMA ChargeDelayClock ==
  ASSUME TypeOK, NEW f \in Frames, NEW ft \in FrameTimes
  PROVE  LET t == UpdateChargeDelay(f, ft)
         IN  /\ t.st.uiTicksPassed = IF "ChargeDelay" \in config.effects /\ Pressed(f.key)
                                     THEN 0 ELSE f.st.uiTicksPassed
             /\ "AltProjectile" \in t.st.uiOCEffect => "AltProjectile" \in f.st.uiOCEffect
  <1> DEFINE reset   == ResetTicks(f.st, f.key)
             begins  == Held(f.key) /\ reset.uiTicksPassed = 0
             aimed   == IF begins
                        THEN [reset EXCEPT !.fTargetVal = reset.fHeatVal + config.threshold]
                        ELSE reset
             once    == f.fireOnce /\ ~begins
             release == Depressed(f.key) \/ (Held(f.key) /\ aimed.fHeatVal > aimed.fTargetVal)
             fires   == release /\ ~once /\ ~Depressed(f.key) /\ ~IsAutomatic
             dropped == [aimed EXCEPT !.uiOCEffect = @ \ {"ChargeDelay"}]
             aimless == [dropped EXCEPT !.fTargetVal = -1]
             kept    == [aimed EXCEPT !.uiOCEffect =
                           IF Held(f.key) THEN @ \cup {"ChargeDelay"} ELSE @]
             flagged == IF release
                        THEN [aimed EXCEPT !.uiOCEffect = @ \ {"ChargeDelay"}, !.fTargetVal = -1]
                        ELSE [aimed EXCEPT !.uiOCEffect =
                                IF Held(f.key) THEN @ \cup {"ChargeDelay"} ELSE @]
             new     == IF MayCharge(flagged, "ChargeDelay") THEN Charge(flagged, ft) ELSE flagged
             t       == UpdateChargeDelay(f, ft)
             Alike(r, s) == /\ s.uiTicksPassed = r.uiTicksPassed
                            /\ "AltProjectile" \in s.uiOCEffect => "AltProjectile" \in r.uiOCEffect
  <1>1. /\ reset \in HeatState /\ reset.uiOCEffect = f.st.uiOCEffect
        /\ reset.uiTicksPassed = IF Pressed(f.key) THEN 0 ELSE f.st.uiTicksPassed
    BY ResetTicksType DEF Frames, ResetTicks, HeatState
  <1>2. aimed \in HeatState /\ Alike(reset, aimed)
    <2>1. reset.fHeatVal + config.threshold \in Int
      <3> HIDE DEF reset
      <3> QED BY <1>1 DEF HeatState, TypeOK, HeatConfiguration
    <2> HIDE DEF reset, begins
    <2> QED BY <1>1, <2>1 DEF HeatState
  <1>3. flagged \in HeatState /\ Alike(aimed, flagged)
    <2>1. /\ dropped \in HeatState /\ Alike(aimed, dropped)
          /\ kept \in HeatState /\ Alike(aimed, kept)
      <3> HIDE DEF aimed
      <3> QED BY <1>2 DEF HeatState, OCEffects
    <2>2. aimless \in HeatState /\ Alike(dropped, aimless)
      <3> HIDE DEF dropped
      <3> QED BY <2>1 DEF HeatState
    <2>3. flagged = IF release THEN aimless ELSE kept
      <3> HIDE DEF aimed, release
      <3> QED OBVIOUS
    <2> HIDE DEF flagged, dropped, kept, aimless, aimed, release
    <2> QED BY <2>1, <2>2, <2>3
  <1>4. Alike(flagged, new)
    <2>1. Charge(flagged, ft).uiTicksPassed = flagged.uiTicksPassed
      <3> HIDE DEF flagged
      <3> QED BY <1>3 DEF Charge, HeatState
    <2> HIDE DEF flagged
    <2> QED BY <1>3, <2>1, ChargeType
  <1>5. t = IF "ChargeDelay" \notin config.effects THEN f
            ELSE [st |-> new, key |-> IF fires THEN PressedKey ELSE f.key,
                  fireOnce |-> once \/ fires]
    BY DEF UpdateChargeDelay
  <1>6. t.st = IF "ChargeDelay" \notin config.effects THEN f.st ELSE new
    <2> HIDE DEF new, fires, once, t
    <2> QED BY <1>5
  <1>7. QED
    <2> HIDE DEF t, new, flagged, aimed, reset
    <2>1. /\ t.st.uiTicksPassed = IF "ChargeDelay" \in config.effects /\ Pressed(f.key)
                                  THEN 0 ELSE f.st.uiTicksPassed
          /\ "AltProjectile" \in t.st.uiOCEffect => "AltProjectile" \in f.st.uiOCEffect
      BY <1>1, <1>2, <1>3, <1>4, <1>6
    <2> QED BY <2>1 DEF t

LEMMA PlayerEffectsClock ==
  ASSUME TypeOK, NEW f \in Frames, NEW ft \in FrameTimes
  PROVE  LET t == PlayerEffects(f, ft)
         IN  /\ t.st.bIsActive = f.st.bIsActive
             /\ t.st.uiTicksPassed \in {0, f.st.uiTicksPassed}
             /\ /\ IsPlayer /\ f.st.bIsActive /\ menu = "none" /\ ~IsOverheating(f.st)
                /\ Pressed(f.key) /\ config.effects \cap STOP_COOLDOWN_FLAGS # {}
                => t.st.uiTicksPassed = 0
             /\ "AltProjectile" \in t.st.uiOCEffect \ f.st.uiOCEffect =>
                  t.st.uiTicksPassed * ft >= CHARGE_THRESHOLD
  <1> DEFINE ready   == [f EXCEPT !.st.iCanOverheat = IF @ = 1 THEN 2 ELSE @]
             dropped == [f EXCEPT !.st.uiOCEffect =
                           @ \ {"Overcharge", "AltProjectile", "ChargeDelay"}]
             shot    == UpdateOverchargeShot(ready, ft)
             last    == UpdateChargeDelay(shot, ft)
  <1>1. f.st \in HeatState
    BY DEF Frames
  <1>2. CASE ~IsPlayer \/ (f.st.bIsActive /\ menu = "none" /\ IsOverheating(f.st))
    <2>1. PlayerEffects(f, ft) = f
      BY <1>2 DEF PlayerEffects
    <2> QED BY <1>2, <2>1
  <1>3. CASE IsPlayer /\ ~(f.st.bIsActive /\ menu = "none")
    <2>1. PlayerEffects(f, ft) = dropped
      BY <1>3 DEF PlayerEffects
    <2>2. /\ dropped.st.uiTicksPassed = f.st.uiTicksPassed
          /\ dropped.st.bIsActive = f.st.bIsActive
          /\ "AltProjectile" \notin dropped.st.uiOCEffect
      BY <1>1 DEF Frames, HeatState
    <2> HIDE DEF dropped
    <2> QED BY <1>3, <2>1, <2>2
  <1>4. CASE IsPlayer /\ f.st.bIsActive /\ menu = "none" /\ ~IsOverheating(f.st)
    <2>1. PlayerEffects(f, ft) = last
      BY <1>4 DEF PlayerEffects
    <2>2. /\ ready \in Frames /\ ready.key = f.key
          /\ ready.st.uiOCEffect = f.st.uiOCEffect
          /\ ready.st.uiTicksPassed = f.st.uiTicksPassed
          /\ ready.st.bIsActive = f.st.bIsActive
      BY <1>1 DEF Frames, HeatState
    <2> HIDE DEF ready
    <2>3. /\ shot \in Frames
          /\ shot.st.uiTicksPassed = IF "Overcharge" \in config.effects /\ Pressed(ready.key)
                                     THEN 0 ELSE ready.st.uiTicksPassed
          /\ Pressed(ready.key) => shot.key = ready.key
          /\ "AltProjectile" \in shot.st.uiOCEffect \ ready.st.uiOCEffect =>
               /\ "Overcharge" \in config.effects /\ shot.key = ready.key
               /\ shot.st.uiTicksPassed * ft >= CHARGE_THRESHOLD
          /\ shot.st.bIsActive = ready.st.bIsActive
      BY <2>2, OverchargeShotType, OverchargeShotClock, OverchargeShotCharges DEF Charges
    <2> HIDE DEF shot
    <2>4. /\ last.st.uiTicksPassed = IF "ChargeDelay" \in config.effects /\ Pressed(shot.key)
                                     THEN 0 ELSE shot.st.uiTicksPassed
          /\ "AltProjectile" \in last.st.uiOCEffect => "AltProjectile" \in shot.st.uiOCEffect
          /\ last.st.bIsActive = shot.st.bIsActive
      BY <2>3, ChargeDelayClock, ChargeDelayCharges DEF Charges
    <2> HIDE DEF last
    <2>5. /\ last.st.uiTicksPassed \in {0, f.st.uiTicksPassed}
          /\ last.st.bIsActive = f.st.bIsActive
      BY <2>2, <2>3, <2>4
    <2>6. Pressed(f.key) /\ config.effects \cap STOP_COOLDOWN_FLAGS # {}
            => last.st.uiTicksPassed = 0
      BY <2>2, <2>3, <2>4 DEF STOP_COOLDOWN_FLAGS
    <2>7. ASSUME "AltProjectile" \in last.st.uiOCEffect \ f.st.uiOCEffect
          PROVE  last.st.uiTicksPassed * ft >= CHARGE_THRESHOLD
      <3>1. /\ "Overcharge" \in config.effects /\ shot.key = ready.key
            /\ shot.st.uiTicksPassed * ft >= CHARGE_THRESHOLD
        BY <2>2, <2>3, <2>4, <2>7
      <3>2. last.st.uiTicksPassed = shot.st.uiTicksPassed
        BY <2>3, <2>4, <3>1
      <3> QED BY <3>1, <3>2
    <2> QED BY <2>1, <2>5, <2>6, <2>7
  <1>5. QED
    BY <1>2, <1>3, <1>4 DEF TypeOK

LEMMA ActivationClock ==
  ASSUME TypeOK, NEW has3D \in BOOLEAN
  PROVE  LET t == Activation(st, has3D)
         IN  /\ t.uiTicksPassed = IF t.bIsActive /\ ~st.bIsActive THEN 0 ELSE st.uiTicksPassed
             /\ t.uiOCEffect = st.uiOCEffect
  <1>1. st \in HeatState
    BY DEF TypeOK
  <1>2. CASE ~Wielded
    BY <1>1, <1>2 DEF Activation, HeatState
  <1>3. CASE Wielded /\ (st.bIsActive \/ ~has3D)
    BY <1>1, <1>3 DEF Activation, HeatState
  <1>4. CASE Wielded /\ ~st.bIsActive /\ has3D
    <2> DEFINE drawn == [st EXCEPT !.bIsActive = TRUE]
               awake == [drawn EXCEPT !.uiTicksPassed = 0]
    <2>1. Activation(st, has3D) = InitializeHeatData(awake, config)
      BY <1>4 DEF Activation
    <2>2. /\ awake.bIsActive = TRUE /\ awake.uiTicksPassed = 0
          /\ awake.uiOCEffect = st.uiOCEffect /\ awake \in HeatState
      <3>1. /\ drawn \in HeatState /\ drawn.bIsActive = TRUE
            /\ drawn.uiOCEffect = st.uiOCEffect
        BY <1>1 DEF HeatState
      <3> HIDE DEF drawn
      <3> QED BY <3>1 DEF HeatState
    <2> HIDE DEF awake
    <2>3. LET t == InitializeHeatData(awake, config)
          IN  /\ t.bIsActive = awake.bIsActive /\ t.uiTicksPassed = awake.uiTicksPassed
              /\ t.uiOCEffect = awake.uiOCEffect
      BY <2>2 DEF InitializeHeatData, HeatState
    <2> QED BY <1>4, <2>1, <2>2, <2>3
  <1>5. QED
    BY <1>2, <1>3, <1>4

(* A frame counts at most one tick, none after a press that may charge, and *)
(* what it does at a delay, it does when the ticks it counted reach it.     *)
LEMMA FrameClock ==
  ASSUME TypeOK, present, menu # "paused",
         NEW down \in BOOLEAN, NEW ft \in FrameTimes, NEW has3D \in BOOLEAN,
         Frame(down, ft, has3D)
  PROVE  /\ ~present' => ~st'.bIsActive /\ st.uiTicksPassed * ft >= ERASE_DELAY
         /\ present' =>
              st'.uiTicksPassed \in
                IF PressInPlay(down) THEN {0}
                ELSE IF st'.bIsActive /\ ~st.bIsActive THEN {0, 1}
                ELSE {0, st.uiTicksPassed, st.uiTicksPassed + 1}
         /\ "AltProjectile" \in st'.uiOCEffect \ st.uiOCEffect =>
              present' /\ st'.uiTicksPassed * ft >= CHARGE_THRESHOLD
  <1> DEFINE k      == [cur |-> down, last |-> key.cur]
             awake  == Activation(st, has3D)
             time   == awake.uiTicksPassed * ft
             heated == IF "Overheat" \in config.effects THEN UpdateOverheat(awake) ELSE awake
             begun  == [st |-> Tick(heated), key |-> k, fireOnce |-> fireOnce]
             frame  == PlayerEffects(begun, ft)
             erased == ~frame.st.bIsActive /\ frame.st.fHeatVal = 0 /\ time >= ERASE_DELAY
  <1>1. awake \in HeatState
    BY ActivationType
  <1>2. /\ awake.uiTicksPassed =
             IF awake.bIsActive /\ ~st.bIsActive THEN 0 ELSE st.uiTicksPassed
        /\ awake.uiOCEffect = st.uiOCEffect
    BY ActivationClock
  <1>3. time \in Nat
    <2> HIDE DEF awake
    <2>1. awake.uiTicksPassed \in Nat
      BY <1>1 DEF HeatState
    <2> QED BY <2>1, NatTimes
  <1>4. /\ heated \in HeatState
        /\ heated.uiTicksPassed = awake.uiTicksPassed /\ heated.bIsActive = awake.bIsActive
        /\ "AltProjectile" \in heated.uiOCEffect => "AltProjectile" \in awake.uiOCEffect
    <2> HIDE DEF awake
    <2> QED BY <1>1, UpdateOverheatType DEF UpdateOverheat, HeatState
  <1>5. /\ begun \in Frames /\ begun.key = k
        /\ begun.st.uiTicksPassed \in {heated.uiTicksPassed, heated.uiTicksPassed + 1}
        /\ begun.st.bIsActive = heated.bIsActive
        /\ begun.st.uiOCEffect = heated.uiOCEffect
    <2> HIDE DEF heated
    <2>1. k \in KeyState
      BY DEF KeyState, TypeOK
    <2> HIDE DEF k
    <2> QED BY <1>4, <2>1, TickType DEF Frames, TypeOK, Tick, HeatState
  <1> HIDE DEF awake, heated, begun
  <1>6. /\ frame.st.uiTicksPassed \in {0, begun.st.uiTicksPassed}
        /\ /\ IsPlayer /\ begun.st.bIsActive /\ menu = "none" /\ ~IsOverheating(begun.st)
           /\ Pressed(begun.key) /\ config.effects \cap STOP_COOLDOWN_FLAGS # {}
           => frame.st.uiTicksPassed = 0
        /\ "AltProjectile" \in frame.st.uiOCEffect \ begun.st.uiOCEffect =>
             frame.st.uiTicksPassed * ft >= CHARGE_THRESHOLD
        /\ frame.st \in HeatState
        /\ frame.st.bIsActive = begun.st.bIsActive
        /\ IsOverheating(frame.st) <=> IsOverheating(begun.st)
    <2>1. frame \in Frames /\ Moves(begun.st, frame.st)
      BY <1>5, PlayerEffectsType, PlayerEffectsMoves
    <2>2. frame.st \in HeatState
      BY <2>1 DEF Frames
    <2>3. IsOverheating(frame.st) <=> IsOverheating(begun.st)
      BY <2>1 DEF Moves, IsOverheating, ChargeEffects
    <2> HIDE DEF frame
    <2> QED BY <1>5, <2>2, <2>3, PlayerEffectsClock DEF frame
  <1>7. /\ present' = ~erased
        /\ st' = IF erased THEN NewState(config) ELSE CoolDown(frame.st, time, ft)
    BY DEF Frame, UpdateActiveWeapons, awake, heated, begun
  <1> HIDE DEF frame, time
  <1>8. CASE erased
    <2>1. ~st'.bIsActive /\ st'.uiOCEffect = {} /\ ~present'
      BY <1>7, <1>8 DEF NewState
    <2>2. ~awake.bIsActive
      BY <1>4, <1>5, <1>6, <1>8
    <2>3. st.uiTicksPassed * ft >= ERASE_DELAY
      BY <1>2, <1>8, <2>2 DEF time
    <2> QED BY <2>1, <2>3
  <1>9. CASE ~erased
    <2>1. /\ st'.uiTicksPassed = frame.st.uiTicksPassed
          /\ st'.bIsActive = frame.st.bIsActive /\ st'.uiOCEffect = frame.st.uiOCEffect
      <3>1. st' = CoolDown(frame.st, time, ft)
        BY <1>7, <1>9
      <3> QED BY <1>6, <3>1 DEF CoolDown, HeatState
    <2> HIDE DEF erased
    <2>2. PressInPlay(down) => st'.uiTicksPassed = 0
      <3> SUFFICES ASSUME PressInPlay(down) PROVE frame.st.uiTicksPassed = 0
        BY <2>1
      <3>1. Pressed(begun.key)
        BY <1>5 DEF PressInPlay, Pressed
      <3>2. begun.st.bIsActive /\ ~IsOverheating(begun.st)
        BY <1>6, <2>1 DEF PressInPlay, IsOverheating
      <3> QED BY <1>6, <3>1, <3>2 DEF PressInPlay
    <2>3. /\ st'.bIsActive = awake.bIsActive
          /\ st'.uiTicksPassed \in {0, awake.uiTicksPassed, awake.uiTicksPassed + 1}
      BY <1>4, <1>5, <1>6, <2>1
    <2>4. "AltProjectile" \in st'.uiOCEffect \ st.uiOCEffect =>
            st'.uiTicksPassed * ft >= CHARGE_THRESHOLD
      BY <1>2, <1>4, <1>5, <1>6, <2>1
    <2>5. present'
      BY <1>7, <1>9
    <2> QED BY <1>2, <2>2, <2>3, <2>4, <2>5
  <1>10. QED
    BY <1>8, <1>9

(* The ticks of a weapon, taken for frames of the shortest length, never    *)
(* exceed its age, unless the age has reached the delay of the erasure.     *)
Timely(short, n, a) == n * short <= a \/ a >= ERASE_DELAY

ClockInv(short) == age \in Nat /\ (present => Timely(short, st.uiTicksPassed, age))

LEMMA OneMore == \A n, x \in Nat : (n + 1) * x = n * x + x
  OBVIOUS

LEMMA TimesOrdered ==
  ASSUME NEW x \in Nat, NEW y \in Nat, NEW z \in Nat, y <= z
  PROVE  x * y <= x * z
  <1>1. x * (z - y) \in Nat
    BY z - y \in Nat, NatTimes
  <1>2. x * z = x * y + x * (z - y)
    OBVIOUS
  <1>3. x * y \in Nat /\ x * z \in Nat
    BY NatTimes
  <1>4. QED
    BY <1>1, <1>2, <1>3

LEMMA TimelyFirst == \A short, a \in Nat : Timely(short, 0, a)
  BY DEF Timely

LEMMA TimelyNext ==
  ASSUME NEW short \in Nat, NEW n \in Nat, NEW a \in Nat, NEW ft \in Nat,
         short <= ft, Timely(short, n, a)
  PROVE  /\ Timely(short, n, Lesser(ERASE_DELAY, a + ft))
         /\ Timely(short, n + 1, Lesser(ERASE_DELAY, a + ft))
         /\ Timely(short, 1, ft)
  <1>1. n * short \in Nat /\ (n + 1) * short = n * short + short
    BY OneMore, NatTimes
  <1>2. QED
    BY <1>1 DEF Timely, Lesser

(* The perks change heat and effects only: each step of the update leaves   *)
(* a record with the same fields and the same ticks.                        *)
LEMMA PerksTicks ==
  ASSUME NEW s \in HeatState, NEW bends \in BOOLEAN
  PROVE  UpdatePerks(s, bends).uiTicksPassed = s.uiTicksPassed
  <1> DEFINE bent     == IF "CircuitBender" \in Perks /\ "AltProjectile" \in s.uiOCEffect /\ bends
                         THEN [s EXCEPT !.fHeatVal = Greater(0, @ - s.fHeatPerShot)] ELSE s
             critical == IF "CriticalMass" \notin Perks THEN bent
                         ELSE IF ~IsHot(bent) THEN [bent EXCEPT !.uiOCEffect = @ \ {"SelfDamage"}]
                         ELSE IF "SelfDamage" \in bent.uiOCEffect THEN bent
                         ELSE [bent EXCEPT !.uiOCEffect = @ \cup {"SelfDamage"}, !.iCanOverheat = 0]
  <1> DEFINE Updated(r) == r = [x \in DOMAIN s |-> r[x]] /\ r.uiTicksPassed = s.uiTicksPassed
  <1>1. Updated(s)
    BY DEF HeatState
  <1>2. Updated(bent)
    BY DEF HeatState
  <1>3. Updated(critical)
    <2> HIDE DEF bent
    <2> QED BY <1>2 DEF HeatState
  <1>4. UpdatePerks(s, bends) =
          IF "CoolantLeak" \in Perks /\ 10 * critical.fHeatVal >= 7 * HOT_THRESHOLD
          THEN [critical EXCEPT !.fHeatVal = HOT_THRESHOLD] ELSE critical
    BY DEF UpdatePerks
  <1>5. QED
    <2> HIDE DEF critical
    <2> QED BY <1>3, <1>4 DEF HeatState

LEMMA ShotTicks ==
  ASSUME TypeOK, NEW bends \in BOOLEAN, NEW lastRound \in BOOLEAN,
         FireShot(bends, lastRound), ammo # NoConfig
  PROVE  st'.uiTicksPassed = 0
  <1> DEFINE shot     == HeatOnFire(HeatOf.st)
             perked   == UpdatePerks(shot, bends)
             launched == [perked EXCEPT !.uiOCEffect = @ \ {"AltProjectile"}]
             emptied  == [launched EXCEPT !.iCanOverheat = 1]
  <1>1. HeatOf.st \in HeatState
    BY HeatOfType
  <1>2. shot \in HeatState /\ shot.uiTicksPassed = 0
    <2> DEFINE s == HeatOf.st
    <2> HIDE DEF s
    <2>1. s \in HeatState => HeatOnFire(s) \in HeatState /\ HeatOnFire(s).uiTicksPassed = 0
      BY HeatOnFireType DEF HeatOnFire, HeatState
    <2> QED BY <1>1, <2>1 DEF s
  <1>3. perked \in HeatState /\ perked.uiTicksPassed = shot.uiTicksPassed
    <2> HIDE DEF shot
    <2> QED BY <1>2, PerksTicks, UpdatePerksType
  <1>4. /\ launched \in HeatState /\ launched.uiTicksPassed = perked.uiTicksPassed
    <2> HIDE DEF perked
    <2> QED BY <1>3 DEF HeatState, OCEffects
  <1>5. emptied.uiTicksPassed = launched.uiTicksPassed
    <2> HIDE DEF launched
    <2> QED BY <1>4 DEF HeatState
  <1>6. st' \in {launched, emptied}
    <2>1. st' = IF lastRound /\ IsPlayer /\ "CriticalMass" \notin Perks THEN emptied ELSE launched
      BY DEF FireShot
    <2> HIDE DEF launched, emptied
    <2> QED BY <2>1
  <1>7. QED
    <2> HIDE DEF emptied, launched, perked, shot
    <2> QED BY <1>2, <1>3, <1>4, <1>5, <1>6

LEMMA ClockStep ==
  ASSUME NEW short \in Nat, \A ft \in FrameTimes : short <= ft,
         TypeOK, ClockInv(short), [HNext]_hvars
  PROVE  ClockInv(short)'
  <1>1. st.uiTicksPassed \in Nat
    BY DEF TypeOK, HeatState
  <1>2. age \in Nat /\ (present => Timely(short, st.uiTicksPassed, age))
    BY DEF ClockInv
  <1>3. ASSUME age' \in Nat, present' => Timely(short, st'.uiTicksPassed, age')
        PROVE  ClockInv(short)'
    BY <1>3 DEF ClockInv, Timely
  <1>4. CASE /\ age' = age /\ present' = present
             /\ st'.uiTicksPassed = st.uiTicksPassed
    BY <1>2, <1>3, <1>4
  <1>5. CASE age' = 0 /\ (present' => st'.uiTicksPassed = 0)
    BY <1>3, <1>5, TimelyFirst
  <1>6. CASE HFrame
    <2> PICK down \in BOOLEAN, ft \in FrameTimes, has3D \in BOOLEAN :
          Frame(down, ft, has3D) /\ age' = AgeAfter(down, ft)
      BY <1>6 DEF HFrame
    <2>1. CASE menu = "paused" \/ ~present
      BY <1>4, <2>1 DEF Frame, AgeAfter, instance
    <2>2. CASE menu # "paused" /\ present
      <3>1. ft \in Nat /\ short <= ft
        OBVIOUS
      <3>2. age' = IF PressInPlay(down) THEN 0
                   ELSE IF st'.bIsActive /\ ~st.bIsActive THEN ft
                   ELSE Lesser(ERASE_DELAY, age + ft)
        BY <2>2 DEF AgeAfter
      <3>3. present' =>
              st'.uiTicksPassed \in
                IF PressInPlay(down) THEN {0}
                ELSE IF st'.bIsActive /\ ~st.bIsActive THEN {0, 1}
                ELSE {0, st.uiTicksPassed, st.uiTicksPassed + 1}
        BY <2>2, FrameClock
      <3>4. CASE PressInPlay(down)
        BY <1>5, <3>2, <3>3, <3>4
      <3>5. CASE ~PressInPlay(down) /\ st'.bIsActive /\ ~st.bIsActive
        BY <1>1, <1>2, <1>3, <2>2, <3>1, <3>2, <3>3, <3>5, TimelyFirst, TimelyNext
      <3>6. CASE ~PressInPlay(down) /\ ~(st'.bIsActive /\ ~st.bIsActive)
        <4>1. age' = Lesser(ERASE_DELAY, age + ft) /\ age' \in Nat
          BY <1>2, <3>1, <3>2, <3>6, LesserNat
        <4>2. present' => st'.uiTicksPassed \in {0, st.uiTicksPassed, st.uiTicksPassed + 1}
          BY <3>3, <3>6
        <4>3. /\ Timely(short, 0, age')
              /\ Timely(short, st.uiTicksPassed, age')
              /\ Timely(short, st.uiTicksPassed + 1, age')
          <5>1. Timely(short, st.uiTicksPassed, age)
            BY <1>2, <2>2
          <5>2. /\ Timely(short, st.uiTicksPassed, Lesser(ERASE_DELAY, age + ft))
                /\ Timely(short, st.uiTicksPassed + 1, Lesser(ERASE_DELAY, age + ft))
            BY <1>1, <1>2, <3>1, <5>1, TimelyNext, Zenon
          <5> QED BY <4>1, <5>2, TimelyFirst
        <4> QED BY <1>3, <4>1, <4>2, <4>3
      <3> QED BY <3>4, <3>5, <3>6
    <2> QED BY <2>1, <2>2
  <1>7. CASE HShot
    <2> PICK bends \in BOOLEAN, lastRound \in BOOLEAN : FireShot(bends, lastRound)
      BY <1>7 DEF HShot, ShotStep
    <2>1. age' = IF ammo = NoConfig THEN age ELSE 0
      BY <1>7 DEF HShot
    <2>2. present' = HeatOf.present
      BY DEF FireShot
    <2>3. CASE ammo = NoConfig
      BY <1>4, <2>1, <2>2, <2>3 DEF FireShot, HeatOf, TypeOK, HeatState
    <2>4. CASE ammo # NoConfig
      BY <1>5, <2>1, <2>4, ShotTicks
    <2> QED BY <2>3, <2>4
  <1>8. CASE HOther
    <2>1. age' = IF present' = present THEN age ELSE 0
      BY <1>8 DEF HOther
    <2>2. CASE ActorUpdate
      <3>1. present' = HeatOf.present /\ st' = HeatOf.st
        BY <2>2 DEF ActorUpdate
      <3>2. /\ present => HeatOf.present /\ HeatOf.st.uiTicksPassed = st.uiTicksPassed
            /\ ~present /\ HeatOf.present => HeatOf.st.uiTicksPassed = 0
        BY DEF HeatOf, InitializeHeatData, NewState, TypeOK, HeatState
      <3>3. CASE present'
        BY <1>2, <1>3, <1>5, <2>1, <3>1, <3>2, <3>3 DEF TypeOK
      <3>4. CASE ~present'
        BY <1>2, <1>3, <2>1, <3>4
      <3> QED BY <3>3, <3>4
    <2>3. CASE PostLoadGame
      BY <1>2, <1>3, <2>1, <2>3 DEF PostLoadGame
    <2>4. CASE ~ActorUpdate /\ ~PostLoadGame
      <3>1. UNCHANGED instance
        BY <1>8, <2>4
           DEF HOther, PlayFireAnimation, SetMenu, Unequip, Equip, SwapAmmo, Die
      <3> QED BY <1>4, <2>1, <3>1 DEF instance
    <2> QED BY <2>2, <2>3, <2>4
  <1>9. CASE UNCHANGED hvars
    BY <1>4, <1>9 DEF hvars, vars, instance
  <1>10. QED
    BY <1>6, <1>7, <1>8, <1>9 DEF HNext

(* What a delay of ticks is worth in time, when no frame is longer than     *)
(* long and none shorter than short.                                        *)
LEMMA DelayOfTicks ==
  ASSUME NEW short \in Nat, NEW long \in Nat, NEW ft \in Nat, ft <= long,
         NEW n \in Nat, NEW a \in Nat, NEW delay \in Nat, delay <= ERASE_DELAY,
         short <= long, n * ft >= delay, Timely(short, n, a)
  PROVE  a * long >= delay * short
  <1>1. CASE a >= ERASE_DELAY
    <2>1. delay * short <= delay * long
      BY TimesOrdered
    <2>2. long * delay <= long * a
      BY <1>1, TimesOrdered
    <2>3. long * delay = delay * long /\ long * a = a * long
      OBVIOUS
    <2>4. delay * short \in Nat /\ delay * long \in Nat /\ a * long \in Nat
      BY NatTimes
    <2> QED BY <2>1, <2>2, <2>3, <2>4
  <1>2. CASE n * short <= a
    <2>1. n * ft <= n * long
      BY TimesOrdered
    <2>2. n * ft \in Nat /\ n * long \in Nat /\ n * short \in Nat
      BY NatTimes
    <2>3. delay <= n * long
      BY <2>1, <2>2
    <2>4. short * delay <= short * (n * long)
      BY <2>2, <2>3, TimesOrdered
    <2>5. long * (n * short) <= long * a
      BY <1>2, <2>2, TimesOrdered
    <2>6. short * (n * long) = long * (n * short)
      OBVIOUS
    <2>7. short * delay \in Nat /\ short * (n * long) \in Nat /\ long * a \in Nat
      BY <2>2, NatTimes
    <2>8. delay * short = short * delay /\ a * long = long * a
      OBVIOUS
    <2> QED BY <2>4, <2>5, <2>6, <2>7, <2>8
  <1>3. QED
    BY <1>1, <1>2 DEF Timely

LEMMA FrameDelays ==
  ASSUME NEW short \in Nat, NEW long \in Nat, FrameTimes \subseteq short..long,
         TypeOK, ClockInv(short), ClockInv(short)', HFrame
  PROVE  /\ present /\ ~present' => age' * long >= ERASE_DELAY * short
         /\ /\ CHARGE_THRESHOLD <= ERASE_DELAY
            /\ "AltProjectile" \in st'.uiOCEffect \ st.uiOCEffect
            => age' * long >= CHARGE_THRESHOLD * short
  <1> PICK down \in BOOLEAN, ft \in FrameTimes, has3D \in BOOLEAN :
        Frame(down, ft, has3D) /\ age' = AgeAfter(down, ft)
    BY DEF HFrame
  <1>1. ft \in Nat /\ short <= ft /\ ft <= long /\ short <= long
    OBVIOUS
  <1>2. st.uiTicksPassed \in Nat /\ age \in Nat /\ age' \in Nat
    BY DEF TypeOK, HeatState, ClockInv
  <1>3. CASE ~present \/ menu = "paused"
    BY <1>3 DEF Frame, instance
  <1>4. CASE present /\ menu # "paused"
    <2>1. ASSUME ~present' PROVE age' * long >= ERASE_DELAY * short
      <3>1. ~st'.bIsActive /\ st.uiTicksPassed * ft >= ERASE_DELAY
        BY <1>4, <2>1, FrameClock
      <3>2. age' = Lesser(ERASE_DELAY, age + ft)
        BY <1>4, <3>1 DEF AgeAfter, PressInPlay
      <3>3. Timely(short, st.uiTicksPassed, age')
        <4>1. Timely(short, st.uiTicksPassed, age)
          BY <1>4 DEF ClockInv
        <4>2. Timely(short, st.uiTicksPassed, Lesser(ERASE_DELAY, age + ft))
          BY <1>1, <1>2, <4>1, TimelyNext, Zenon
        <4> QED BY <3>2, <4>2
      <3>4. ERASE_DELAY \in Nat /\ ERASE_DELAY <= ERASE_DELAY
        OBVIOUS
      <3> QED BY <1>1, <1>2, <3>1, <3>3, <3>4, DelayOfTicks, Zenon
    <2>2. ASSUME CHARGE_THRESHOLD <= ERASE_DELAY,
                 "AltProjectile" \in st'.uiOCEffect \ st.uiOCEffect
          PROVE  age' * long >= CHARGE_THRESHOLD * short
      <3>1. present' /\ st'.uiTicksPassed * ft >= CHARGE_THRESHOLD
        BY <1>4, <2>2, FrameClock
      <3>2. st'.uiTicksPassed \in Nat
        <4>1. TypeOK'
          BY TypeStep, HistoryStep DEF HNext
        <4> QED BY <4>1 DEF TypeOK, HeatState
      <3>3. Timely(short, st'.uiTicksPassed, age')
        BY <3>1 DEF ClockInv, Timely
      <3>4. CHARGE_THRESHOLD \in Nat
        OBVIOUS
      <3> QED BY <1>1, <1>2, <2>2, <3>1, <3>2, <3>3, <3>4, DelayOfTicks, Zenon
    <2> QED BY <2>1, <2>2
  <1>5. QED
    BY <1>3, <1>4

LEMMA ClockInvariance ==
  ASSUME NEW short \in Nat, \A ft \in FrameTimes : short <= ft
  PROVE  HSpec => []ClockInv(short)
  <1>1. HInit => ClockInv(short)
    BY DEF HInit, Init, ClockInv
  <1>2. TypeOK /\ ClockInv(short) /\ [HNext]_hvars => ClockInv(short)'
    BY ClockStep
  <1>3. HSpec => []TypeOK
    BY HistoryAddsNothing, TypeCorrect, PTL
  <1>4. QED
    BY <1>1, <1>2, <1>3, PTL DEF HSpec

(* The code takes the ticks it counted for frames as long as the present    *)
(* one.  When frames last between short and long, a weapon is erased, and   *)
(* the alternate projectile earned, after at least short/long of the delay  *)
(* since the weapon was last drawn, fired or pressed in play: no menu, ammo *)
(* or full counter in between shortens that.                                *)
THEOREM DelaysAreNearlyKept ==
  ASSUME NEW short \in Nat, NEW long \in Nat, FrameTimes \subseteq short..long,
         CHARGE_THRESHOLD <= ERASE_DELAY
  PROVE  HSpec =>
           /\ [][HFrame /\ present /\ ~present' => age' * long >= ERASE_DELAY * short]_hvars
           /\ [][HFrame /\ "AltProjectile" \in st'.uiOCEffect \ st.uiOCEffect
                   => age' * long >= CHARGE_THRESHOLD * short]_hvars
  <1> DEFINE Erases == HFrame /\ present /\ ~present' => age' * long >= ERASE_DELAY * short
             Earns  == HFrame /\ "AltProjectile" \in st'.uiOCEffect \ st.uiOCEffect
                         => age' * long >= CHARGE_THRESHOLD * short
  <1>1. TypeOK /\ ClockInv(short) /\ ClockInv(short)' /\ [HNext]_hvars
          => [Erases]_hvars /\ [Earns]_hvars
    BY FrameDelays
  <1>2. HSpec => []ClockInv(short)
    BY ClockInvariance
  <1>3. HSpec => []TypeOK
    BY HistoryAddsNothing, TypeCorrect, PTL
  <1> HIDE DEF Erases, Earns
  <1>4. HSpec => [][Erases]_hvars /\ [][Earns]_hvars
    BY <1>1, <1>2, <1>3, PTL DEF HSpec
  <1>5. QED
    BY <1>4 DEF Erases, Earns

LEMMA StepsCancel ==
  ASSUME NEW a \in Nat, NEW delay \in Nat, NEW step \in Nat \ {0},
         a * step >= delay * step
  PROVE  a >= delay
  <1> SUFFICES ASSUME a + 1 <= delay PROVE FALSE
    OBVIOUS
  <1>1. step * (a + 1) <= step * delay
    BY TimesOrdered
  <1>2. step * (a + 1) = a * step + step /\ step * delay = delay * step
    OBVIOUS
  <1>3. a * step \in Nat /\ delay * step \in Nat
    BY NatTimes
  <1>4. QED
    BY <1>1, <1>2, <1>3

(* With frames of one length, the delay of the erasure is kept exactly:     *)
(* neither the saturated counter nor an update that was skipped while the   *)
(* game was paused lets a weapon go before its time.                        *)
THEOREM EraseKeepsItsDelay ==
  ASSUME NEW short \in Nat, FrameTimes = {short}
  PROVE  HSpec => EraseIsTimely
  <1>1. short \in Nat \ {0} /\ FrameTimes \subseteq short..short
    OBVIOUS
  <1> DEFINE Erases == HFrame /\ present /\ ~present' => age' >= ERASE_DELAY
  <1>2. TypeOK /\ ClockInv(short) /\ ClockInv(short)' /\ [HNext]_hvars => [Erases]_hvars
    <2> SUFFICES ASSUME TypeOK, ClockInv(short), ClockInv(short)', HFrame, present, ~present'
                 PROVE  age' >= ERASE_DELAY
      OBVIOUS
    <2>1. age' * short >= ERASE_DELAY * short
      BY <1>1, FrameDelays
    <2> QED BY <2>1, StepsCancel DEF ClockInv
  <1>3. HSpec => []ClockInv(short)
    BY ClockInvariance
  <1>4. HSpec => []TypeOK
    BY HistoryAddsNothing, TypeCorrect, PTL
  <1> HIDE DEF Erases
  <1>5. HSpec => [][Erases]_hvars
    BY <1>2, <1>3, <1>4, PTL DEF HSpec
  <1>6. QED
    BY <1>5 DEF Erases, EraseIsTimely

(* ChargeIsTimely: with frames of one length, the alternate projectile is   *)
(* earned no sooner than the whole threshold after the weapon was last      *)
(* drawn, fired or pressed in play.  A press in a menu, a pause or a        *)
(* lockout is not counted from, because UpdateOverchargeShot never sees it. *)
THEOREM ChargeKeepsItsDelay ==
  ASSUME NEW short \in Nat, FrameTimes = {short}, CHARGE_THRESHOLD <= ERASE_DELAY
  PROVE  HSpec => ChargeIsTimely
  <1>1. short \in Nat \ {0} /\ FrameTimes \subseteq short..short
    OBVIOUS
  <1> DEFINE Earns == HFrame /\ "AltProjectile" \in st'.uiOCEffect \ st.uiOCEffect
                        => age' >= CHARGE_THRESHOLD
  <1>2. TypeOK /\ ClockInv(short) /\ ClockInv(short)' /\ [HNext]_hvars => [Earns]_hvars
    <2> SUFFICES ASSUME TypeOK, ClockInv(short), ClockInv(short)', HFrame,
                        "AltProjectile" \in st'.uiOCEffect \ st.uiOCEffect
                 PROVE  age' >= CHARGE_THRESHOLD
      OBVIOUS
    <2>1. age' * short >= CHARGE_THRESHOLD * short
      BY <1>1, FrameDelays
    <2> QED BY <2>1, StepsCancel DEF ClockInv
  <1>3. HSpec => []ClockInv(short)
    BY ClockInvariance
  <1>4. HSpec => []TypeOK
    BY HistoryAddsNothing, TypeCorrect, PTL
  <1> HIDE DEF Earns
  <1>5. HSpec => [][Earns]_hvars
    BY <1>2, <1>3, <1>4, PTL DEF HSpec
  <1>6. QED
    BY <1>5 DEF Earns, ChargeIsTimely

-----------------------------------------------------------------------------
(* What a weapon that cannot charge still needs to be cold.                 *)

(* Nothing charges an overheated weapon, one in no hand or one of an actor  *)
(* other than the player: a frame at most takes charge effects away.        *)
LEMMA PlayerRests ==
  ASSUME TypeOK, NEW f \in Frames, NEW ft \in FrameTimes,
         ~IsPlayer \/ ~f.st.bIsActive \/ IsOverheating(f.st)
  PROVE  LET t == PlayerEffects(f, ft).st
         IN  /\ t.fHeatVal = f.st.fHeatVal /\ t.uiTicksPassed = f.st.uiTicksPassed
             /\ t.fCooldownRate = f.st.fCooldownRate /\ t.bIsActive = f.st.bIsActive
             /\ ChargeFlags(t) \subseteq ChargeFlags(f.st)
             /\ IsPlayer /\ ~f.st.bIsActive => ChargeFlags(t) = {}
  <1> DEFINE dropped == [f EXCEPT !.st.uiOCEffect =
                           @ \ {"Overcharge", "AltProjectile", "ChargeDelay"}]
  <1>1. CASE ~IsPlayer \/ (f.st.bIsActive /\ menu = "none")
    <2>1. PlayerEffects(f, ft) = f
      BY <1>1 DEF PlayerEffects, TypeOK
    <2> QED BY <1>1, <2>1
  <1>2. CASE IsPlayer /\ ~(f.st.bIsActive /\ menu = "none")
    <2>1. PlayerEffects(f, ft) = dropped
      BY <1>2 DEF PlayerEffects
    <2>2. /\ dropped.st.fHeatVal = f.st.fHeatVal
          /\ dropped.st.uiTicksPassed = f.st.uiTicksPassed
          /\ dropped.st.fCooldownRate = f.st.fCooldownRate
          /\ dropped.st.bIsActive = f.st.bIsActive
          /\ dropped.st.uiOCEffect =
               f.st.uiOCEffect \ {"Overcharge", "AltProjectile", "ChargeDelay"}
      BY DEF Frames, HeatState
    <2> HIDE DEF dropped
    <2>3. ChargeFlags(dropped.st) = {}
      BY <2>2 DEF ChargeFlags, STOP_COOLDOWN_FLAGS
    <2> QED BY <2>1, <2>2, <2>3
  <1>3. QED
    BY <1>1, <1>2

LEMMA ActivationRests ==
  ASSUME TypeOK, NEW has3D \in BOOLEAN
  PROVE  LET t == Activation(st, has3D)
         IN  /\ t.fHeatVal = st.fHeatVal
             /\ ~(t.bIsActive /\ ~st.bIsActive) => t.fCooldownRate = st.fCooldownRate
             /\ ~Wielded => ~t.bIsActive
  <1>1. st \in HeatState
    BY DEF TypeOK
  <1>2. Same(st, Activation(st, has3D))
    BY DEF Activation, InitializeHeatData, Same, TypeOK, HeatState
  <1>3. CASE ~Wielded
    BY <1>1, <1>3 DEF Activation, HeatState
  <1>4. CASE Wielded /\ (st.bIsActive \/ ~has3D)
    BY <1>1, <1>4 DEF Activation, HeatState
  <1>5. CASE Wielded /\ ~st.bIsActive /\ has3D
    <2> DEFINE drawn == [st EXCEPT !.bIsActive = TRUE]
               awake == [drawn EXCEPT !.uiTicksPassed = 0]
    <2>1. Activation(st, has3D) = InitializeHeatData(awake, config)
      BY <1>5 DEF Activation
    <2>2. awake.bIsActive /\ awake \in HeatState
      <3>1. drawn \in HeatState /\ drawn.bIsActive
        BY <1>1 DEF HeatState
      <3> HIDE DEF drawn
      <3> QED BY <3>1 DEF HeatState
    <2> HIDE DEF awake
    <2>3. InitializeHeatData(awake, config).bIsActive
      BY <2>2 DEF InitializeHeatData, HeatState
    <2> QED BY <1>2, <1>5, <2>1, <2>3 DEF Same
  <1>6. QED
    BY <1>2, <1>3, <1>4, <1>5 DEF Same

(* A frame counts one tick and, once the delay has passed, cools.           *)
LEMMA RestingFrame ==
  ASSUME TypeOK, present, present', menu # "paused",
         NEW down \in BOOLEAN, NEW ft \in FrameTimes, NEW has3D \in BOOLEAN,
         Frame(down, ft, has3D),
         ~IsPlayer \/ ~Wielded \/ IsOverheating(st')
  PROVE  /\ ChargeFlags(st') \subseteq ChargeFlags(st)
         /\ ~(st'.bIsActive /\ ~st.bIsActive) =>
              /\ st'.uiTicksPassed =
                   IF st.uiTicksPassed < MAX_TICKS THEN st.uiTicksPassed + 1
                   ELSE st.uiTicksPassed
              /\ st'.fHeatVal =
                   IF menu = "none" /\ st.uiTicksPassed * ft >= COOLDOWN_DELAY
                        /\ ChargeFlags(st') = {}
                   THEN Greater(0, st.fHeatVal - ft * st.fCooldownRate) ELSE st.fHeatVal
         /\ IsOverheating(st') /\ "Overheat" \in config.effects =>
              st.fHeatVal > COOL_THRESHOLD
         /\ ~Wielded => /\ ~st'.bIsActive
                        /\ IsPlayer => ChargeFlags(st') = {}
                        /\ st.fHeatVal = 0 => st.uiTicksPassed * ft < ERASE_DELAY
  <1> DEFINE k      == [cur |-> down, last |-> key.cur]
             awake  == Activation(st, has3D)
             time   == awake.uiTicksPassed * ft
             heated == IF "Overheat" \in config.effects THEN UpdateOverheat(awake) ELSE awake
             begun  == [st |-> Tick(heated), key |-> k, fireOnce |-> fireOnce]
             frame  == PlayerEffects(begun, ft)
             erased == ~frame.st.bIsActive /\ frame.st.fHeatVal = 0 /\ time >= ERASE_DELAY
  <1>1. awake \in HeatState
    BY ActivationType
  <1>2. /\ awake.uiTicksPassed =
             IF awake.bIsActive /\ ~st.bIsActive THEN 0 ELSE st.uiTicksPassed
        /\ awake.uiOCEffect = st.uiOCEffect
    BY ActivationClock
  <1>3. /\ awake.fHeatVal = st.fHeatVal
        /\ ~(awake.bIsActive /\ ~st.bIsActive) => awake.fCooldownRate = st.fCooldownRate
        /\ ~Wielded => ~awake.bIsActive
    BY ActivationRests
  <1>4. /\ heated \in HeatState
        /\ heated.uiTicksPassed = awake.uiTicksPassed /\ heated.bIsActive = awake.bIsActive
        /\ heated.fHeatVal = awake.fHeatVal /\ heated.fCooldownRate = awake.fCooldownRate
        /\ ChargeFlags(heated) \subseteq ChargeFlags(awake)
    <2> HIDE DEF awake
    <2>1. UpdateOverheat(awake).uiOCEffect
            \in {awake.uiOCEffect, {"Overheat"}, awake.uiOCEffect \ {"Overheat"}}
      BY <1>1 DEF UpdateOverheat, HeatState
    <2>2. LET t == UpdateOverheat(awake)
          IN  /\ t \in HeatState /\ t.uiTicksPassed = awake.uiTicksPassed
              /\ t.bIsActive = awake.bIsActive /\ t.fHeatVal = awake.fHeatVal
              /\ t.fCooldownRate = awake.fCooldownRate
      BY <1>1, UpdateOverheatType DEF UpdateOverheat, HeatState
    <2>3. ChargeFlags(UpdateOverheat(awake)) \subseteq ChargeFlags(awake)
      BY <2>1 DEF ChargeFlags, STOP_COOLDOWN_FLAGS
    <2> QED BY <1>1, <2>2, <2>3
  <1>5. IsOverheating(heated) /\ "Overheat" \in config.effects =>
          awake.fHeatVal > COOL_THRESHOLD
    <2> HIDE DEF awake
    <2>1. awake.fHeatVal \in Nat
      BY <1>1 DEF HeatState
    <2>2. IsOverheating(UpdateOverheat(awake)) => IsHot(awake) \/ ~IsCool(awake)
      BY <1>1 DEF UpdateOverheat, HeatState, IsOverheating
    <2> QED BY <2>1, <2>2 DEF IsHot, IsCool
  <1>6. /\ begun \in Frames
        /\ begun.st.uiTicksPassed =
             IF heated.uiTicksPassed < MAX_TICKS THEN heated.uiTicksPassed + 1
             ELSE heated.uiTicksPassed
        /\ begun.st.bIsActive = heated.bIsActive
        /\ begun.st.uiOCEffect = heated.uiOCEffect
        /\ begun.st.fHeatVal = heated.fHeatVal
        /\ begun.st.fCooldownRate = heated.fCooldownRate
    <2> HIDE DEF heated
    <2>1. k \in KeyState
      BY DEF KeyState, TypeOK
    <2> HIDE DEF k
    <2> QED BY <1>4, <2>1, TickType DEF Frames, TypeOK, Tick, HeatState
  <1>7. /\ st' = CoolDown(frame.st, time, ft) /\ ~erased
    <2>1. /\ present' = ~erased
          /\ st' = IF erased THEN NewState(config) ELSE CoolDown(frame.st, time, ft)
      BY DEF Frame, UpdateActiveWeapons
    <2> HIDE DEF frame, time, erased
    <2> QED BY <2>1
  <1>8. time = awake.uiTicksPassed * ft /\ time \in Nat
    <2> HIDE DEF awake
    <2>1. awake.uiTicksPassed \in Nat
      BY <1>1 DEF HeatState
    <2> QED BY <2>1, NatTimes
  <1> HIDE DEF awake, heated, begun
  <1>9. frame.st \in HeatState /\ (IsOverheating(frame.st) <=> IsOverheating(begun.st))
    <2>1. frame \in Frames /\ Moves(begun.st, frame.st)
      BY <1>6, PlayerEffectsType, PlayerEffectsMoves
    <2> HIDE DEF frame
    <2> QED BY <2>1 DEF Frames, Moves, IsOverheating, ChargeEffects
  <1>10. /\ st'.uiOCEffect = frame.st.uiOCEffect
         /\ st'.uiTicksPassed = frame.st.uiTicksPassed /\ st'.bIsActive = frame.st.bIsActive
         /\ st'.fHeatVal =
              IF menu = "none" /\ time >= COOLDOWN_DELAY /\ ChargeFlags(frame.st) = {}
              THEN Greater(0, frame.st.fHeatVal - ft * frame.st.fCooldownRate)
              ELSE frame.st.fHeatVal
    <2> HIDE DEF frame, time
    <2> QED BY <1>7, <1>9 DEF CoolDown, ChargeFlags, HeatState
  <1>11. ~IsPlayer \/ ~begun.st.bIsActive \/ IsOverheating(begun.st)
    <2> HIDE DEF frame
    <2>1. IsOverheating(st') => IsOverheating(begun.st)
      BY <1>9, <1>10 DEF IsOverheating
    <2> QED BY <1>3, <1>4, <1>6, <2>1
  <1>12. /\ frame.st.fHeatVal = begun.st.fHeatVal
         /\ frame.st.uiTicksPassed = begun.st.uiTicksPassed
         /\ frame.st.fCooldownRate = begun.st.fCooldownRate
         /\ frame.st.bIsActive = begun.st.bIsActive
         /\ ChargeFlags(frame.st) \subseteq ChargeFlags(begun.st)
         /\ IsPlayer /\ ~begun.st.bIsActive => ChargeFlags(frame.st) = {}
    BY <1>6, <1>11, PlayerRests
  <1> HIDE DEF frame, time, k
  <1>13. ChargeFlags(st') = ChargeFlags(frame.st) /\ st'.bIsActive = awake.bIsActive
    BY <1>4, <1>6, <1>10, <1>12 DEF ChargeFlags
  <1>14. ChargeFlags(st') \subseteq ChargeFlags(st)
    <2>1. ChargeFlags(begun.st) = ChargeFlags(heated) /\ ChargeFlags(awake) = ChargeFlags(st)
      BY <1>2, <1>6 DEF ChargeFlags
    <2> QED BY <1>4, <1>12, <1>13, <2>1
  <1>15. ASSUME ~(st'.bIsActive /\ ~st.bIsActive)
         PROVE  /\ st'.uiTicksPassed =
                     IF st.uiTicksPassed < MAX_TICKS THEN st.uiTicksPassed + 1
                     ELSE st.uiTicksPassed
                /\ st'.fHeatVal =
                     IF menu = "none" /\ st.uiTicksPassed * ft >= COOLDOWN_DELAY
                          /\ ChargeFlags(st') = {}
                     THEN Greater(0, st.fHeatVal - ft * st.fCooldownRate) ELSE st.fHeatVal
    <2>1. /\ awake.uiTicksPassed = st.uiTicksPassed
          /\ awake.fCooldownRate = st.fCooldownRate
      BY <1>2, <1>3, <1>13, <1>15
    <2>2. /\ frame.st.fHeatVal = st.fHeatVal /\ frame.st.fCooldownRate = st.fCooldownRate
          /\ time = st.uiTicksPassed * ft
      BY <1>3, <1>4, <1>6, <1>8, <1>12, <2>1
    <2>3. heated.uiTicksPassed = st.uiTicksPassed
      BY <1>4, <2>1
    <2> QED BY <1>6, <1>10, <1>12, <1>13, <2>2, <2>3
  <1>16. IsOverheating(st') /\ "Overheat" \in config.effects => st.fHeatVal > COOL_THRESHOLD
    <2>1. IsOverheating(st') => IsOverheating(heated)
      BY <1>6, <1>9, <1>10 DEF IsOverheating
    <2> QED BY <1>3, <1>5, <2>1
  <1>17. ~Wielded => /\ ~st'.bIsActive
                     /\ IsPlayer => ChargeFlags(st') = {}
                     /\ st.fHeatVal = 0 => st.uiTicksPassed * ft < ERASE_DELAY
    <2> SUFFICES ASSUME ~Wielded
        PROVE /\ ~st'.bIsActive
              /\ IsPlayer => ChargeFlags(st') = {}
              /\ st.fHeatVal = 0 => st.uiTicksPassed * ft < ERASE_DELAY
      OBVIOUS
    <2>1. ~awake.bIsActive /\ ~begun.st.bIsActive /\ ~frame.st.bIsActive
      BY <1>3, <1>4, <1>6, <1>12
    <2>2. st.fHeatVal = 0 => ~(time >= ERASE_DELAY)
      BY <1>3, <1>4, <1>6, <1>7, <1>12, <2>1
    <2>3. time = st.uiTicksPassed * ft
      BY <1>2, <1>8, <2>1
    <2> QED BY <1>8, <1>12, <1>13, <2>1, <2>2, <2>3
  <1>18. QED
    BY <1>14, <1>15, <1>16, <1>17

(* So it needs a frame less, as long as there is heat or delay left.        *)
LEMMA FrameWearsOff ==
  ASSUME NEW s \in HeatState, NEW t \in HeatState, NEW ft \in FrameTimes,
         NEW delay \in Nat, COOLDOWN_DELAY <= delay, delay <= MAX_TICKS,
         NEW cools \in BOOLEAN,
         t.uiTicksPassed = IF s.uiTicksPassed < MAX_TICKS THEN s.uiTicksPassed + 1
                           ELSE s.uiTicksPassed,
         t.fHeatVal = IF cools /\ s.uiTicksPassed * ft >= COOLDOWN_DELAY
                      THEN Greater(0, s.fHeatVal - ft * s.fCooldownRate) ELSE s.fHeatVal
  PROVE  /\ Remaining(t, delay) <= Remaining(s, delay)
         /\ /\ cools /\ s.fCooldownRate > 0
            /\ s.fHeatVal > 0 \/ s.uiTicksPassed < delay
            => Remaining(t, delay) < Remaining(s, delay)
  <1> DEFINE n    == s.uiTicksPassed
             drop == ft * s.fCooldownRate
  <1>1. /\ n \in Nat /\ n <= MAX_TICKS /\ s.fHeatVal \in Nat /\ s.fCooldownRate \in Nat
        /\ t.fHeatVal \in Nat /\ t.uiTicksPassed \in Nat /\ ft \in Nat /\ 1 <= ft
    BY DEF HeatState
  <1>2. drop \in Nat /\ n * ft \in Nat
    BY <1>1, NatTimes
  <1>3. s.fCooldownRate > 0 => drop >= 1
    <2>1. s.fCooldownRate * 1 <= s.fCooldownRate * ft
      BY <1>1, TimesOrdered
    <2>2. s.fCooldownRate * 1 = s.fCooldownRate /\ s.fCooldownRate * ft = drop
      BY <1>1
    <2> HIDE DEF drop
    <2> QED BY <1>1, <1>2, <2>1, <2>2
  <1>4. n <= n * ft
    <2>1. n * 1 <= n * ft
      BY <1>1, TimesOrdered
    <2> QED BY <1>1, <2>1
  <1>5. t.fHeatVal <= s.fHeatVal
    <2> HIDE DEF drop
    <2>1. t.fHeatVal \in {s.fHeatVal, Greater(0, s.fHeatVal - drop)}
      BY DEF drop
    <2> QED BY <1>1, <1>2, <2>1 DEF Greater
  <1>6. CASE n < delay
    <2>1. t.uiTicksPassed = n + 1
      BY <1>1, <1>6
    <2>2. /\ Remaining(s, delay) = delay - n + s.fHeatVal
          /\ Remaining(t, delay) = delay - n - 1 + t.fHeatVal
      BY <1>1, <1>6, <2>1 DEF Remaining, Greater
    <2> HIDE DEF n
    <2> QED BY <1>1, <1>5, <2>2
  <1>7. CASE n >= delay
    <2>1. t.uiTicksPassed >= delay
      BY <1>1, <1>7
    <2>2. Remaining(s, delay) = s.fHeatVal /\ Remaining(t, delay) = t.fHeatVal
      BY <1>1, <1>7, <2>1 DEF Remaining, Greater
    <2>3. n * ft >= COOLDOWN_DELAY
      BY <1>1, <1>2, <1>4, <1>7
    <2>4. cools => t.fHeatVal = Greater(0, s.fHeatVal - drop)
      BY <2>3
    <2> HIDE DEF n, drop
    <2>5. cools /\ s.fCooldownRate > 0 /\ s.fHeatVal > 0 => t.fHeatVal < s.fHeatVal
      BY <1>1, <1>2, <1>3, <2>4 DEF Greater
    <2> QED BY <1>1, <1>5, <1>7, <2>2, <2>5 DEF n
  <1>8. QED
    BY <1>1, <1>6, <1>7

(* Only the player's weapon charges.                                        *)
OnlyPlayerCharges == ~IsPlayer => ChargeFlags(st) = {}

(* What the two variants rest on.  An attack is under way only in hands     *)
(* that hold the weapon: to put it away, or to die, cancels the attack.     *)
RestInv ==
  /\ TypeOK /\ LockoutClearsCharge /\ Bare
  /\ OnlyPlayerCharges
  /\ anim = "firing" => Wielded

LEMMA PlayerChargesStep ==
  ASSUME TypeOK, Bare, OnlyPlayerCharges, [Next]_vars
  PROVE  OnlyPlayerCharges'
  <1> SUFFICES ASSUME ~IsPlayer PROVE ChargeFlags(st') = {}
    BY DEF OnlyPlayerCharges, ChargeFlags
  <1>1. ChargeFlags(st) = {}
    BY DEF OnlyPlayerCharges
  <1>2. CASE FrameStep
    <2> PICK down \in BOOLEAN, ft \in FrameTimes, has3D \in BOOLEAN : Frame(down, ft, has3D)
      BY <1>2 DEF FrameStep
    <2>1. CASE present /\ menu # "paused" /\ present'
      BY <1>1, <2>1, RestingFrame
    <2>2. CASE ~present'
      BY <2>2, BareStep DEF Bare, ChargeFlags
    <2>3. CASE ~(present /\ menu # "paused")
      BY <1>1, <2>3 DEF Frame, instance
    <2> QED BY <2>1, <2>2, <2>3
  <1>3. ASSUME NEW s \in HeatState, Same(st, s) \/ \E c \in Configs : s = NewState(c)
        PROVE  ChargeFlags(s) = {}
    BY <1>1, <1>3 DEF Same, NewState, ChargeFlags
  <1>4. CASE ActorUpdate
    <2>1. st' = HeatOf.st
      BY <1>4 DEF ActorUpdate
    <2> QED BY <1>3, <2>1, HeatOfSame, HeatOfType
  <1>5. CASE ShotStep
    <2> PICK s \in HeatState :
          /\ Same(st, s) \/ \E c \in Configs : s = NewState(c)
          /\ st'.uiOCEffect \ {"SelfDamage", "AltProjectile"}
               = s.uiOCEffect \ {"SelfDamage", "AltProjectile"}
      BY <1>5, ShotEffects
    <2>1. ChargeFlags(st') = ChargeFlags(s)
      BY DEF ChargeFlags, STOP_COOLDOWN_FLAGS
    <2> QED BY <1>3, <2>1
  <1>6. CASE PostLoadGame
    BY <1>6 DEF PostLoadGame, NewState, ChargeFlags
  <1>7. CASE \/ PlayFireAnimation \/ Unequip \/ Equip \/ Die \/ UNCHANGED vars
             \/ \E m \in Menus : SetMenu(m)
             \/ \E a \in Ammo : SwapAmmo(a)
    <2>1. st' = st
      BY <1>7 DEF PlayFireAnimation, SetMenu, Unequip, Equip, SwapAmmo, Die, vars, instance
    <2> QED BY <1>1, <2>1
  <1>8. QED
    BY <1>2, <1>4, <1>5, <1>6, <1>7 DEF Next

LEMMA ShotLeaves == ShotStep => anim = "firing" /\ anim' = "fired"
  BY DEF ShotStep, FireShot

LEMMA FiringInHand ==
  ASSUME anim = "firing" => Wielded, [Next]_vars, anim' = "firing"
  PROVE  Wielded'
  <1>1. CASE PlayFireAnimation
    BY <1>1 DEF PlayFireAnimation, world, Wielded
  <1>2. CASE FrameStep \/ ActorUpdate \/ UNCHANGED vars
    <2>1. anim' = anim /\ UNCHANGED world
      <3>1. FrameStep => anim' = anim /\ UNCHANGED world
        BY DEF FrameStep, Frame
      <3> QED BY <1>2, <3>1 DEF ActorUpdate, engine, vars
    <2> QED BY <2>1 DEF world, Wielded
  <1>3. CASE ShotStep
    BY <1>3, ShotLeaves
  <1>4. CASE Equip \/ (\E m \in Menus : SetMenu(m)) \/ (\E a \in Ammo : SwapAmmo(a))
    BY <1>4 DEF Equip, SetMenu, SwapAmmo, engine, Wielded
  <1>5. CASE Unequip \/ Die \/ PostLoadGame
    BY <1>5 DEF Unequip, Die, PostLoadGame
  <1>6. QED
    BY <1>1, <1>2, <1>3, <1>4, <1>5 DEF Next

LEMMA RestInvariance == Spec => []RestInv
  <1> DEFINE InHand == anim = "firing" => Wielded
  <1>1. Init => Bare /\ OnlyPlayerCharges /\ InHand
    BY DEF Init, NewState, Bare, OnlyPlayerCharges, ChargeFlags
  <1>2. TypeOK /\ Bare /\ [Next]_vars => Bare'
    BY BareStep
  <1>3. TypeOK /\ Bare /\ OnlyPlayerCharges /\ [Next]_vars => OnlyPlayerCharges'
    BY PlayerChargesStep
  <1>4. InHand /\ [Next]_vars => InHand'
    BY FiringInHand
  <1>5. TypeOK /\ LockoutClearsCharge /\ Bare /\ OnlyPlayerCharges /\ InHand => RestInv
    BY DEF RestInv
  <1> HIDE DEF InHand
  <1>6. QED
    BY <1>1, <1>2, <1>3, <1>4, <1>5, TypeCorrect, LockoutClears, PTL DEF Spec

(* Between frames, what is left to wait for changes only with a shot.       *)
LEMMA RestingStep ==
  ASSUME RestInv, [Next]_vars, ~FrameStep, ~ShotStep, present, present',
         NEW delay \in Nat
  PROVE  Remaining(st', delay) = Remaining(st, delay)
  <1>1. CASE ActorUpdate
    <2>1. st' = HeatOf.st
      BY <1>1 DEF ActorUpdate
    <2>2. /\ HeatOf.st.uiTicksPassed = st.uiTicksPassed
          /\ HeatOf.st.fHeatVal = st.fHeatVal
      BY DEF HeatOf, InitializeHeatData, RestInv, TypeOK, HeatState
    <2> QED BY <2>1, <2>2 DEF Remaining
  <1>2. CASE PostLoadGame
    BY <1>2 DEF PostLoadGame
  <1>3. CASE \/ PlayFireAnimation \/ Unequip \/ Equip \/ Die \/ UNCHANGED vars
             \/ \E m \in Menus : SetMenu(m)
             \/ \E a \in Ammo : SwapAmmo(a)
    <2>1. st' = st
      BY <1>3 DEF PlayFireAnimation, SetMenu, Unequip, Equip, SwapAmmo, Die, vars, instance
    <2> QED BY <2>1
  <1>4. QED
    BY <1>1, <1>2, <1>3 DEF Next

(* A frame in which the weapon is neither drawn nor charged.                *)
LEMMA RestingFrameStep ==
  ASSUME RestInv, FrameStep, present, present', st' \in HeatState,
         ~IsPlayer \/ ~Wielded \/ IsOverheating(st'), ~(st'.bIsActive /\ ~st.bIsActive),
         IsOverheating(st) \/ ~Wielded,
         NEW delay \in Nat, COOLDOWN_DELAY <= delay, delay <= MAX_TICKS
  PROVE  /\ Remaining(st', delay) <= Remaining(st, delay)
         /\ /\ CoolingFrame
            /\ \/ ~Wielded /\ ERASE_DELAY <= delay
               \/ IsOverheating(st') /\ "Overheat" \in config.effects
            => Remaining(st', delay) < Remaining(st, delay)
  <1> PICK down \in BOOLEAN, ft \in FrameTimes, has3D \in BOOLEAN : Frame(down, ft, has3D)
    BY DEF FrameStep
  <1>1. st \in HeatState /\ TypeOK /\ st.fHeatVal \in Nat /\ st.uiTicksPassed \in Nat
    BY DEF RestInv, TypeOK, HeatState
  <1>2. CASE menu = "paused"
    <2>1. st' = st
      BY <1>2 DEF Frame, instance
    <2>2. Remaining(st, delay) \in Int
      BY <1>1 DEF Remaining, Greater
    <2> QED BY <1>2, <2>1, <2>2 DEF CoolingFrame
  <1>3. CASE menu # "paused"
    <2> DEFINE cools == menu = "none" /\ ChargeFlags(st') = {}
    <2>1. /\ ChargeFlags(st') \subseteq ChargeFlags(st)
          /\ st'.uiTicksPassed =
               IF st.uiTicksPassed < MAX_TICKS THEN st.uiTicksPassed + 1
               ELSE st.uiTicksPassed
          /\ st'.fHeatVal =
               IF menu = "none" /\ st.uiTicksPassed * ft >= COOLDOWN_DELAY
                    /\ ChargeFlags(st') = {}
               THEN Greater(0, st.fHeatVal - ft * st.fCooldownRate) ELSE st.fHeatVal
          /\ IsOverheating(st') /\ "Overheat" \in config.effects =>
               st.fHeatVal > COOL_THRESHOLD
          /\ ~Wielded => /\ IsPlayer => ChargeFlags(st') = {}
                         /\ st.fHeatVal = 0 => st.uiTicksPassed * ft < ERASE_DELAY
      BY <1>1, <1>3, RestingFrame
    <2>2. /\ cools \in BOOLEAN
          /\ st'.fHeatVal =
               IF cools /\ st.uiTicksPassed * ft >= COOLDOWN_DELAY
               THEN Greater(0, st.fHeatVal - ft * st.fCooldownRate) ELSE st.fHeatVal
      BY <2>1
    <2>3. ChargeFlags(st') = {}
      <3>1. CASE ~Wielded
        BY <2>1, <3>1 DEF RestInv, OnlyPlayerCharges, TypeOK
      <3>2. CASE IsOverheating(st)
        BY <2>1, <3>2 DEF RestInv, LockoutClearsCharge, ChargeFlags, STOP_COOLDOWN_FLAGS
      <3> QED BY <3>1, <3>2
    <2>4. ASSUME \/ ~Wielded /\ ERASE_DELAY <= delay
                 \/ IsOverheating(st') /\ "Overheat" \in config.effects
          PROVE  st.fHeatVal > 0 \/ st.uiTicksPassed < delay
      <3>1. CASE ~Wielded /\ ERASE_DELAY <= delay /\ st.fHeatVal = 0
        <4>1. st.uiTicksPassed * 1 <= st.uiTicksPassed * ft
          BY <1>1, TimesOrdered
        <4>2. st.uiTicksPassed * ft \in Nat /\ st.uiTicksPassed * ft < ERASE_DELAY
          BY <1>1, <2>1, <3>1, NatTimes
        <4> QED BY <1>1, <3>1, <4>1, <4>2
      <3>2. CASE ~(~Wielded /\ ERASE_DELAY <= delay) \/ st.fHeatVal # 0
        BY <1>1, <2>1, <2>4, <3>2
      <3> QED BY <3>1, <3>2
    <2> HIDE DEF cools
    <2>5. /\ Remaining(st', delay) <= Remaining(st, delay)
          /\ /\ cools /\ st.fCooldownRate > 0
             /\ st.fHeatVal > 0 \/ st.uiTicksPassed < delay
             => Remaining(st', delay) < Remaining(st, delay)
      BY <1>1, <2>1, <2>2, FrameWearsOff
    <2>6. CoolingFrame => cools /\ st.fCooldownRate > 0
      BY <2>3 DEF CoolingFrame, cools
    <2> QED BY <2>4, <2>5, <2>6
  <1>4. QED
    BY <1>2, <1>3

(* The variant of a lockout: every frame outside menus leaves less of the   *)
(* delay or of the heat, whatever the configuration, its ammo and perks,    *)
(* and only a shot and the drawing of the weapon restart the delay.  With   *)
(* LockoutStopsTheGun, which allows one shot, a lockout of a weapon in hand *)
(* is over after a bounded number of such frames.                           *)
THEOREM LockoutsWearOff ==
  ASSUME COOLDOWN_DELAY <= MAX_TICKS
  PROVE  Spec => LockoutWearsOff
  <1> DEFINE Sooner ==
        IsOverheating(st) /\ IsOverheating(st') =>
          \/ anim = "firing" /\ anim' = "fired"
          \/ ~st.bIsActive /\ st'.bIsActive
          \/ /\ Remaining(st', COOLDOWN_DELAY) <= Remaining(st, COOLDOWN_DELAY)
             /\ CoolingFrame /\ "Overheat" \in config.effects =>
                  Remaining(st', COOLDOWN_DELAY) < Remaining(st, COOLDOWN_DELAY)
  <1>1. RestInv /\ RestInv' /\ [Next]_vars => [Sooner]_vars
    <2> SUFFICES ASSUME RestInv, RestInv', [Next]_vars, IsOverheating(st), IsOverheating(st'),
                        ~(anim = "firing" /\ anim' = "fired"),
                        ~(~st.bIsActive /\ st'.bIsActive)
        PROVE  /\ Remaining(st', COOLDOWN_DELAY) <= Remaining(st, COOLDOWN_DELAY)
               /\ CoolingFrame /\ "Overheat" \in config.effects =>
                    Remaining(st', COOLDOWN_DELAY) < Remaining(st, COOLDOWN_DELAY)
      OBVIOUS
    <2>1. present /\ present' /\ st \in HeatState /\ st' \in HeatState
      BY DEF RestInv, Bare, TypeOK, IsOverheating
    <2>2. ~ShotStep
      BY ShotLeaves
    <2>3. CASE FrameStep
      BY <2>1, <2>3, RestingFrameStep
    <2>4. CASE ~FrameStep
      <3>1. Remaining(st', COOLDOWN_DELAY) = Remaining(st, COOLDOWN_DELAY)
        BY <2>1, <2>2, <2>4, RestingStep
      <3>2. Remaining(st, COOLDOWN_DELAY) \in Int
        BY <2>1 DEF Remaining, Greater, HeatState
      <3> QED BY <2>4, <3>1, <3>2 DEF CoolingFrame
    <2> QED BY <2>3, <2>4
  <1> HIDE DEF Sooner
  <1>2. Spec => [][Sooner]_vars
    BY <1>1, RestInvariance, PTL DEF Spec
  <1>3. QED
    BY <1>2 DEF Sooner, LockoutWearsOff

(* The variant of a weapon that was put away: every frame outside menus     *)
(* leaves less of the delays or of the heat, until it is erased, and        *)
(* nothing takes it back while the weapon is away.                          *)
THEOREM AbandonedWearOff ==
  ASSUME AwayDelay <= MAX_TICKS
  PROVE  Spec => AbandonedWearsOff
  <1> DEFINE Sooner ==
        ~Wielded /\ present /\ present' =>
          /\ Remaining(st', AwayDelay) <= Remaining(st, AwayDelay)
          /\ CoolingFrame => Remaining(st', AwayDelay) < Remaining(st, AwayDelay)
  <1>0. /\ AwayDelay \in Nat /\ COOLDOWN_DELAY <= AwayDelay /\ ERASE_DELAY <= AwayDelay
    BY DEF AwayDelay, Greater
  <1>1. RestInv /\ RestInv' /\ [Next]_vars => [Sooner]_vars
    <2> SUFFICES ASSUME RestInv, RestInv', [Next]_vars, ~Wielded, present, present'
        PROVE  /\ Remaining(st', AwayDelay) <= Remaining(st, AwayDelay)
               /\ CoolingFrame => Remaining(st', AwayDelay) < Remaining(st, AwayDelay)
      OBVIOUS
    <2>1. st \in HeatState /\ st' \in HeatState /\ TypeOK
      BY DEF RestInv, TypeOK
    <2>2. ~ShotStep
      BY ShotLeaves DEF RestInv
    <2>3. CASE FrameStep
      <3> PICK down \in BOOLEAN, ft \in FrameTimes, has3D \in BOOLEAN : Frame(down, ft, has3D)
        BY <2>3 DEF FrameStep
      <3>1. ~(st'.bIsActive /\ ~st.bIsActive)
        <4>1. CASE menu = "paused"
          BY <4>1 DEF Frame, instance
        <4>2. CASE menu # "paused"
          BY <2>1, <4>2, RestingFrame
        <4> QED BY <4>1, <4>2
      <3> QED BY <1>0, <2>1, <2>3, <3>1, RestingFrameStep
    <2>4. CASE ~FrameStep
      <3>1. Remaining(st', AwayDelay) = Remaining(st, AwayDelay)
        BY <1>0, <2>2, <2>4, RestingStep
      <3>2. Remaining(st, AwayDelay) \in Int
        BY <1>0, <2>1 DEF Remaining, Greater, HeatState
      <3> QED BY <2>4, <3>1, <3>2 DEF CoolingFrame
    <2> QED BY <2>3, <2>4
  <1> HIDE DEF Sooner
  <1>2. Spec => [][Sooner]_vars
    BY <1>1, RestInvariance, PTL DEF Spec
  <1>3. QED
    BY <1>2 DEF Sooner, AbandonedWearsOff
=============================================================================
