--------------------------- MODULE BaseFormProofs ---------------------------
(***************************************************************************)
(* The weapon forms survive any nesting of the hooks, of any depth.  Each  *)
(* frame of the stack remembers the forms it found and the forms it called *)
(* the engine with; the invariant is that these form a chain: a frame      *)
(* found what the frame below it had left, and differs from it only where  *)
(* it will restore.                                                        *)
(***************************************************************************)
EXTENDS BaseForm, SequenceTheorems, TLAPS

USE FormsAssumption

LEMMA NatTimes == \A x, y \in Nat : x * y \in Nat
  OBVIOUS

LEMMA TimesOrdered ==
  ASSUME NEW x \in Nat, NEW y \in Nat, NEW z \in Nat, y <= z
  PROVE  x * y <= x * z
  <1>1. x * (z - y) \in Nat
    BY z - y \in Nat, NatTimes
  <1>2. x * z = x * y + x * (z - y)
    OBVIOUS
  <1>3. x * y \in Nat /\ x * z \in Nat
    BY NatTimes
  <1>4. QED
    BY <1>1, <1>2, <1>3

LEMMA ClampType ==
  ASSUME NEW x \in Int, NEW a \in Nat, NEW b \in Nat
  PROVE  /\ Clamp(x, a, b) \in Nat
         /\ a <= b => Clamp(x, a, b) \in a..b
  BY DEF Clamp, Least, Most

LEMMA DivType ==
  ASSUME NEW x \in Nat, NEW d \in Nat \ {0}
  PROVE  x \div d \in Nat
  OBVIOUS

(* Percentages of a natural number are natural numbers.                     *)
LEMMA InterpolateType ==
  ASSUME NEW base \in Nat, NEW min \in Nat, NEW max \in Nat, NEW h \in Nat
  PROVE  InterpolateBase(base, min, max, h) \in Nat
  <1>1. min * FULL \in Nat /\ max * FULL \in Nat
    BY NatTimes
  <1>2. min * FULL + (max - min) * h \in Int
    BY <1>1
  <1> DEFINE c == Clamp(min * FULL + (max - min) * h, min * FULL, max * FULL)
  <1>3. c \in Nat
    BY <1>1, <1>2, ClampType
  <1>4. base * c \in Nat
    BY <1>3, NatTimes
  <1>5. 100 * FULL \in Nat \ {0}
    OBVIOUS
  <1> HIDE DEF c
  <1>6. (base * c) \div (100 * FULL) \in Nat
    BY <1>4, <1>5, DivType
  <1>7. QED
    BY <1>6 DEF InterpolateBase, c

(* Rounding what lies below m + 1/2 gives at most m.                        *)
LEMMA RoundedBelow ==
  ASSUME NEW d \in Nat \ {0}, NEW m \in Nat, NEW x \in Nat, x <= m * d
  PROVE  (2 * x + d) \div (2 * d) \in 0..m
  <1> DEFINE q == (2 * x + d) \div (2 * d)
  <1>1. q \in Nat
    BY DivType
  <1>2. q * (2 * d) <= 2 * x + d
    OBVIOUS
  <1>3. ASSUME q > m PROVE FALSE
    <2>1. m * d \in Nat
      BY NatTimes
    <2>2. (m + 1) * (2 * d) <= q * (2 * d)
      <3>1. (2 * d) * (m + 1) <= (2 * d) * q
        BY <1>1, <1>3, TimesOrdered
      <3>2. QED
        BY <3>1, <1>1
    <2>3. (m + 1) * (2 * d) = 2 * (m * d) + 2 * d
      OBVIOUS
    <2>4. QED
      BY <1>2, <2>1, <2>2, <2>3
  <1>4. QED
    BY <1>1, <1>3

(* A scaled value keeps to its byte.                                        *)
LEMMA ScaleType ==
  ASSUME NEW base \in Nat, NEW min \in 0..BYTE-1, NEW max \in 0..BYTE-1, NEW h \in Nat
  PROVE  ScaleByPercentRange(base, min, max, h) \in 0..BYTE-1
  <1> DEFINE r == Clamp(h, 0, FULL)
             x == min * FULL + (max - min) * r
             m == IF min <= max THEN max ELSE min
  <1>1. r \in 0..FULL
    BY ClampType
  <1>2. m \in 0..BYTE-1 /\ m \in Nat /\ 0 \in 0..BYTE-1
    OBVIOUS
  <1> HIDE DEF r
  <1>3. x \in Nat /\ x <= m * FULL
    <2>1. min * FULL \in Nat /\ max * FULL \in Nat /\ min * r \in Nat /\ max * r \in Nat
      BY <1>1, NatTimes
    <2>2. CASE min <= max
      <3>1. (max - min) * r <= (max - min) * FULL /\ (max - min) * r \in Nat
        BY <1>1, <2>2, TimesOrdered, NatTimes, max - min \in Nat
      <3>2. (max - min) * FULL = max * FULL - min * FULL
        OBVIOUS
      <3>3. QED
        BY <2>1, <2>2, <3>1, <3>2
    <2>3. CASE max < min
      <3>1. (min - max) * r <= (min - max) * FULL /\ (min - max) * r \in Nat
        BY <1>1, <2>3, TimesOrdered, NatTimes, min - max \in Nat
      <3>2. (min - max) * FULL = min * FULL - max * FULL /\ (max - min) * r = 0 - (min - max) * r
        BY <1>1
      <3>3. QED
        BY <2>1, <2>3, <3>1, <3>2
    <2>4. QED
      BY <2>2, <2>3
  <1> HIDE DEF x, m
  <1>4. (2 * x + FULL) \div (2 * FULL) \in 0..m
    BY <1>2, <1>3, RoundedBelow
  <1>5. QED
    BY <1>2, <1>4 DEF ScaleByPercentRange, x, r

-----------------------------------------------------------------------------
(* Types                                                                    *)

Bounded(forms) ==
  /\ forms \in [Weapons -> Form]
  /\ \A w \in Weapons : forms[w].ammoUse < BYTE /\ forms[w].numProjectiles < BYTE

(* The hooks change the fields of one weapon only, and of those only the    *)
(* ones they save.                                                          *)
Differ(f) ==
  /\ \A w \in Weapons \ {f.weapon} : f.edited[w] = f.og[w]
  /\ \A x \in Fields \ f.saves : f.edited[f.weapon][x] = f.og[f.weapon][x]

FrameOK(f) == Bounded(f.og) /\ Bounded(f.edited) /\ Differ(f)

Typed == TypeOK /\ \A i \in DOMAIN stack : FrameOK(stack[i])

LEMMA ScaledType ==
  ASSUME NEW base \in Nat, NEW min \in 0..BYTE-1, NEW max \in 0..BYTE-1,
         NEW threshold \in 0..BYTE-1, NEW h \in Nat
  PROVE  Scaled(base, min, max, threshold, h) \in 0..BYTE-1
  BY ScaleType DEF Scaled

LEMMA WithAnimMultType ==
  ASSUME Bounded(form), NEW a \in Actors, WeaponOf[a] \in Configured, heat[a] \in Nat
  PROVE  /\ Bounded(WithAnimMult(a))
         /\ \A w \in Weapons \ {WeaponOf[a]} : WithAnimMult(a)[w] = form[w]
         /\ \A x \in Fields \ {"animAttackMult"} :
              WithAnimMult(a)[WeaponOf[a]][x] = form[WeaponOf[a]][x]
  <1> DEFINE w == WeaponOf[a]
             c == Config[w]
             v == InterpolateBase(form[w].animAttackMult, c.minFireRate, c.maxFireRate, heat[a])
  <1>1. w \in Weapons /\ form[w] \in Form /\ c \in HeatConfiguration
    BY DEF Bounded
  <1>2. form[w].animAttackMult \in Nat
    BY <1>1 DEF Form, Fields, ShotFields
  <1>3. v \in Nat
    BY <1>1, <1>2, InterpolateType DEF HeatConfiguration
  <1>4. WithAnimMult(a) = [form EXCEPT ![w].animAttackMult = v]
    BY <1>1 DEF WithAnimMult
  <1> HIDE DEF v
  <1>5. QED
    BY <1>1, <1>3, <1>4 DEF Bounded, Form, Fields, ShotFields

LEMMA ShotFormType ==
  ASSUME Bounded(form), NEW a \in Actors, WeaponOf[a] \in Configured,
         NEW h \in Nat, NEW ammo \in 0..BYTE-1
  PROVE  /\ Bounded(ShotForm(a, h, ammo))
         /\ \A w \in Weapons \ {WeaponOf[a]} : ShotForm(a, h, ammo)[w] = form[w]
         /\ \A x \in Fields \ ShotFields :
              ShotForm(a, h, ammo)[WeaponOf[a]][x] = form[WeaponOf[a]][x]
  <1> DEFINE w == WeaponOf[a]
             c == Config[w]
             use == IF a \in charged THEN (3 * ammo) % BYTE ELSE ammo
             p == Scaled(form[w].numProjectiles, c.iMinProjectiles, c.iMaxProjectiles,
                         c.iAddProjectileThreshold, h)
             d == InterpolateBase(form[w].usAttackDamage, c.minDamage, c.maxDamage, h)
             f1 == [form EXCEPT ![w].ammoUse = use]
             f2 == [f1 EXCEPT ![w].numProjectiles = p]
  <1>1. w \in Weapons /\ form[w] \in Form /\ c \in HeatConfiguration
    BY DEF Bounded
  <1>2. form[w].numProjectiles \in Nat /\ form[w].usAttackDamage \in Nat
    BY <1>1 DEF Form, Fields, ShotFields
  <1>3. use \in 0..BYTE-1
    OBVIOUS
  <1>4. p \in 0..BYTE-1
    BY <1>1, <1>2, ScaledType DEF HeatConfiguration
  <1>5. d \in Nat
    BY <1>1, <1>2, InterpolateType DEF HeatConfiguration
  <1>6. f2[w].usAttackDamage = form[w].usAttackDamage
        /\ f1[w].numProjectiles = form[w].numProjectiles
    BY <1>1 DEF Bounded, Form, Fields, ShotFields
  <1>7. ShotForm(a, h, ammo) = [f2 EXCEPT ![w].usAttackDamage = d]
    BY <1>1, <1>6 DEF ShotForm, Bounded, Form, Fields, ShotFields
  <1> HIDE DEF use, p, d
  <1>8. /\ Bounded(f1)
        /\ \A v \in Weapons \ {w} : f1[v] = form[v]
        /\ \A x \in Fields \ ShotFields : f1[w][x] = form[w][x]
    BY <1>1, <1>3 DEF Bounded, Form, Fields, ShotFields
  <1> HIDE DEF f1
  <1>9. /\ Bounded(f2)
        /\ \A v \in Weapons \ {w} : f2[v] = form[v]
        /\ \A x \in Fields \ ShotFields : f2[w][x] = form[w][x]
    BY <1>1, <1>4, <1>8 DEF Bounded, Form, Fields, ShotFields
  <1> HIDE DEF f2
  <1>10. QED
    BY <1>1, <1>5, <1>7, <1>9 DEF Bounded, Form, Fields, ShotFields

LEMMA UpdatePerksType ==
  ASSUME NEW a \in Actors, WeaponOf[a] \in Configured,
         NEW ammo \in 0..BYTE-1, NEW h \in Nat, NEW luck \in BOOLEAN
  PROVE  /\ UpdatePerks(a, ammo, h, luck).ammo \in 0..BYTE-1
         /\ UpdatePerks(a, ammo, h, luck).heat \in Nat
  BY DEF UpdatePerks, Most, HeatConfiguration

-----------------------------------------------------------------------------
(* Steps                                                                    *)

(* What a hook may be entered with.                                         *)
Entry(a, saves, edited, left) ==
  /\ a \in Actors /\ saves \subseteq Fields /\ left \in Nat
  /\ Bounded(edited)
  /\ \A w \in Weapons \ {WeaponOf[a]} : edited[w] = form[w]
  /\ \A x \in Fields \ saves : edited[WeaponOf[a]][x] = form[WeaponOf[a]][x]

NewFrame(a, hook, saves, edited, left, charge) ==
  [hook |-> hook, actor |-> a, weapon |-> WeaponOf[a], saves |-> saves, og |-> form,
   edited |-> edited, left |-> left, charge |-> charge, alternates |-> 0]

(* A step is a stack step if it enters a hook, launches a projectile,       *)
(* returns, or leaves forms and stack alone.                                *)
Entered ==
  \E a \in Actors, hook \in {"attack", "null", "mult", "fire", "plain"},
     saves \in SUBSET Fields, edited \in [Weapons -> Form], left \in Nat, charge \in BOOLEAN :
    /\ Entry(a, saves, edited, left)
    /\ form' = edited
    /\ stack' = Append(stack, NewFrame(a, hook, saves, edited, left, charge))
    /\ charge => a \in charged
    /\ left > 0 => charge = (a \in charged)
    /\ UNCHANGED charged

Launched ==
  /\ stack # <<>> /\ Top.left > 0
  /\ charged' = charged \ {Top.actor}
  /\ \E alternate \in BOOLEAN :
       /\ alternate => Top.actor \in charged
       /\ stack' = [stack EXCEPT ![Len(stack)].left = @ - 1,
                                 ![Len(stack)].alternates = IF alternate THEN @ + 1 ELSE @]
  /\ UNCHANGED form

Returned == Return

Still ==
  /\ UNCHANGED <<form, stack>>
  /\ stack # <<>> => UNCHANGED charged

(* A weapon without a configuration has no heat and no effects.             *)
Unconfigured ==
  \A a \in Actors : WeaponOf[a] \notin Configured => heat[a] = NoHeat /\ a \notin charged

LEMMA BoundedForm == TypeOK => Bounded(form)
  BY DEF TypeOK, Bounded

LEMMA FireSteps ==
  ASSUME TypeOK, Unconfigured, NEW a \in Actors, FireWeaponWrapper(a)
  PROVE  Entered /\ heat' \in [Actors -> Nat \cup {NoHeat}]
         /\ (WeaponOf[a] \notin Configured => heat' = heat)
         /\ \A b \in Actors \ {a} : heat'[b] = heat[b]
  <1> DEFINE w == WeaponOf[a]
  <1>1. w \in Weapons /\ Bounded(form) /\ form[w] \in Form
        /\ form[w].ammoUse \in Nat /\ form[w].numProjectiles \in Nat
    BY BoundedForm DEF Bounded, Form, Fields, ShotFields
  <1>2. CASE FirePlain(a)
    <2>1. Entry(a, {}, form, form[w].numProjectiles)
      BY <1>1 DEF Entry
    <2>2. a \notin charged
      BY <1>2 DEF Unconfigured, FirePlain
    <2>3. Entered
      <3>1. form \in [Weapons -> Form] /\ form[w].numProjectiles \in Nat
            /\ {} \in SUBSET Fields /\ FALSE \in BOOLEAN /\ (FALSE => a \in charged)
            /\ FALSE = (a \in charged)
        BY <1>1, <2>2 DEF Bounded
      <3>2. /\ form' = form /\ UNCHANGED charged
            /\ stack' = Append(stack, NewFrame(a, "plain", {}, form, form[w].numProjectiles, FALSE))
        BY <1>2 DEF FirePlain, Enter, NewFrame
      <3>3. QED
        BY <2>1, <3>1, <3>2, Zenon DEF Entered
    <2>4. QED
      BY <1>2, <2>3 DEF FirePlain, TypeOK
  <1>3. ASSUME NEW luck \in BOOLEAN, FireConfigured(a, luck)
        PROVE  Entered /\ heat' \in [Actors -> Nat \cup {NoHeat}] /\ w \in Configured
               /\ \A b \in Actors \ {a} : heat'[b] = heat[b]
    <2> DEFINE c == Config[w]
               h == HeatOnFire(a)
               used == Scaled(form[w].ammoUse, c.iMinAmmoUsed, c.iMaxAmmoUsed,
                              c.iAddAmmoThreshold, h)
               perked == UpdatePerks(a, used, h, luck)
               edited == IF bStats THEN ShotForm(a, h, perked.ammo) ELSE form
    <2>1. w \in Configured /\ c \in HeatConfiguration
      BY <1>3 DEF FireConfigured
    <2>2. h \in Nat
      <3>1. c.heatPerShot \in Nat
        BY <2>1 DEF HeatConfiguration
      <3>2. heat[a] \in Nat \cup {NoHeat}
        BY DEF TypeOK
      <3>3. QED
        BY <3>1, <3>2 DEF HeatOnFire
    <2>3. used \in 0..BYTE-1
      BY <1>1, <2>1, <2>2, ScaledType DEF HeatConfiguration
    <2> HIDE DEF used
    <2>4. perked.ammo \in 0..BYTE-1 /\ perked.heat \in Nat
      BY <2>1, <2>2, <2>3, UpdatePerksType
    <2>5. /\ heat' = [heat EXCEPT ![a] = perked.heat]
          /\ Enter(a, "fire", ShotFields, edited, edited[w].numProjectiles, a \in charged)
          /\ UNCHANGED charged
      BY <1>3 DEF FireConfigured, used
    <2> HIDE DEF h, perked
    <2>6. Entry(a, ShotFields, edited, edited[w].numProjectiles)
      <3>1. /\ Bounded(edited)
            /\ \A v \in Weapons \ {w} : edited[v] = form[v]
            /\ \A x \in Fields \ ShotFields : edited[w][x] = form[w][x]
        BY <1>1, <2>1, <2>2, <2>4, ShotFormType
      <3> HIDE DEF edited
      <3>2. edited[w].numProjectiles \in Nat
        BY <1>1, <3>1 DEF Bounded, Form, Fields, ShotFields
      <3>3. QED
        BY <3>1, <3>2 DEF Entry, Fields
    <2> HIDE DEF edited
    <2>7. Entered
      <3>1. edited \in [Weapons -> Form] /\ edited[w].numProjectiles \in Nat
            /\ ShotFields \in SUBSET Fields /\ (a \in charged) \in BOOLEAN
        BY <2>6 DEF Entry, Bounded, Fields
      <3>2. form' = edited
            /\ stack' = Append(stack, NewFrame(a, "fire", ShotFields, edited,
                                               edited[w].numProjectiles, a \in charged))
        BY <2>5 DEF Enter, NewFrame
      <3>3. QED
        BY <2>5, <2>6, <3>1, <3>2, Zenon DEF Entered
    <2>8. QED
      BY <2>1, <2>4, <2>5, <2>7 DEF TypeOK
  <1>4. QED
    BY <1>2, <1>3 DEF FireWeaponWrapper

LEMMA AnimSteps ==
  ASSUME TypeOK, Unconfigured, NEW a \in Actors, PlayFireAnimation(a) \/ GetWeapAnimMult(a)
  PROVE  Entered /\ UNCHANGED heat
  <1> DEFINE saves == {"animAttackMult"}
  <1>1. Bounded(form) /\ saves \in SUBSET Fields
    BY BoundedForm DEF Fields
  <1>2. PICK hook \in {"attack", "null", "mult"}, edited \in {form, WithAnimMult(a)} :
          /\ edited # form => heat[a] # NoHeat
          /\ Enter(a, hook, saves, edited, 0, FALSE)
          /\ UNCHANGED <<heat, charged>>
    <2>1. CASE PlayFireAnimation(a)
      <3> DEFINE hot == heat[a] # NoHeat
                 hook == IF hot /\ a \in blocked THEN "null" ELSE "attack"
                 edited == IF hot /\ bStats THEN WithAnimMult(a) ELSE form
      <3>1. Enter(a, hook, saves, edited, 0, FALSE) /\ UNCHANGED <<heat, charged>>
        BY <2>1 DEF PlayFireAnimation
      <3>2. hook \in {"attack", "null", "mult"} /\ edited \in {form, WithAnimMult(a)}
            /\ (edited # form => heat[a] # NoHeat)
        OBVIOUS
      <3>3. QED
        BY <3>1, <3>2, Zenon
    <2>2. CASE GetWeapAnimMult(a)
      <3> DEFINE edited == IF heat[a] # NoHeat THEN WithAnimMult(a) ELSE form
      <3>1. Enter(a, "mult", saves, edited, 0, FALSE) /\ UNCHANGED <<heat, charged>>
        BY <2>2 DEF GetWeapAnimMult
      <3>2. "mult" \in {"attack", "null", "mult"} /\ edited \in {form, WithAnimMult(a)}
            /\ (edited # form => heat[a] # NoHeat)
        OBVIOUS
      <3>3. QED
        BY <3>1, <3>2, Zenon
    <2>3. QED
      BY <2>1, <2>2
  <1>3. Entry(a, saves, edited, 0)
    <2>1. CASE edited = form
      BY <1>1, <2>1 DEF Entry
    <2>2. CASE edited # form
      <3>1. heat[a] \in Nat /\ WeaponOf[a] \in Configured /\ edited = WithAnimMult(a)
        BY <1>2, <2>2 DEF TypeOK, Unconfigured
      <3>2. QED
        BY <1>1, <3>1, WithAnimMultType DEF Entry
    <2>3. QED
      BY <2>1, <2>2
  <1>4. edited \in [Weapons -> Form] /\ 0 \in Nat /\ FALSE \in BOOLEAN /\ ~(0 > 0)
        /\ hook \in {"attack", "null", "mult", "fire", "plain"}
    BY <1>2, <1>3 DEF Entry, Bounded
  <1>5. form' = edited /\ stack' = Append(stack, NewFrame(a, hook, saves, edited, 0, FALSE))
    BY <1>2 DEF Enter, NewFrame
  <1>6. QED
    BY <1>1, <1>2, <1>3, <1>4, <1>5, Zenon DEF Entered

LEMMA ProjectileSteps ==
  ASSUME ProjectileWrapper
  PROVE  Launched /\ UNCHANGED heat
  <1> DEFINE a == Top.actor
             alternate == a = Player /\ a \in charged /\ Config[Top.weapon].alternate
  <1>1. stack' = [stack EXCEPT ![Len(stack)].left = @ - 1,
                               ![Len(stack)].alternates = IF alternate THEN @ + 1 ELSE @]
        /\ stack # <<>> /\ Top.left > 0 /\ charged' = charged \ {a} /\ UNCHANGED <<form, heat>>
    BY DEF ProjectileWrapper
  <1> HIDE DEF alternate
  <1>2. alternate \in BOOLEAN /\ (alternate => a \in charged)
    BY DEF alternate
  <1>3. QED
    BY <1>1, <1>2, Zenon DEF Launched

(* Every step of the specification is one of the four.                      *)
WorldTyped ==
  /\ heat \in [Actors -> Nat \cup {NoHeat}]
  /\ charged \subseteq Actors /\ blocked \subseteq Actors /\ bStats \in BOOLEAN
  /\ Unconfigured

StackStep == Entered \/ Launched \/ Returned \/ Still

LEMMA NextSteps ==
  ASSUME TypeOK, Unconfigured, [Next]_fvars
  PROVE  StackStep /\ WorldTyped'
  <1>1. WorldTyped
    BY DEF TypeOK, WorldTyped
  <1>2. ASSUME NEW a \in Actors, PlayFireAnimation(a) \/ GetWeapAnimMult(a)
        PROVE  StackStep /\ WorldTyped'
    <2>1. Entered /\ UNCHANGED <<heat, charged, blocked, bStats>>
      BY <1>2, AnimSteps DEF PlayFireAnimation, GetWeapAnimMult
    <2>2. QED
      BY <1>1, <2>1 DEF StackStep, WorldTyped, Unconfigured
  <1>3. ASSUME NEW a \in Actors, FireWeaponWrapper(a)
        PROVE  StackStep /\ WorldTyped'
    <2>1. UNCHANGED <<charged, blocked, bStats>>
      BY <1>3 DEF FireWeaponWrapper, FirePlain, FireConfigured
    <2>2. Entered /\ heat' \in [Actors -> Nat \cup {NoHeat}]
          /\ (WeaponOf[a] \notin Configured => heat' = heat)
          /\ \A b \in Actors \ {a} : heat'[b] = heat[b]
      BY <1>3, FireSteps
    <2>3. QED
      BY <1>1, <2>1, <2>2 DEF StackStep, WorldTyped, Unconfigured
  <1>4. ASSUME NEW a \in Actors, Update(a)
        PROVE  StackStep /\ WorldTyped'
    <2>1. WeaponOf[a] \in Configured /\ Still /\ bStats' = bStats
      BY <1>4 DEF Update, Still
    <2>2. heat' \in [Actors -> Nat \cup {NoHeat}] /\ \A b \in Actors \ {a} : heat'[b] = heat[b]
      BY <1>1, <1>4 DEF Update, WorldTyped
    <2>3. charged' \in {charged \ {a}, charged \cup ({a} \cap {Player})}
          /\ blocked' \in {blocked \ {a}, blocked \cup {a}}
      BY <1>4 DEF Update
    <2>4. QED
      BY <1>1, <2>1, <2>2, <2>3 DEF StackStep, WorldTyped, Unconfigured
  <1>5. CASE ProjectileWrapper
    <2>1. Launched /\ UNCHANGED <<heat, blocked, bStats>> /\ charged' \subseteq charged
      BY <1>5, ProjectileSteps DEF ProjectileWrapper
    <2>2. QED
      BY <1>1, <2>1 DEF StackStep, WorldTyped, Unconfigured
  <1>6. CASE Return
    BY <1>1, <1>6 DEF Return, Returned, StackStep, WorldTyped, Unconfigured
  <1>7. CASE SetOCSettings \/ UNCHANGED fvars
    BY <1>1, <1>7 DEF SetOCSettings, fvars, Still, StackStep, WorldTyped, Unconfigured
  <1>8. QED
    BY <1>2, <1>3, <1>4, <1>5, <1>6, <1>7 DEF Next

-----------------------------------------------------------------------------
(* The invariant                                                            *)

Chain ==
  /\ stack = <<>> => form = Original
  /\ CallKeepsItsEdit
  /\ \A i \in DOMAIN stack :
       stack[i].og = IF i = 1 THEN Original ELSE stack[i - 1].edited

(* Up to a frame, a form none of the frames works on is the original.       *)
Untouched ==
  \A i \in DOMAIN stack, w \in Weapons :
    (\A j \in 1..i : stack[j].weapon # w) => stack[i].edited[w] = Original[w]

(* What an alternate projectile takes is known before it is launched.       *)
Paid ==
  \A i \in DOMAIN stack :
    /\ stack[i].alternates \in {0, 1}
    /\ stack[i].alternates = 1 => stack[i].charge /\ stack[i].actor \notin charged
    /\ stack[i].left > 0 /\ stack[i].actor \in charged => stack[i].charge

IInv == TypeOK /\ Unconfigured /\ (\A i \in DOMAIN stack : FrameOK(stack[i]))
        /\ Chain /\ Untouched /\ Paid

StackOf == stack \in Seq(Frame) /\ \A i \in DOMAIN stack : FrameOK(stack[i])

LEMMA InitEstablishes == Init => IInv
  BY DEF Init, IInv, TypeOK, Unconfigured, Chain, CallKeepsItsEdit, Untouched, Paid

LEMMA EnteredKeeps ==
  ASSUME IInv, Entered
  PROVE  Bounded(form)' /\ StackOf' /\ Chain' /\ Untouched' /\ Paid'
  <1>1. PICK a \in Actors, hook \in {"attack", "null", "mult", "fire", "plain"},
             saves \in SUBSET Fields, edited \in [Weapons -> Form], left \in Nat,
             charge \in BOOLEAN :
          /\ Entry(a, saves, edited, left)
          /\ form' = edited
          /\ stack' = Append(stack, NewFrame(a, hook, saves, edited, left, charge))
          /\ charge => a \in charged
          /\ left > 0 => charge = (a \in charged)
          /\ UNCHANGED charged
    BY DEF Entered
  <1> DEFINE f == NewFrame(a, hook, saves, edited, left, charge)
             n == Len(stack)
  <1>2. stack \in Seq(Frame) /\ n \in Nat /\ DOMAIN stack = 1..n /\ Bounded(form)
    BY BoundedForm DEF IInv, TypeOK
  <1>3. /\ f \in Frame /\ f.actor = a /\ f.weapon = WeaponOf[a] /\ f.saves = saves
        /\ f.og = form /\ f.edited = edited /\ f.left = left /\ f.charge = charge
        /\ f.alternates = 0
    BY <1>2 DEF NewFrame, Frame, Bounded
  <1> HIDE DEF f
  <1>4. FrameOK(f)
    BY <1>1, <1>2, <1>3 DEF FrameOK, Differ, Entry
  <1>5. /\ stack' \in Seq(Frame) /\ Len(stack') = n + 1 /\ DOMAIN stack' = 1..(n + 1)
        /\ stack'[n + 1] = f /\ \A i \in 1..n : stack'[i] = stack[i]
        /\ stack' # <<>>
    BY <1>1, <1>2, <1>3 DEF f
  <1>6. StackOf'
    BY <1>2, <1>4, <1>5 DEF StackOf, IInv
  <1>7. Bounded(form)'
    BY <1>1 DEF Entry, Bounded
  <1>8. Chain'
    <2>1. f.og = IF n = 0 THEN Original ELSE stack[n].edited
      BY <1>2, <1>3 DEF IInv, Chain, CallKeepsItsEdit, Top
    <2>2. Top' = f /\ CallKeepsItsEdit'
      BY <1>1, <1>3, <1>5 DEF Top, CallKeepsItsEdit
    <2>3. QED
      BY <1>2, <1>5, <2>1, <2>2 DEF IInv, Chain
  <1>9. Untouched'
    <2>1. ASSUME NEW w \in Weapons, \A j \in 1..(n + 1) : stack'[j].weapon # w
          PROVE  f.edited[w] = Original[w]
      <3>1. w # f.weapon /\ \A j \in 1..n : stack[j].weapon # w
        BY <1>2, <1>5, <2>1
      <3>2. f.edited[w] = form[w]
        BY <1>4, <1>3, <3>1 DEF FrameOK, Differ
      <3>3. form[w] = Original[w]
        BY <1>2, <3>1 DEF IInv, Chain, CallKeepsItsEdit, Top, Untouched
      <3>4. QED
        BY <3>2, <3>3
    <2>2. ASSUME NEW i \in 1..n, NEW w \in Weapons, \A j \in 1..i : stack'[j].weapon # w
          PROVE  stack'[i].edited[w] = Original[w]
      <3>1. \A j \in 1..i : stack[j].weapon # w
        BY <1>2, <1>5, <2>2
      <3>2. stack[i].edited[w] = Original[w]
        BY <1>2, <3>1 DEF IInv, Untouched
      <3>3. QED
        BY <1>5, <3>2
    <2>3. QED
      BY <1>2, <1>5, <2>1, <2>2 DEF Untouched
  <1>10. Paid'
    BY <1>1, <1>2, <1>3, <1>5 DEF IInv, Paid
  <1>11. QED
    BY <1>6, <1>7, <1>8, <1>9, <1>10

LEMMA LaunchedKeeps ==
  ASSUME IInv, Launched
  PROVE  Bounded(form)' /\ StackOf' /\ Chain' /\ Untouched' /\ Paid'
  <1> DEFINE n == Len(stack)
  <1>1. PICK alternate \in BOOLEAN :
          /\ alternate => Top.actor \in charged
          /\ stack' = [stack EXCEPT ![n].left = @ - 1,
                                    ![n].alternates = IF alternate THEN @ + 1 ELSE @]
    BY DEF Launched
  <1>2. /\ stack \in Seq(Frame) /\ n \in Nat \ {0} /\ DOMAIN stack = 1..n /\ Top = stack[n]
        /\ Top \in Frame /\ Top.left > 0 /\ stack # <<>> /\ Bounded(form) /\ form' = form
        /\ charged' = charged \ {Top.actor}
    BY BoundedForm DEF IInv, TypeOK, Launched, Top
  <1> DEFINE f == [Top EXCEPT !.left = @ - 1, !.alternates = IF alternate THEN @ + 1 ELSE @]
  <1>3. /\ f \in Frame /\ f.actor = Top.actor /\ f.weapon = Top.weapon /\ f.saves = Top.saves
        /\ f.og = Top.og /\ f.edited = Top.edited /\ f.charge = Top.charge
        /\ f.left = Top.left - 1
        /\ f.alternates = IF alternate THEN Top.alternates + 1 ELSE Top.alternates
    <2> DEFINE k == IF alternate THEN Top.alternates + 1 ELSE Top.alternates
               g == [Top EXCEPT !.left = @ - 1]
    <2>1. Top.left - 1 \in Nat /\ k \in Nat
      BY <1>2 DEF Frame
    <2>2. g \in Frame /\ g.left = Top.left - 1 /\ g.alternates = Top.alternates
          /\ g.actor = Top.actor /\ g.weapon = Top.weapon /\ g.saves = Top.saves
          /\ g.og = Top.og /\ g.edited = Top.edited /\ g.charge = Top.charge
      BY <1>2, <2>1 DEF Frame
    <2>3. f = [g EXCEPT !.alternates = k]
      BY <2>2
    <2> HIDE DEF g, k, f
    <2>4. /\ f \in Frame /\ f.actor = g.actor /\ f.weapon = g.weapon /\ f.saves = g.saves
          /\ f.og = g.og /\ f.edited = g.edited /\ f.charge = g.charge
          /\ f.left = g.left /\ f.alternates = k
      BY <2>1, <2>2, <2>3 DEF Frame
    <2>5. QED
      BY <2>2, <2>4 DEF k
  <1>4. stack' = [stack EXCEPT ![n] = f]
    BY <1>1, <1>2
  <1> HIDE DEF f
  <1>5. /\ stack' \in Seq(Frame) /\ Len(stack') = n /\ DOMAIN stack' = 1..n
        /\ stack'[n] = f /\ \A i \in 1..n : i # n => stack'[i] = stack[i]
        /\ stack' # <<>>
    BY <1>2, <1>3, <1>4
  <1>6. \A i \in 1..n : /\ stack'[i].og = stack[i].og /\ stack'[i].edited = stack[i].edited
                        /\ stack'[i].weapon = stack[i].weapon
                        /\ stack'[i].saves = stack[i].saves
                        /\ stack'[i].actor = stack[i].actor
                        /\ stack'[i].charge = stack[i].charge
    BY <1>2, <1>3, <1>5
  <1>7. StackOf'
    <2>1. ASSUME NEW i \in 1..n PROVE FrameOK(stack'[i])
      <3>1. FrameOK(stack[i])
        BY <1>2 DEF IInv
      <3>2. QED
        BY <1>6, <3>1 DEF FrameOK, Differ
    <2>2. QED
      BY <1>5, <2>1 DEF StackOf, FrameOK, Differ, Bounded
  <1>8. Chain'
    <2>1. /\ form = Top.edited
          /\ \A i \in 1..n : stack[i].og = IF i = 1 THEN Original ELSE stack[i - 1].edited
      BY <1>2 DEF IInv, Chain, CallKeepsItsEdit
    <2>2. Top' = f
      BY <1>5 DEF Top
    <2>3. form' = Top'.edited
      BY <1>2, <1>3, <2>1, <2>2
    <2>4. ASSUME NEW i \in 1..n
          PROVE  stack'[i].og = IF i = 1 THEN Original ELSE stack'[i - 1].edited
      <3>1. i = 1 \/ i - 1 \in 1..n
        BY <1>2
      <3>2. QED
        BY <1>6, <2>1, <3>1
    <2>5. CallKeepsItsEdit'
      BY <2>3 DEF CallKeepsItsEdit
    <2>6. QED
      BY <1>5, <2>4, <2>5 DEF Chain
  <1>9. Untouched'
    <2>1. ASSUME NEW i \in 1..n, NEW w \in Weapons, \A j \in 1..i : stack'[j].weapon # w
          PROVE  stack'[i].edited[w] = Original[w]
      <3>1. \A j \in 1..i : stack[j].weapon # w
        BY <1>2, <1>6, <2>1
      <3>2. stack[i].edited[w] = Original[w]
        BY <1>2, <3>1 DEF IInv, Untouched
      <3>3. QED
        BY <1>6, <3>2
    <2>2. QED
      BY <1>5, <2>1 DEF Untouched
  <1>10. Paid'
    <2>1. /\ Top.alternates \in {0, 1}
          /\ Top.alternates = 1 => Top.charge /\ Top.actor \notin charged
          /\ Top.actor \in charged => Top.charge
      BY <1>2 DEF IInv, Paid
    <2>2. /\ f.alternates \in {0, 1}
          /\ f.alternates = 1 => f.charge /\ f.actor \notin charged'
          /\ f.actor \notin charged'
      BY <1>1, <1>2, <1>3, <2>1
    <2>3. ASSUME NEW i \in 1..n, i # n
          PROVE  /\ stack'[i].alternates \in {0, 1}
                 /\ stack'[i].alternates = 1 => stack'[i].charge /\ stack'[i].actor \notin charged'
                 /\ stack'[i].left > 0 /\ stack'[i].actor \in charged' => stack'[i].charge
      BY <1>2, <1>5, <2>3 DEF IInv, Paid
    <2>4. QED
      BY <1>5, <2>2, <2>3 DEF Paid
  <1>11. QED
    BY <1>2, <1>7, <1>8, <1>9, <1>10 DEF Bounded

LEMMA ReturnedKeeps ==
  ASSUME IInv, Returned
  PROVE  Bounded(form)' /\ StackOf' /\ Chain' /\ Untouched' /\ Paid'
  <1> DEFINE n == Len(stack)
  <1>1. /\ stack \in Seq(Frame) /\ n \in Nat \ {0} /\ DOMAIN stack = 1..n /\ Top = stack[n]
        /\ Top \in Frame /\ stack # <<>> /\ charged' = charged
        /\ form' = WrittenBack(Top) /\ stack' = SubSeq(stack, 1, n - 1)
    BY DEF IInv, TypeOK, Returned, Return, Top
  <1>2. /\ stack' \in Seq(Frame) /\ Len(stack') = n - 1 /\ DOMAIN stack' = 1..(n - 1)
        /\ \A i \in 1..(n - 1) : stack'[i] = stack[i]
        /\ stack' = <<>> <=> n = 1
    <2>1. /\ stack' \in Seq(Frame) /\ Len(stack') = n - 1
          /\ \A i \in 1..(n - 1) : stack'[i] = stack[i]
      <3>1. \A i \in 1..(n - 1) : stack[i] \in Frame
        BY <1>1
      <3> DEFINE m == n - 1
      <3>2. m \in Nat /\ 1 \in Int /\ m \in Int
        BY <1>1
      <3> HIDE DEF m
      <3>3. \A i \in 1..m : stack[i] \in Frame
        BY <3>1 DEF m
      <3>4. /\ SubSeq(stack, 1, m) \in Seq(Frame)
            /\ Len(SubSeq(stack, 1, m)) = IF 1 <= m THEN m - 1 + 1 ELSE 0
            /\ \A i \in 1 .. m - 1 + 1 : SubSeq(stack, 1, m)[i] = stack[1 + i - 1]
        BY <3>2, <3>3, SubSeqProperties
      <3>5. m - 1 + 1 = m /\ (\A i \in 1..m : 1 + i - 1 = i) /\ (~(1 <= m) => m = 0)
        BY <3>2
      <3>6. /\ Len(SubSeq(stack, 1, m)) = m
            /\ \A i \in 1..m : SubSeq(stack, 1, m)[i] = stack[i]
        BY <3>2, <3>4, <3>5
      <3>7. stack' = SubSeq(stack, 1, m)
        BY <1>1 DEF m
      <3>8. /\ stack' \in Seq(Frame) /\ Len(stack') = m
            /\ \A i \in 1..m : stack'[i] = stack[i]
        BY <3>4, <3>6, <3>7
      <3>9. QED
        BY <3>8 DEF m
    <2>2. DOMAIN stack' = 1..(n - 1)
      BY <2>1
    <2>3. stack' = <<>> <=> Len(stack') = 0
      BY <2>1
    <2>4. QED
      BY <1>1, <2>1, <2>2, <2>3
  <1>3. FrameOK(Top) /\ form = Top.edited
    BY <1>1 DEF IInv, Chain, CallKeepsItsEdit
  <1>4. form' = Top.og
    <2> DEFINE w == Top.weapon
               r == [x \in Fields |-> IF x \in Top.saves THEN Top.og[w][x] ELSE form[w][x]]
    <2>1. form' = [form EXCEPT ![w] = r]
      BY <1>1 DEF WrittenBack
    <2>2. form \in [Weapons -> Form] /\ Top.og \in [Weapons -> Form] /\ w \in Weapons
      BY <1>1, <1>3 DEF FrameOK, Bounded, Frame
    <2>3. r = Top.og[w]
      <3>1. Top.og[w] \in [Fields -> Nat]
        BY <2>2 DEF Form
      <3>2. \A x \in Fields : r[x] = Top.og[w][x]
        BY <1>3 DEF FrameOK, Differ
      <3>3. QED
        BY <3>1, <3>2
    <2>4. \A v \in Weapons \ {w} : form[v] = Top.og[v]
      BY <1>3 DEF FrameOK, Differ
    <2> HIDE DEF r
    <2>5. QED
      BY <2>1, <2>2, <2>3, <2>4
  <1>5. StackOf'
    BY <1>1, <1>2 DEF StackOf, IInv
  <1>6. Bounded(form)'
    BY <1>3, <1>4 DEF FrameOK, Bounded
  <1>7. Chain'
    <2>1. Top.og = IF n = 1 THEN Original ELSE stack[n - 1].edited
      BY <1>1 DEF IInv, Chain
    <2>2. CallKeepsItsEdit'
      BY <1>1, <1>2, <1>4, <2>1 DEF CallKeepsItsEdit, Top
    <2>3. QED
      BY <1>1, <1>2, <1>4, <2>1, <2>2, SMTT(30) DEF IInv, Chain
  <1>8. Untouched'
    BY <1>1, <1>2 DEF IInv, Untouched
  <1>9. Paid'
    BY <1>1, <1>2 DEF IInv, Paid
  <1>10. QED
    BY <1>5, <1>6, <1>7, <1>8, <1>9

LEMMA StillKeeps ==
  ASSUME IInv, Still
  PROVE  Bounded(form)' /\ StackOf' /\ Chain' /\ Untouched' /\ Paid'
  <1>1. Bounded(form)' /\ StackOf'
    BY BoundedForm DEF Still, IInv, TypeOK, StackOf, Bounded, FrameOK, Differ
  <1>2. Chain' /\ Untouched'
    BY DEF Still, IInv, Chain, CallKeepsItsEdit, Untouched, Top
  <1>3. Paid'
    <2>1. CASE stack = <<>>
      BY <2>1 DEF Still, Paid
    <2>2. CASE stack # <<>>
      BY <2>2 DEF Still, IInv, Paid
    <2>3. QED
      BY <2>1, <2>2
  <1>4. QED
    BY <1>1, <1>2, <1>3

LEMMA NextKeeps == IInv /\ [Next]_fvars => IInv'
  <1> SUFFICES ASSUME IInv, [Next]_fvars PROVE IInv'
    OBVIOUS
  <1>1. StackStep /\ WorldTyped'
    BY NextSteps DEF IInv
  <1>2. Bounded(form)' /\ StackOf' /\ Chain' /\ Untouched' /\ Paid'
    BY <1>1, EnteredKeeps, LaunchedKeeps, ReturnedKeeps, StillKeeps DEF StackStep
  <1>3. QED
    BY <1>1, <1>2 DEF WorldTyped, StackOf, Bounded, IInv, TypeOK

LEMMA Inductive == Spec => []IInv
  BY InitEstablishes, NextKeeps, PTL DEF Spec

(* The widths of a shot's ammo and projectiles hold whatever the            *)
(* configuration and the heat, tripled ammo included.                       *)
THEOREM FormsTyped == Spec => []TypeOK
  <1>1. IInv => TypeOK
    BY DEF IInv
  <1>2. QED
    BY <1>1, Inductive, PTL

(* A form no hook is working on is as the game loaded it, at any depth of   *)
(* nested hooks and with bStats switched at any moment.                     *)
THEOREM OnlyTheWeaponAtHand == Spec => []OthersUntouched
  <1>1. IInv => OthersUntouched
    <2> SUFFICES ASSUME IInv, NEW w \in Weapons,
                        \A i \in DOMAIN stack : stack[i].weapon # w
                 PROVE  form[w] = Original[w]
      BY DEF OthersUntouched
    <2>1. CASE stack = <<>>
      BY <2>1 DEF IInv, Chain
    <2>2. CASE stack # <<>>
      <3>1. Len(stack) \in DOMAIN stack /\ 1..Len(stack) = DOMAIN stack
        BY <2>2 DEF IInv, TypeOK
      <3>2. stack[Len(stack)].edited[w] = Original[w]
        BY <3>1 DEF IInv, Untouched
      <3>3. QED
        BY <2>2, <3>2 DEF IInv, Chain, CallKeepsItsEdit, Top
    <2>3. QED
      BY <2>1, <2>2
  <1>2. QED
    BY <1>1, Inductive, PTL

(* A nested hook gives the caller's edit back before the caller goes on.    *)
THEOREM NestingIsInvisible == Spec => []CallKeepsItsEdit
  <1>1. IInv => CallKeepsItsEdit
    BY DEF IInv, Chain
  <1>2. QED
    BY <1>1, Inductive, PTL

(* An alternate projectile is launched once for a charge that was paid.     *)
THEOREM NoFreeAlternate == Spec => []AlternatesArePaid
  <1>1. IInv => AlternatesArePaid
    BY DEF IInv, Paid, AlternatesArePaid
  <1>2. QED
    BY <1>1, Inductive, PTL

=============================================================================
