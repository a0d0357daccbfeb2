------------------------- MODULE TempEffectsProofs --------------------------
(***************************************************************************)
(* Proofs about TempEffects, for any number of graphs and weapons.         *)
(*                                                                         *)
(* A recorded graph is an impact and stays one, since its record keeps it  *)
(* alive; a free address has lost all colour.  With that, the materials    *)
(* recorded are the original ones, the records can be used to go back, and *)
(* a hit that asks for a graph's own material gets it.                     *)
(***************************************************************************)
EXTENDS TempEffects, TLAPS

FreeIsPlain ==
  \A x \in Addresses : scene[x] = "free" => material[x] = Own /\ due[x] = Own

RecordsAreImpacts == \A i \in Records : scene[activeTempEffects[i].geom] = "impact"

FedByItsWeapon ==
  \A x \in Addresses :
    scene[x] # "free" /\ x \notin passed => activeEmitters[x] \in {source[x], Cold, None}

IInv ==
  /\ TypeOK /\ TintIsReversible /\ ImpactShowsItsWeapon
  /\ FreeIsPlain /\ RecordsAreImpacts /\ FedByItsWeapon

-----------------------------------------------------------------------------
(* The records                                                              *)

LEMMA MemberOfSeq ==
  ASSUME NEW S, NEW s \in Seq(S), NEW i \in DOMAIN s
  PROVE  s[i] \in S
OBVIOUS

LEMMA RecordTyped ==
  ASSUME TypeOK, NEW i \in Records
  PROVE  activeTempEffects[i] \in [geom : Addresses, ogMatProp : Weapons \cup {Own}]
BY MemberOfSeq DEF TypeOK, Records

LEMMA RecordedAddress ==
  ASSUME TypeOK
  PROVE  \A i \in Records : activeTempEffects[i].geom \in Addresses
<1> TAKE i \in Records
<1>1. activeTempEffects[i] \in [geom : Addresses, ogMatProp : Weapons \cup {Own}]
  BY RecordTyped
<1> QED BY <1>1

(* The loops over the records find the original material.                   *)
LEMMA FirstIsOwn ==
  ASSUME TypeOK, TintIsReversible, NEW x \in Addresses, Recorded(x)
  PROVE  First(x).ogMatProp = Own
<1>1. PICK i \in Records : activeTempEffects[i].geom = x
  BY DEF Recorded, RecordOf
<1>2. RecordOf(x) = {i}
  BY <1>1 DEF RecordOf, TintIsReversible
<1>3. Records \subseteq Nat
  BY DEF TypeOK, Records
<1>4. First(x) = activeTempEffects[i]
  BY <1>2, <1>3 DEF First
<1> QED BY <1>4 DEF TintIsReversible

LEMMA LastIsOwn ==
  ASSUME TypeOK, TintIsReversible, NEW x \in Addresses, Recorded(x)
  PROVE  activeTempEffects[CHOOSE i \in RecordOf(x) :
                             \A j \in RecordOf(x) : j <= i].ogMatProp = Own
<1>1. PICK i \in Records : activeTempEffects[i].geom = x
  BY DEF Recorded, RecordOf
<1>2. RecordOf(x) = {i}
  BY <1>1 DEF RecordOf, TintIsReversible
<1>3. Records \subseteq Nat
  BY DEF TypeOK, Records
<1>4. (CHOOSE k \in RecordOf(x) : \A j \in RecordOf(x) : j <= k) = i
  BY <1>2, <1>3
<1> QED BY <1>4 DEF TintIsReversible

(* An impact without a record, and an address without a graph, are plain.   *)
LEMMA UnrecordedIsPlain ==
  ASSUME IInv, NEW x \in Addresses, scene[x] \in {"free", "impact"}, ~Recorded(x)
  PROVE  material[x] = Own
BY DEF IInv, TintIsReversible, FreeIsPlain

-----------------------------------------------------------------------------
(* What an impact does to its graph                                         *)

LEMMA ImpactMaterial ==
  ASSUME IInv, NEW x \in Addresses, NEW w \in Weapons \cup {None}, NEW node \in BOOLEAN,
         ImpactWrapper(x, w, node)
  PROVE  /\ \A y \in Addresses : y # x => material'[y] = material[y] /\ due'[y] = due[y]
         /\ material'[x] = due'[x]
         /\ material' \in [Addresses -> Weapons \cup {Own}]
         /\ due' \in [Addresses -> Weapons \cup {Own}]
<1> DEFINE handled == bVFX /\ node /\ w # None
<1>0. /\ TypeOK /\ TintIsReversible
      /\ material \in [Addresses -> Weapons \cup {Own}]
      /\ due \in [Addresses -> Weapons \cup {Own}]
  BY DEF IInv, TypeOK
<1>1. due' = IF handled THEN [due EXCEPT ![x] = IF Heated(w) THEN w ELSE Own] ELSE due
  BY DEF ImpactWrapper, Spawn
<1>2. material' = IF ~handled THEN material
                  ELSE IF Heated(w) THEN Tinted(x, w)
                  ELSE IF Recorded(x) THEN Tinted(x, First(x).ogMatProp)
                  ELSE material
  BY DEF ImpactWrapper
<1>3. scene[x] \in {"free", "impact"}
  BY DEF ImpactWrapper, Spawn
<1>4. material[x] = due[x]
  BY <1>3 DEF IInv, FreeIsPlain, ImpactShowsItsWeapon
<1>5. ~Recorded(x) => material[x] = Own
  BY <1>3, UnrecordedIsPlain
<1>6. Recorded(x) => First(x).ogMatProp = Own
  BY <1>0, FirstIsOwn
<1>7. handled => w \in Weapons
  OBVIOUS
<1> HIDE DEF handled
<1>8. CASE ~handled
  BY <1>0, <1>1, <1>2, <1>4, <1>8
<1>9. CASE handled /\ Heated(w)
  BY <1>0, <1>1, <1>2, <1>7, <1>9 DEF Tinted
<1>10. CASE handled /\ ~Heated(w) /\ Recorded(x)
  BY <1>0, <1>1, <1>2, <1>6, <1>10 DEF Tinted
<1>11. CASE handled /\ ~Heated(w) /\ ~Recorded(x)
  BY <1>0, <1>1, <1>2, <1>5, <1>11
<1> QED BY <1>8, <1>9, <1>10, <1>11

(* At most one record is added, of a graph that has none and is plain.      *)
LEMMA ImpactRecords ==
  ASSUME IInv, NEW x \in Addresses, NEW w \in Weapons \cup {None}, NEW node \in BOOLEAN,
         ImpactWrapper(x, w, node)
  PROVE  \/ activeTempEffects' = activeTempEffects /\ (Recorded(x) \/ material'[x] = Own)
         \/ /\ ~Recorded(x) /\ material[x] = Own
            /\ activeTempEffects' = Append(activeTempEffects, [geom |-> x, ogMatProp |-> Own])
<1>0. scene[x] \in {"free", "impact"}
  BY DEF ImpactWrapper, Spawn
<1>1. CASE Recorded(x)
  BY <1>1 DEF ImpactWrapper
<1>2. CASE ~Recorded(x)
  <2>1. material[x] = Own
    BY <1>0, <1>2, UnrecordedIsPlain
  <2>2. CASE bVFX /\ node /\ w # None /\ Heated(w)
    BY <1>2, <2>1, <2>2 DEF ImpactWrapper
  <2>3. CASE ~(bVFX /\ node /\ w # None /\ Heated(w))
    <3>1. activeTempEffects' = activeTempEffects
      BY <2>3 DEF ImpactWrapper
    <3>2. material' = material
      BY <1>2, <2>3 DEF ImpactWrapper
    <3> QED BY <2>1, <3>1, <3>2
  <2> QED BY <2>2, <2>3
<1> QED BY <1>1, <1>2

-----------------------------------------------------------------------------
(* The invariant                                                            *)

LEMMA NotedTyped ==
  ASSUME TypeOK, NEW x \in Addresses, NEW w
  PROVE  /\ Noted(x, w) \in [Addresses -> Weapons \cup {Cold, None}]
         /\ Noted(x, w)[x] \in {w, Cold}
         /\ \A y \in Addresses : y # x => Noted(x, w)[y] = activeEmitters[y]
<1>1. hot \subseteq Weapons /\ activeEmitters \in [Addresses -> Weapons \cup {Cold, None}]
  BY DEF TypeOK
<1> QED BY <1>1 DEF Noted

(* What Spawn leaves in the scene.                                          *)
LEMMA SpawnTyped ==
  ASSUME TypeOK, NEW x \in Addresses, NEW w \in Weapons \cup {None}, NEW kind \in Kinds,
         NEW handled \in BOOLEAN, Spawn(x, w, kind, handled)
  PROVE  /\ scene' \in [Addresses -> Kinds] /\ scene'[x] = kind
         /\ source' \in [Addresses -> Weapons \cup {None}]
         /\ passed' \subseteq Addresses
         /\ handled => source'[x] = w
         /\ x \in passed' <=> ~handled
         /\ \A y \in Addresses : y # x => /\ scene'[y] = scene[y] /\ source'[y] = source[y]
                                          /\ y \in passed' <=> y \in passed
         /\ kind # "impact" => due' = due
         /\ UNCHANGED <<hot, noVFX, bVFX>>
BY DEF TypeOK, Spawn

(* Emitters of graphs that are handled are fed by the weapon of the effect. *)
LEMMA SpawnFeeds ==
  ASSUME IInv, NEW x \in Addresses, NEW w \in Weapons \cup {None}, NEW kind \in Kinds,
         NEW handled \in BOOLEAN, Spawn(x, w, kind, handled),
         activeEmitters' = IF handled THEN Noted(x, w) ELSE activeEmitters
  PROVE  FedByItsWeapon' /\ activeEmitters' \in [Addresses -> Weapons \cup {Cold, None}]
<1>0. TypeOK /\ FedByItsWeapon
  BY DEF IInv
<1>1. activeEmitters' \in [Addresses -> Weapons \cup {Cold, None}]
  BY <1>0, NotedTyped DEF TypeOK
<1>2. ASSUME NEW y \in Addresses, scene'[y] # "free", y \notin passed'
      PROVE  activeEmitters'[y] \in {source'[y], Cold, None}
  <2>1. CASE y = x
    <3>1. handled /\ source'[x] = w
      BY <1>0, <1>2, <2>1, SpawnTyped
    <3> QED BY <1>0, <2>1, <3>1, NotedTyped
  <2>2. CASE y # x
    <3>1. scene'[y] = scene[y] /\ source'[y] = source[y] /\ y \notin passed
      BY <1>0, <1>2, <2>2, SpawnTyped
    <3>2. activeEmitters'[y] = activeEmitters[y]
      BY <1>0, <2>2, NotedTyped
    <3> QED BY <1>0, <1>2, <3>1, <3>2 DEF FedByItsWeapon
  <2> QED BY <2>1, <2>2
<1>3. FedByItsWeapon'
  BY <1>2 DEF FedByItsWeapon
<1> QED BY <1>1, <1>3

LEMMA ImpactStep ==
  ASSUME IInv, NEW x \in Addresses, NEW w \in Weapons \cup {None}, NEW node \in BOOLEAN,
         ImpactWrapper(x, w, node)
  PROVE  IInv'
<1> DEFINE new == [geom |-> x, ogMatProp |-> Own]
           handled == bVFX /\ node /\ w # None
<1>0. /\ TypeOK /\ TintIsReversible /\ ImpactShowsItsWeapon /\ FreeIsPlain
      /\ RecordsAreImpacts /\ bVFX \in BOOLEAN
      /\ activeTempEffects \in Seq([geom : Addresses, ogMatProp : Weapons \cup {Own}])
  BY DEF IInv, TypeOK
<1>1. "impact" \in Kinds /\ handled \in BOOLEAN /\ Spawn(x, w, "impact", handled)
  BY DEF Kinds, ImpactWrapper
<1>2. activeEmitters' = IF handled THEN Noted(x, w) ELSE activeEmitters
  BY DEF ImpactWrapper
<1> HIDE DEF handled
<1>3. FedByItsWeapon' /\ activeEmitters' \in [Addresses -> Weapons \cup {Cold, None}]
  BY <1>1, <1>2, SpawnFeeds
<1>4. /\ scene' \in [Addresses -> Kinds] /\ scene'[x] = "impact"
      /\ source' \in [Addresses -> Weapons \cup {None}] /\ passed' \subseteq Addresses
      /\ \A y \in Addresses : y # x => scene'[y] = scene[y]
      /\ UNCHANGED <<hot, noVFX, bVFX>>
  BY <1>0, <1>1, SpawnTyped
<1>5. /\ \A y \in Addresses : y # x => material'[y] = material[y] /\ due'[y] = due[y]
      /\ material'[x] = due'[x]
      /\ material' \in [Addresses -> Weapons \cup {Own}]
      /\ due' \in [Addresses -> Weapons \cup {Own}]
  BY ImpactMaterial
<1>6. FreeIsPlain' /\ ImpactShowsItsWeapon'
  BY <1>0, <1>4, <1>5 DEF FreeIsPlain, ImpactShowsItsWeapon
<1>7. CASE activeTempEffects' = activeTempEffects /\ (Recorded(x) \/ material'[x] = Own)
  <2>1. TypeOK'
    BY <1>0, <1>3, <1>4, <1>5, <1>7 DEF TypeOK
  <2>2. RecordsAreImpacts'
    BY <1>0, <1>4, <1>7, RecordedAddress DEF RecordsAreImpacts, Records
  <2>3. TintIsReversible'
    BY <1>0, <1>4, <1>5, <1>7 DEF TintIsReversible, Records, Recorded, RecordOf
  <2> QED BY <1>3, <1>6, <2>1, <2>2, <2>3 DEF IInv
<1>8. CASE ~Recorded(x) /\ material[x] = Own /\ activeTempEffects' = Append(activeTempEffects, new)
  <2>1. /\ Len(activeTempEffects') = Len(activeTempEffects) + 1
        /\ activeTempEffects'[Len(activeTempEffects) + 1] = new
        /\ \A i \in 1..Len(activeTempEffects) : activeTempEffects'[i] = activeTempEffects[i]
        /\ activeTempEffects' \in Seq([geom : Addresses, ogMatProp : Weapons \cup {Own}])
        /\ Len(activeTempEffects) \in Nat
    <3>1. new \in [geom : Addresses, ogMatProp : Weapons \cup {Own}]
      OBVIOUS
    <3> HIDE DEF new
    <3> QED BY <1>0, <1>8, <3>1
  <2>2. /\ Records' = Records \cup {Len(activeTempEffects) + 1}
        /\ Records = 1..Len(activeTempEffects)
        /\ Len(activeTempEffects) + 1 \notin Records
    BY <1>0, <2>1 DEF Records
  <2>3. \A i \in Records : activeTempEffects'[i] = activeTempEffects[i] /\ activeTempEffects[i].geom # x
    BY <1>8, <2>1, <2>2 DEF Recorded, RecordOf
  <2>4. new.geom = x /\ new.ogMatProp = Own
    OBVIOUS
  <2> HIDE DEF new
  <2>5. TypeOK'
    BY <1>0, <1>3, <1>4, <1>5, <2>1 DEF TypeOK
  <2>6. RecordsAreImpacts'
    <3>1. \A i \in Records : scene'[activeTempEffects[i].geom] = "impact"
      BY <1>0, <1>4, <2>3, RecordedAddress DEF RecordsAreImpacts
    <3> QED BY <1>4, <2>1, <2>2, <2>3, <2>4, <3>1 DEF RecordsAreImpacts
  <2>7. TintIsReversible'
    <3>1. \A y \in Addresses : Recorded(y) \/ y = x => Recorded(y)'
      BY <2>1, <2>2, <2>3, <2>4 DEF Recorded, RecordOf
    <3>2. \A y \in Addresses : scene'[y] = "impact" /\ material'[y] # Own => Recorded(y)'
      BY <1>0, <1>4, <1>5, <3>1 DEF TintIsReversible
    <3>3. \A i \in Records' : activeTempEffects'[i].ogMatProp = Own
      BY <1>0, <2>1, <2>2, <2>3, <2>4 DEF TintIsReversible
    <3>4. \A i, j \in Records' : activeTempEffects'[i].geom = activeTempEffects'[j].geom => i = j
      BY <1>0, <2>1, <2>2, <2>3, <2>4 DEF TintIsReversible
    <3> QED BY <3>2, <3>3, <3>4 DEF TintIsReversible
  <2> QED BY <1>3, <1>6, <2>5, <2>6, <2>7 DEF IInv
<1> QED BY <1>7, <1>8, ImpactRecords

(* The other effects record nothing and never take the graph of an impact.  *)
LEMMA OtherEffectStep ==
  ASSUME IInv, NEW x \in Addresses, NEW w \in Weapons \cup {None},
         NEW kind \in Kinds \ {"free", "impact"}, NEW handled \in BOOLEAN,
         Spawn(x, w, kind, handled), Coloured(x, w, handled)
  PROVE  IInv'
<1>0. TypeOK /\ TintIsReversible /\ ImpactShowsItsWeapon /\ FreeIsPlain /\ RecordsAreImpacts /\ FedByItsWeapon
  BY DEF IInv
<1>1. /\ scene' \in [Addresses -> Kinds] /\ scene'[x] = kind
      /\ source' \in [Addresses -> Weapons \cup {None}] /\ passed' \subseteq Addresses
      /\ \A y \in Addresses : y # x => scene'[y] = scene[y]
      /\ due' = due /\ activeTempEffects' = activeTempEffects
      /\ UNCHANGED <<hot, noVFX, bVFX>>
  BY <1>0, SpawnTyped DEF Coloured
<1>2. scene[x] # "impact"
  BY DEF Spawn
<1>3. /\ material' \in [Addresses -> Weapons \cup {Own}]
      /\ \A y \in Addresses : y # x => material'[y] = material[y]
  <2>1. material' = material \/ (w \in Weapons /\ material' = Tinted(x, w))
    BY <1>0 DEF Coloured, Heated, TypeOK
  <2> QED BY <1>0, <2>1 DEF TypeOK, Tinted
<1>4. FedByItsWeapon' /\ activeEmitters' \in [Addresses -> Weapons \cup {Cold, None}]
  BY SpawnFeeds DEF Coloured
<1>5. TypeOK'
  BY <1>0, <1>1, <1>3, <1>4 DEF TypeOK
<1>6. \A i \in Records : activeTempEffects[i].geom \in Addresses \ {x}
  BY <1>0, <1>2, RecordedAddress DEF RecordsAreImpacts
<1>7. RecordsAreImpacts'
  BY <1>0, <1>1, <1>6 DEF RecordsAreImpacts, Records
<1>8. FreeIsPlain' /\ ImpactShowsItsWeapon'
  BY <1>0, <1>1, <1>3 DEF FreeIsPlain, ImpactShowsItsWeapon
<1>9. TintIsReversible'
  BY <1>0, <1>1, <1>3 DEF TintIsReversible, Records, Recorded, RecordOf
<1> QED BY <1>4, <1>5, <1>7, <1>8, <1>9 DEF IInv

(* A save is loaded: every recorded graph gets its own material back.       *)
LEMMA ClearStep ==
  ASSUME IInv, ClearOCWeapons
  PROVE  IInv'
<1>0. TypeOK /\ TintIsReversible /\ ImpactShowsItsWeapon /\ FreeIsPlain /\ RecordsAreImpacts /\ FedByItsWeapon
  BY DEF IInv
<1>1. \A x \in Addresses : material'[x] = IF Recorded(x) THEN Own ELSE material[x]
  BY <1>0, LastIsOwn DEF ClearOCWeapons
<1>2. material' \in [Addresses -> Weapons \cup {Own}]
  <2>1. \E f : material' = [x \in Addresses |-> f[x]]
    <3> WITNESS material'
    <3> QED BY DEF ClearOCWeapons
  <2> QED BY <1>0, <1>1, <2>1 DEF TypeOK
<1>3. activeTempEffects' = <<>> /\ Records' = {}
  BY DEF ClearOCWeapons, Records
<1>4. /\ UNCHANGED <<scene, source, passed, noVFX, bVFX>> /\ hot' = {}
      /\ due' = [x \in Addresses |-> Own]
  BY DEF ClearOCWeapons
<1>5. activeEmitters' = [x \in Addresses |-> None]
  BY DEF ClearOCWeapons
<1>6. TypeOK'
  BY <1>0, <1>2, <1>3, <1>4, <1>5 DEF TypeOK
<1>7. TintIsReversible'
  BY <1>0, <1>1, <1>3, <1>4 DEF TintIsReversible
<1>8. FreeIsPlain' /\ ImpactShowsItsWeapon'
  BY <1>0, <1>1, <1>4 DEF FreeIsPlain, ImpactShowsItsWeapon, TintIsReversible
<1>9. RecordsAreImpacts'
  BY <1>3 DEF RecordsAreImpacts
<1>10. FedByItsWeapon'
  BY <1>4, <1>5 DEF FedByItsWeapon
<1> QED BY <1>6, <1>7, <1>8, <1>9, <1>10 DEF IInv

LEMMA DeleteStep ==
  ASSUME IInv, NEW x \in Addresses, Delete(x)
  PROVE  IInv'
<1>0. TypeOK /\ TintIsReversible /\ ImpactShowsItsWeapon /\ FreeIsPlain /\ RecordsAreImpacts /\ FedByItsWeapon
  BY DEF IInv
<1>1. TypeOK'
  BY <1>0 DEF TypeOK, Delete, Kinds
<1>2. \A i \in Records : activeTempEffects[i].geom # x
  BY DEF Delete, Recorded, RecordOf
<1>3. RecordsAreImpacts'
  BY <1>0, <1>2, RecordedAddress DEF RecordsAreImpacts, Delete, Records, TypeOK
<1>4. TintIsReversible'
  BY <1>0 DEF TintIsReversible, Delete, Records, Recorded, RecordOf, TypeOK
<1>5. FreeIsPlain' /\ FedByItsWeapon' /\ ImpactShowsItsWeapon'
  BY <1>0 DEF FreeIsPlain, FedByItsWeapon, ImpactShowsItsWeapon, Delete, TypeOK
<1> QED BY <1>1, <1>3, <1>4, <1>5 DEF IInv

(* Steps that leave the scene, the materials and the records alone.         *)
LEMMA QuietStep ==
  ASSUME IInv, UNCHANGED <<scene, history, material, activeTempEffects>>, TypeOK',
         \A x \in Addresses : activeEmitters'[x] \in {activeEmitters[x], None}
  PROVE  IInv'
<1>0. TintIsReversible /\ ImpactShowsItsWeapon /\ FreeIsPlain /\ RecordsAreImpacts /\ FedByItsWeapon
  BY DEF IInv
<1>1. TintIsReversible' /\ ImpactShowsItsWeapon' /\ FreeIsPlain' /\ RecordsAreImpacts'
  BY <1>0 DEF TintIsReversible, ImpactShowsItsWeapon, FreeIsPlain, RecordsAreImpacts,
              Records, Recorded, RecordOf, history
<1>2. FedByItsWeapon'
  BY <1>0 DEF FedByItsWeapon, history
<1> QED BY <1>1, <1>2 DEF IInv

LEMMA Initially == Init => IInv
<1> SUFFICES ASSUME Init PROVE IInv
  OBVIOUS
<1>1. activeTempEffects = <<>> /\ Records = {}
  BY DEF Init, Records
<1>2. TypeOK
  BY <1>1 DEF Init, TypeOK, Kinds
<1>3. /\ TintIsReversible /\ ImpactShowsItsWeapon /\ FreeIsPlain
      /\ RecordsAreImpacts /\ FedByItsWeapon
  BY <1>1 DEF Init, TintIsReversible, ImpactShowsItsWeapon, FreeIsPlain, RecordsAreImpacts,
              FedByItsWeapon
<1> QED BY <1>2, <1>3 DEF IInv

LEMMA EveryStep == IInv /\ [Next]_vars => IInv'
<1> SUFFICES ASSUME IInv, [Next]_vars PROVE IInv'
  OBVIOUS
<1>0. TypeOK
  BY DEF IInv
<1> DEFINE handled(w, node) == bVFX /\ node /\ w # None
           launched(w, node) == bVFX /\ node /\ ~WantsNone(w)
           flashed(w, node) == bVFX /\ node /\ w # None /\ ~WantsNone(w)
<1>1. ASSUME NEW x \in Addresses, NEW w \in Weapons \cup {None}, NEW node \in BOOLEAN,
             \/ MuzzleFlashWrapper(x, w, node) \/ ProjectileWrapper(x, w, node)
             \/ ExplosionWrapper(x, w, node)
      PROVE  IInv'
  <2>1. CASE MuzzleFlashWrapper(x, w, node)
    <3>1. Spawn(x, w, "flash", flashed(w, node)) /\ Coloured(x, w, flashed(w, node))
      BY <2>1 DEF MuzzleFlashWrapper
    <3>2. "flash" \in Kinds \ {"free", "impact"}
      BY DEF Kinds
    <3>3. flashed(w, node) \in BOOLEAN
      BY <1>0 DEF TypeOK
    <3> HIDE DEF flashed
    <3> QED BY <3>1, <3>2, <3>3, OtherEffectStep
  <2>2. CASE ProjectileWrapper(x, w, node)
    <3>1. Spawn(x, w, "projectile", launched(w, node)) /\ Coloured(x, w, launched(w, node))
      BY <2>2 DEF ProjectileWrapper
    <3>2. "projectile" \in Kinds \ {"free", "impact"}
      BY DEF Kinds
    <3>3. launched(w, node) \in BOOLEAN
      BY <1>0 DEF TypeOK
    <3> HIDE DEF launched
    <3> QED BY <3>1, <3>2, <3>3, OtherEffectStep
  <2>3. CASE ExplosionWrapper(x, w, node)
    <3>1. Spawn(x, w, "explosion", handled(w, node)) /\ Coloured(x, w, handled(w, node))
      BY <2>3 DEF ExplosionWrapper
    <3>2. "explosion" \in Kinds \ {"free", "impact"}
      BY DEF Kinds
    <3>3. handled(w, node) \in BOOLEAN
      BY <1>0 DEF TypeOK
    <3> HIDE DEF handled
    <3> QED BY <3>1, <3>2, <3>3, OtherEffectStep
  <2> QED BY <1>1, <2>1, <2>2, <2>3
<1>2. ASSUME NEW x \in Addresses, NEW w \in Weapons \cup {None}, NEW node \in BOOLEAN,
             ImpactWrapper(x, w, node)
      PROVE  IInv'
  BY <1>2, ImpactStep
<1>3. ASSUME NEW x \in Addresses, Delete(x) PROVE IInv'
  BY <1>3, DeleteStep
<1>4. ASSUME NEW x \in Addresses, NEW glows \in BOOLEAN, InitializeParticle(x, glows) PROVE IInv'
  <2>1. \A y \in Addresses : activeEmitters'[y] \in {activeEmitters[y], None}
    BY <1>0, <1>4 DEF InitializeParticle, TypeOK, history
  <2>2. TypeOK' /\ UNCHANGED <<scene, history, material, activeTempEffects>>
    BY <1>0, <1>4 DEF InitializeParticle, TypeOK, history
  <2> QED BY <2>1, <2>2, QuietStep
<1>5. ASSUME NEW w \in Weapons, HeatComesOrGoes(w) \/ SwapAmmo(w) PROVE IInv'
  <2>1. TypeOK' /\ UNCHANGED <<scene, history, material, activeTempEffects, activeEmitters>>
    BY <1>0, <1>5 DEF HeatComesOrGoes, SwapAmmo, TypeOK, history
  <2> QED BY <2>1, QuietStep
<1>6. CASE SetOCSettings \/ UNCHANGED vars
  <2>1. TypeOK' /\ UNCHANGED <<scene, history, material, activeTempEffects, activeEmitters>>
    BY <1>0, <1>6 DEF SetOCSettings, TypeOK, vars, history
  <2> QED BY <2>1, QuietStep
<1>7. CASE ClearOCWeapons
  BY <1>7, ClearStep
<1> QED BY <1>1, <1>2, <1>3, <1>4, <1>5, <1>6, <1>7 DEF Next

LEMMA Invariance == Spec => []IInv
BY Initially, EveryStep, PTL DEF Spec

-----------------------------------------------------------------------------
(* Theorems                                                                 *)

(* TypeOK: the records hold graphs and materials, the emitters heats.       *)
THEOREM EffectsTyped == Spec => []TypeOK
<1>1. IInv => TypeOK
  BY DEF IInv
<1> QED BY <1>1, Invariance, PTL

(* TintIsReversible: an impact coloured by activeTempEffects' owner can     *)
(* always be given back the material it was loaded with.                    *)
THEOREM WayBack == Spec => []TintIsReversible
<1>1. IInv => TintIsReversible
  BY DEF IInv
<1> QED BY <1>1, Invariance, PTL

(* PaintedByItsWeapon: InitializeParticleWrapper paints the particles of an *)
(* effect that its wrapper handled in the colour of the weapon the wrapper  *)
(* found, or in none: only an effect that was passed over can be painted by *)
(* what an earlier graph left at its address.                               *)
THEOREM NoForeignPaint == Spec => []PaintedByItsWeapon
<1>1. IInv => PaintedByItsWeapon
  BY NamesAssumption DEF IInv, TypeOK, FedByItsWeapon, PaintedByItsWeapon, Paint
<1> QED BY <1>1, Invariance, PTL

(* ImpactShowsItsWeapon: the graph of an impact shows what the last hit     *)
(* that was handled in it asked for.  A hit without a weapon, a source or a *)
(* node, or with effects off, shows the same.                               *)
THEOREM ImpactsAreTrue == Spec => []ImpactShowsItsWeapon
<1>1. IInv => ImpactShowsItsWeapon
  BY DEF IInv
<1> QED BY <1>1, Invariance, PTL
=============================================================================
