------------------------- MODULE HeatRegistryProofs -------------------------
(***************************************************************************)
(* Proofs about HeatRegistry, for any number of actors, weapons and        *)
(* addresses and any throttle.                                             *)
(*                                                                         *)
(* While remove_if walks a container, the slots before the next free one   *)
(* and those still to be visited hold heats; what lies between is on its   *)
(* way out.  The other container is full of heats.  So the heat being      *)
(* visited is in the container, and the update that would add it does not. *)
(* Then: abandoned heats wear off.  The last part is about                 *)
(* HeatRegistryClock.                                                      *)
(***************************************************************************)
EXTENDS HeatRegistryClock, SequenceTheorems, TLAPS

Slots == Addresses \cup {Null}

WalkTyped ==
  /\ walk \in [on : Containers \cup {"none"}, at : Nat, kept : Nat, end : Nat]
  /\ walk.kept < walk.at /\ walk.at <= walk.end + 1
  /\ ~Quiet => walk.end = Len(vec[walk.on])

Typed ==
  /\ vec \in [Containers -> Seq(Slots)]
  /\ \A h \in DOMAIN data : h \in Addresses /\ data[h] \in HeatData
  /\ frames \in 0..NPC_UPDATE_THROTTLE - 1
  /\ carried \in [Actors -> Weapons \cup {NoWeapon}]
  /\ dying \subseteq Actors
  /\ menu \in BOOLEAN

(* Only the slots between those kept and the next one may be empty.         *)
Filled ==
  \A c \in Containers : \A i \in DOMAIN vec[c] :
    c # walk.on \/ i <= walk.kept \/ i >= walk.at => vec[c][i] # Null

Known ==
  \A c \in Containers : \A i \in DOMAIN vec[c] : vec[c][i] # Null => vec[c][i] \in DOMAIN data

IInv == Typed /\ WalkTyped /\ Filled /\ Known /\ OneHeatPerWeapon

-----------------------------------------------------------------------------
(* Lookup                                                                   *)

LEMMA HeldIs ==
  ASSUME Typed, NEW c \in Containers
  PROVE  \A h : h \in Held(c) <=> h # Null /\ \E i \in DOMAIN vec[c] : vec[c][i] = h
BY DEF Held, ToSet

LEMMA HomeIs == \A actor : Home(actor) \in Containers
BY DEF Home, Containers

(* GetActiveHeat finds the heat of the actor's weapon, if there is one.     *)
LEMMA LookupFinds ==
  ASSUME IInv, NEW actor \in Actors, NEW weap \in Weapons, ActiveHeat(actor, weap) # {}
  PROVE  GetActiveHeat(actor, weap) \in ActiveHeat(actor, weap)
<1> DEFINE c == Home(actor)
           I == {i \in 1..Len(vec[c]) : vec[c][i] \in ActiveHeat(actor, weap)}
<1>1. c \in Containers /\ vec[c] \in Seq(Slots) /\ DOMAIN vec[c] = 1..Len(vec[c])
  BY HomeIs DEF IInv, Typed
<1>2. \A h \in ActiveHeat(actor, weap) :
        h # Null /\ data[h].rActor = actor /\ data[h].rWeap = weap
        /\ \E i \in DOMAIN vec[c] : vec[c][i] = h
  <2>1. \A h \in Held(c) : h # Null /\ \E i \in DOMAIN vec[c] : vec[c][i] = h
    BY <1>1, HeldIs DEF IInv
  <2> HIDE DEF c
  <2> QED BY <2>1 DEF ActiveHeat, c
<1>3. PICK i \in I : TRUE
  BY <1>1, <1>2
<1>4. \A j \in I : j = i
  BY <1>1, <1>2, <1>3 DEF IInv, OneHeatPerWeapon
<1>5. Min(I) = i
  BY <1>3, <1>4 DEF Min
<1>6. GetActiveHeat(actor, weap) = vec[c][i]
  BY <1>3, <1>5 DEF GetActiveHeat, SelectInSeq
<1> QED BY <1>3, <1>6

(* A step that only moves heats and keeps their owners keeps them apart:    *)
(* src says where each slot was filled from.                                *)
LEMMA Moved ==
  ASSUME OneHeatPerWeapon, NEW src,
         \A c \in Containers : \A i \in DOMAIN vec'[c] : vec'[c][i] # Null =>
           /\ src[c][i] \in DOMAIN vec[c] /\ vec'[c][i] = vec[c][src[c][i]]
           /\ data'[vec'[c][i]].rActor = data[vec'[c][i]].rActor
           /\ data'[vec'[c][i]].rWeap = data[vec'[c][i]].rWeap,
         \A c \in Containers : \A i, j \in DOMAIN vec'[c] :
           vec'[c][i] # Null /\ vec'[c][j] # Null /\ src[c][i] = src[c][j] => i = j
  PROVE  OneHeatPerWeapon'
<1> SUFFICES ASSUME NEW c \in Containers, NEW d \in Containers,
                    NEW i \in DOMAIN vec'[c], NEW j \in DOMAIN vec'[d],
                    vec'[c][i] # Null, vec'[d][j] # Null
             PROVE  /\ Home(data'[vec'[c][i]].rActor) = c
                    /\ data'[vec'[c][i]].rActor = data'[vec'[d][j]].rActor
                       /\ data'[vec'[c][i]].rWeap = data'[vec'[d][j]].rWeap => c = d /\ i = j
  BY DEF OneHeatPerWeapon, Home
<1>1. src[c][i] \in DOMAIN vec[c] /\ vec'[c][i] = vec[c][src[c][i]]
  OBVIOUS
<1>2. src[d][j] \in DOMAIN vec[d] /\ vec'[d][j] = vec[d][src[d][j]]
  OBVIOUS
<1> DEFINE g == vec'[c][i]
           h == vec'[d][j]
<1>3. /\ g # Null /\ h # Null /\ g = vec[c][src[c][i]] /\ h = vec[d][src[d][j]]
      /\ data'[g].rActor = data[g].rActor /\ data'[g].rWeap = data[g].rWeap
      /\ data'[h].rActor = data[h].rActor /\ data'[h].rWeap = data[h].rWeap
  BY <1>1, <1>2
<1>4. c = d /\ src[c][i] = src[d][j] => i = j
  OBVIOUS
<1> HIDE DEF g, h
<1>5. /\ Home(data[g].rActor) = c
      /\ data[g].rActor = data[h].rActor /\ data[g].rWeap = data[h].rWeap
           => c = d /\ src[c][i] = src[d][j]
  BY <1>1, <1>2, <1>3 DEF OneHeatPerWeapon
<1>6. /\ Home(data'[g].rActor) = c
      /\ data'[g].rActor = data'[h].rActor /\ data'[g].rWeap = data'[h].rWeap => c = d /\ i = j
  BY <1>3, <1>4, <1>5
<1> QED BY <1>6 DEF g, h

-----------------------------------------------------------------------------
(* The hooks                                                                *)

(* A heat stored over another keeps the actor and the weapon.               *)
LEMMA GetOrCreateStep ==
  ASSUME IInv, Quiet, NEW actor \in Actors, NEW heat \in 0..1, NEW reset \in BOOLEAN,
         GetOrCreateHeat(actor, heat, reset),
         UNCHANGED <<walk, frames, carried, dying, menu>>
  PROVE  IInv'
<1> DEFINE weap == carried[actor]
           After(r) == [r EXCEPT !.fHeatVal = @ + heat, !.uiTicksPassed = IF reset THEN 0 ELSE @]
<1>0. Typed /\ WalkTyped /\ Filled /\ Known /\ OneHeatPerWeapon /\ Quiet'
  BY DEF IInv, Quiet
<1>1. weap \in Weapons /\ weap # NoWeapon
  BY <1>0, RegistryAssumption DEF GetOrCreateHeat, Typed
<1>2. ASSUME NEW r \in HeatData, After(r).fHeatVal <= HeatBound
      PROVE  After(r) \in HeatData /\ After(r).rActor = r.rActor /\ After(r).rWeap = r.rWeap
  <2> DEFINE v == r.fHeatVal + heat
             ticks == IF reset THEN 0 ELSE r.uiTicksPassed
  <2>1. r.fHeatVal \in Nat /\ r.uiTicksPassed \in 0..MAX_TICKS
    BY DEF HeatData
  <2>2. After(r) = [r EXCEPT !.fHeatVal = v, !.uiTicksPassed = ticks]
    OBVIOUS
  <2>3. ticks \in 0..MAX_TICKS /\ v \in Nat
    BY <2>1, RegistryAssumption
  <2> HIDE DEF v, ticks, After
  <2>4. v <= HeatBound
    BY <1>2, <2>2 DEF HeatData
  <2>5. v \in 0..HeatBound
    BY <2>3, <2>4, RegistryAssumption
  <2> QED BY <2>2, <2>3, <2>5 DEF HeatData
<1>3. WalkTyped'
  BY <1>0 DEF WalkTyped, Quiet
<1>4. CASE ActiveHeat(actor, weap) # {}
  <2> DEFINE h == GetActiveHeat(actor, weap)
  <2>1. After(data[h]).fHeatVal <= HeatBound /\ data' = Put(h, After(data[h])) /\ vec' = vec
    BY <1>4 DEF GetOrCreateHeat
  <2>2. h \in ActiveHeat(actor, weap)
    BY <1>1, <1>4, LookupFinds
  <2> HIDE DEF h, After
  <2>3. h \in DOMAIN data /\ h \in Addresses /\ data[h] \in HeatData
    BY <1>0, <2>2, HomeIs, HeldIs DEF ActiveHeat, Known, Typed
  <2>4. After(data[h]) \in HeatData
    BY <1>2, <2>1, <2>3
  <2>5. /\ DOMAIN data' = DOMAIN data
        /\ \A g \in DOMAIN data : data'[g] = IF g = h THEN After(data[h]) ELSE data[g]
    BY <2>1, <2>3 DEF Put
  <2>6. \A g \in DOMAIN data : data'[g].rActor = data[g].rActor /\ data'[g].rWeap = data[g].rWeap
    BY <1>2, <2>1, <2>3, <2>5
  <2>7. Typed'
    BY <1>0, <2>1, <2>3, <2>4, <2>5 DEF Typed
  <2>8. Filled' /\ Known'
    BY <1>0, <2>1, <2>5 DEF Filled, Known
  <2>9. OneHeatPerWeapon'
    BY <1>0, <2>1, <2>6 DEF OneHeatPerWeapon, Known, Home
  <2> QED BY <1>3, <2>7, <2>8, <2>9 DEF IInv
<1>5. CASE ActiveHeat(actor, weap) = {}
  <2> DEFINE c == Home(actor)
             n == Len(vec[c])
             r == After(NewHeat(actor, weap))
  <2>1. PICK h \in Addresses \ Live :
          /\ r.fHeatVal <= HeatBound /\ data' = Put(h, r)
          /\ vec' = InitializeHeatFX(h, actor)
    BY <1>5 DEF GetOrCreateHeat
  <2>2. NewHeat(actor, weap) \in HeatData
    BY <1>1, RegistryAssumption DEF NewHeat, HeatData
  <2>3. r \in HeatData /\ r.rActor = actor /\ r.rWeap = weap
    BY <1>2, <2>1, <2>2 DEF NewHeat
  <2>4. c \in Containers /\ c \in {"player", "active"}
    BY HomeIs DEF Containers
  <2> HIDE DEF r, After, weap
  <2>5. h # Null /\ \A d \in Containers : \A i \in DOMAIN vec[d] : vec[d][i] # h
    BY <1>0, <2>1, HeldIs, RegistryAssumption DEF Live, Containers
  <2>6. vec' = [vec EXCEPT ![c] = Append(@, h)]
    BY <1>0, <2>1, <2>4, <2>5, HeldIs DEF InitializeHeatFX
  <2>7. /\ vec[c] \in Seq(Slots) /\ n \in Nat /\ h \in Slots /\ DOMAIN vec[c] = 1..n
        /\ vec \in [Containers -> Seq(Slots)]
    BY <1>0, <2>4 DEF Typed, Slots
  <2>8. /\ vec' \in [Containers -> Seq(Slots)]
        /\ DOMAIN vec'[c] = (DOMAIN vec[c]) \cup {n + 1} /\ n + 1 \notin DOMAIN vec[c]
        /\ vec'[c][n + 1] = h /\ \A i \in DOMAIN vec[c] : vec'[c][i] = vec[c][i]
        /\ \A d \in Containers : d # c => vec'[d] = vec[d]
    <3>1. /\ Append(vec[c], h) \in Seq(Slots) /\ Len(Append(vec[c], h)) = n + 1
          /\ Append(vec[c], h)[n + 1] = h
          /\ \A i \in 1..n : Append(vec[c], h)[i] = vec[c][i]
      BY <2>7, AppendProperties
    <3> HIDE DEF c, n
    <3>2. vec'[c] = Append(vec[c], h)
      BY <2>4, <2>6, <2>7
    <3>3. DOMAIN vec'[c] = 1..(n + 1)
      BY <3>1, <3>2
    <3> QED BY <2>4, <2>6, <2>7, <3>1, <3>2, <3>3
  <2> HIDE DEF c, n
  <2>9. /\ DOMAIN data' = DOMAIN data \cup {h}
        /\ \A g \in DOMAIN data' : data'[g] = IF g = h THEN r ELSE data[g]
    BY <2>1 DEF Put
  <2>10. Typed'
    BY <1>0, <2>1, <2>3, <2>8, <2>9 DEF Typed
  <2>11. Filled'
    BY <1>0, <2>4, <2>5, <2>8 DEF Filled
  <2>12. Known'
    BY <1>0, <2>4, <2>5, <2>8, <2>9 DEF Known
  <2>13. \A d \in Containers : \A i \in DOMAIN vec[d] : vec[d][i] # Null =>
            data'[vec[d][i]] = data[vec[d][i]]
    BY <1>0, <2>5, <2>9 DEF Known
  <2>14. \A i \in DOMAIN vec[c] : vec[c][i] # Null =>
            ~(data[vec[c][i]].rActor = actor /\ data[vec[c][i]].rWeap = weap)
    BY <1>0, <1>5, <2>4, HeldIs DEF ActiveHeat, c
  <2>15. \A d \in Containers : d # c => \A i \in DOMAIN vec[d] : vec[d][i] # Null =>
            data[vec[d][i]].rActor # actor
    BY <1>0 DEF OneHeatPerWeapon, c
  <2>16. data'[h].rActor = actor /\ data'[h].rWeap = weap
    BY <2>3, <2>9
  <2>17. ASSUME NEW b \in Containers, NEW d \in Containers,
                NEW i \in DOMAIN vec'[b], NEW j \in DOMAIN vec'[d],
                vec'[b][i] # Null, vec'[d][j] # Null
         PROVE  /\ Home(data'[vec'[b][i]].rActor) = b
                /\ data'[vec'[b][i]].rActor = data'[vec'[d][j]].rActor
                   /\ data'[vec'[b][i]].rWeap = data'[vec'[d][j]].rWeap => b = d /\ i = j
    <3>1. CASE i \in DOMAIN vec[b] /\ j \in DOMAIN vec[d]
      <4>0. vec'[b][i] = vec[b][i] /\ vec'[d][j] = vec[d][j]
        BY <2>8, <3>1
      <4>1. /\ vec'[b][i] = vec[b][i] /\ data'[vec'[b][i]] = data[vec[b][i]]
            /\ vec'[d][j] = vec[d][j] /\ data'[vec'[d][j]] = data[vec[d][j]]
        BY <2>13, <2>17, <3>1, <4>0
      <4>2. /\ Home(data[vec[b][i]].rActor) = b
            /\ data[vec[b][i]].rActor = data[vec[d][j]].rActor
               /\ data[vec[b][i]].rWeap = data[vec[d][j]].rWeap => b = d /\ i = j
        BY <1>0, <2>17, <3>1, <4>1 DEF OneHeatPerWeapon
      <4> QED BY <4>1, <4>2
    <3>2. CASE b = c /\ i = n + 1
      <4>1. Home(data'[vec'[b][i]].rActor) = b
        BY <2>8, <2>16, <3>2 DEF c
      <4>2. CASE d = c /\ j = n + 1
        BY <3>2, <4>1, <4>2
      <4>3. CASE j \in DOMAIN vec[d]
        <5>1. vec'[b][i] = h /\ vec'[d][j] = vec[d][j] /\ vec[d][j] # Null
          BY <2>8, <2>17, <3>2, <4>3
        <5>2. data'[vec'[d][j]] = data[vec[d][j]]
          BY <2>13, <4>3, <5>1
        <5>3. ~(data[vec[d][j]].rActor = actor /\ data[vec[d][j]].rWeap = weap)
          BY <2>14, <2>15, <4>3, <5>1
        <5>4. ~(/\ data'[vec'[b][i]].rActor = data'[vec'[d][j]].rActor
                /\ data'[vec'[b][i]].rWeap = data'[vec'[d][j]].rWeap)
          BY <2>16, <5>1, <5>2, <5>3
        <5> QED BY <4>1, <5>4
      <4> QED BY <2>8, <2>17, <4>2, <4>3
    <3>3. CASE i \in DOMAIN vec[b] /\ d = c /\ j = n + 1
      <4>1. vec'[b][i] = vec[b][i] /\ data'[vec'[b][i]] = data[vec[b][i]]
        BY <2>8, <2>13, <2>17, <3>3
      <4>2. Home(data'[vec'[b][i]].rActor) = b
        BY <1>0, <2>17, <3>3, <4>1 DEF OneHeatPerWeapon
      <4> QED BY <2>8, <2>14, <2>15, <2>16, <2>17, <3>3, <4>1, <4>2
    <3> QED BY <2>8, <2>17, <3>1, <3>2, <3>3
  <2>18. OneHeatPerWeapon'
    BY <2>17 DEF OneHeatPerWeapon, Home
  <2> QED BY <1>3, <2>10, <2>11, <2>12, <2>18 DEF IInv
<1> QED BY <1>4, <1>5

(* The other hooks leave the containers alone, or empty them.               *)
LEMMA HookStep ==
  ASSUME IInv, NEW actor \in Actors,
         \/ GetEquippedOCWeapon(actor) \/ FireWeaponWrapper(actor) \/ Die(actor)
         \/ \E weap \in Weapons \cup {NoWeapon} : Draw(actor, weap)
         \/ SetMenu
  PROVE  IInv'
<1>0. Typed /\ WalkTyped /\ Filled /\ Known /\ OneHeatPerWeapon
  BY DEF IInv
<1>1. CASE GetEquippedOCWeapon(actor) \/ FireWeaponWrapper(actor)
  <2>1. 0 \in 0..1 /\ 1 \in 0..1
    OBVIOUS
  <2>2. /\ Quiet /\ UNCHANGED <<walk, frames, carried, dying, menu>>
        /\ GetOrCreateHeat(actor, 0, FALSE) \/ GetOrCreateHeat(actor, 1, TRUE)
    BY <1>1 DEF GetEquippedOCWeapon, FireWeaponWrapper
  <2>3. CASE GetOrCreateHeat(actor, 0, FALSE)
    BY <2>1, <2>2, <2>3, GetOrCreateStep, Zenon
  <2>4. CASE GetOrCreateHeat(actor, 1, TRUE)
    BY <2>1, <2>2, <2>4, GetOrCreateStep, Zenon
  <2> QED BY <2>2, <2>3, <2>4
<1>2. CASE Die(actor) \/ SetMenu \/ \E weap \in Weapons \cup {NoWeapon} : Draw(actor, weap)
  <2>1. UNCHANGED <<vec, data, walk, frames>>
    BY <1>2 DEF Die, SetMenu, Draw
  <2>2. Typed'
    BY <1>0, <1>2, <2>1 DEF Typed, Die, SetMenu, Draw
  <2>3. WalkTyped' /\ Filled' /\ Known' /\ OneHeatPerWeapon'
    BY <1>0, <2>1 DEF WalkTyped, Filled, Known, OneHeatPerWeapon, Quiet, Home
  <2> QED BY <2>2, <2>3 DEF IInv
<1> QED BY <1>1, <1>2

LEMMA ClearStep == ASSUME IInv, ClearOCWeapons PROVE IInv'
<1>0. Typed /\ WalkTyped
  BY DEF IInv
<1>1. /\ Quiet /\ vec' = [c \in Containers |-> <<>>] /\ data' = <<>> /\ dying' = {}
      /\ UNCHANGED <<walk, frames, carried, menu>>
  BY DEF ClearOCWeapons
<1>2. \A c \in Containers : vec'[c] = <<>> /\ DOMAIN vec'[c] = {}
  BY <1>1
<1>3. Typed'
  <2>1. vec' \in [Containers -> Seq(Slots)]
    BY <1>1
  <2>2. DOMAIN data' = {}
    BY <1>1
  <2>3. dying' \subseteq Actors
    BY <1>1
  <2> QED BY <1>0, <1>1, <2>1, <2>2, <2>3 DEF Typed
<1>4. WalkTyped'
  BY <1>0, <1>1 DEF WalkTyped, Quiet
<1>5. Filled' /\ Known' /\ OneHeatPerWeapon'
  BY <1>2 DEF Filled, Known, OneHeatPerWeapon
<1> QED BY <1>3, <1>4, <1>5 DEF IInv

-----------------------------------------------------------------------------
(* The walk                                                                 *)

LEMMA MainLoopStep == ASSUME IInv, MainLoop PROVE IInv'
<1>0. Typed /\ WalkTyped /\ Filled /\ Known /\ OneHeatPerWeapon
  BY DEF IInv
<1>1. /\ UNCHANGED <<vec, data, frames, carried, dying, menu>>
      /\ Quiet /\ walk' = [on |-> "player", at |-> 1, kept |-> 0, end |-> Len(vec["player"])]
  BY DEF MainLoop, StartOf
<1>2. "player" \in Containers /\ "none" \notin Containers
  BY DEF Containers
<1>3. Len(vec["player"]) \in Nat
  BY <1>0, <1>2 DEF Typed
<1>4. WalkTyped'
  BY <1>1, <1>2, <1>3 DEF WalkTyped, Quiet
<1>5. \A c \in Containers : c # walk.on
  BY <1>1, <1>2 DEF Quiet
<1>6. Filled'
  BY <1>0, <1>1, <1>5 DEF Filled
<1>7. Typed' /\ Known' /\ OneHeatPerWeapon'
  BY <1>0, <1>1 DEF Typed, Known, OneHeatPerWeapon, Home
<1> QED BY <1>4, <1>6, <1>7 DEF IInv

(* UpdateActiveWeapons changes no owner and keeps the counters in range.    *)
LEMMA UpdateTyped ==
  ASSUME NEW r \in HeatData, NEW has3D \in BOOLEAN, NEW blocked \in BOOLEAN,
         NEW scale \in Nat \ {0}
  PROVE  /\ Awake(r, has3D) \in HeatData
         /\ Awake(r, has3D).rActor = r.rActor /\ Awake(r, has3D).rWeap = r.rWeap
         /\ Cooled(r, scale, blocked) \in HeatData
         /\ Cooled(r, scale, blocked).rActor = r.rActor
         /\ Cooled(r, scale, blocked).rWeap = r.rWeap
<1>1. Awake(r, has3D) \in HeatData /\ Awake(r, has3D).rActor = r.rActor
      /\ Awake(r, has3D).rWeap = r.rWeap
  <2> DEFINE asleep == [r EXCEPT !.bIsActive = FALSE]
             drawn  == [r EXCEPT !.bIsActive = TRUE, !.uiTicksPassed = 0]
  <2>1. Awake(r, has3D) \in {r, asleep, drawn}
    BY Zenon DEF Awake
  <2>2. 0 \in 0..MAX_TICKS
    BY RegistryAssumption
  <2>3. asleep \in HeatData /\ asleep.rActor = r.rActor /\ asleep.rWeap = r.rWeap
    BY DEF HeatData
  <2>4. drawn \in HeatData /\ drawn.rActor = r.rActor /\ drawn.rWeap = r.rWeap
    BY <2>2 DEF HeatData
  <2> HIDE DEF asleep, drawn
  <2> QED BY <2>1, <2>3, <2>4
<1> DEFINE ticks == IF r.uiTicksPassed < MAX_TICKS THEN r.uiTicksPassed + 1 ELSE r.uiTicksPassed
           heat == IF r.uiTicksPassed * scale >= COOLDOWN_DELAY /\ ~blocked
                   THEN IF r.fHeatVal > scale THEN r.fHeatVal - scale ELSE 0 ELSE r.fHeatVal
<1>2. ticks \in 0..MAX_TICKS
  BY RegistryAssumption DEF HeatData
<1>3. heat \in 0..HeatBound
  <2> DEFINE cooling == r.uiTicksPassed * scale >= COOLDOWN_DELAY /\ ~blocked
  <2> HIDE DEF cooling
  <2>1. (IF cooling THEN IF r.fHeatVal > scale THEN r.fHeatVal - scale ELSE 0 ELSE r.fHeatVal)
          \in 0..HeatBound
    BY RegistryAssumption DEF HeatData
  <2> QED BY <2>1 DEF cooling
<1>4. Cooled(r, scale, blocked) = [r EXCEPT !.uiTicksPassed = ticks, !.fHeatVal = heat]
  BY Zenon DEF Cooled
<1> HIDE DEF ticks, heat
<1> QED BY <1>1, <1>2, <1>3, <1>4 DEF HeatData

(* The heat that is visited is in the container already.                    *)
LEMMA VisitAddsNothing ==
  ASSUME IInv, ~Quiet, walk.at <= walk.end, NEW has3D \in BOOLEAN
  PROVE  LET h == vec[walk.on][walk.at]
             r == Awake(data[h], has3D)
         IN  /\ walk.at \in DOMAIN vec[walk.on] /\ h # Null
             /\ h \in DOMAIN data /\ h \in Addresses /\ data[h] \in HeatData
             /\ InitializeHeatFX(h, r.rActor) = vec
<1> DEFINE c == walk.on
           h == vec[c][walk.at]
           r == Awake(data[h], has3D)
<1>0. Typed /\ WalkTyped /\ Filled /\ Known /\ OneHeatPerWeapon
  BY DEF IInv
<1>1. /\ c \in Containers /\ vec[c] \in Seq(Slots) /\ walk.end = Len(vec[c])
      /\ walk.at \in Nat \ {0} /\ walk.kept \in Nat
  BY <1>0 DEF WalkTyped, Typed, Quiet
<1>2. walk.at \in DOMAIN vec[c]
  BY <1>1
<1>3. h # Null
  BY <1>0, <1>1, <1>2 DEF Filled
<1>4. h \in DOMAIN data /\ h \in Addresses /\ data[h] \in HeatData
  BY <1>0, <1>1, <1>2, <1>3 DEF Known, Typed
<1>5. Home(data[h].rActor) = c
  BY <1>0, <1>1, <1>2, <1>3 DEF OneHeatPerWeapon
<1>6. r.rActor = data[h].rActor
  BY <1>4, UpdateTyped, RegistryAssumption
<1>7. h \in Held(c)
  BY <1>0, <1>1, <1>2, <1>3, HeldIs
<1>8. InitializeHeatFX(h, r.rActor) = vec
  BY <1>5, <1>6, <1>7 DEF InitializeHeatFX
<1> QED BY <1>2, <1>3, <1>4, <1>8

(* The heat at walk.at is updated, and kept or passed over.                 *)
LEMMA WalkStepStep == ASSUME IInv, WalkStep PROVE IInv' /\ \A c \in Containers : Len(vec'[c]) = Len(vec[c])
<1> DEFINE c == walk.on
           at == walk.at
           kept == walk.kept
           h == vec[c][at]
<1>0. /\ Typed /\ WalkTyped /\ Filled /\ Known /\ OneHeatPerWeapon
      /\ ~Quiet /\ at <= walk.end /\ UNCHANGED <<frames, carried, dying, menu>>
  BY DEF IInv, WalkStep
<1>1. /\ c \in Containers /\ vec[c] \in Seq(Slots) /\ walk.end = Len(vec[c])
      /\ at \in Nat \ {0} /\ kept \in Nat /\ kept < at
  BY <1>0 DEF WalkTyped, Typed, Quiet
<1>2. PICK has3D \in BOOLEAN, charging \in BOOLEAN, broken \in BOOLEAN :
        LET r     == Awake(data[h], has3D)
            grown == IF broken \/ Refreshed(data[h], has3D)
                     THEN InitializeHeatFX(h, r.rActor) ELSE vec
        IN  /\ data' = [data EXCEPT ![h] = Cooled(r, Scale, menu \/ charging)]
            /\ IF Erased(r, Scale)
               THEN vec' = grown /\ walk' = [walk EXCEPT !.at = @ + 1]
               ELSE /\ vec' = [grown EXCEPT ![walk.on] =
                                 [[@ EXCEPT ![walk.at] = Null] EXCEPT ![walk.kept + 1] = h]]
                    /\ walk' = [walk EXCEPT !.at = @ + 1, !.kept = @ + 1]
  BY ZenonT(60) DEF WalkStep
<1> DEFINE r == Awake(data[h], has3D)
           new == Cooled(r, Scale, menu \/ charging)
           slots == [[vec[c] EXCEPT ![at] = Null] EXCEPT ![kept + 1] = h]
<1>3. /\ at \in DOMAIN vec[c] /\ h # Null /\ h \in DOMAIN data /\ h \in Addresses
      /\ data[h] \in HeatData /\ InitializeHeatFX(h, r.rActor) = vec
  BY <1>0, VisitAddsNothing
<1>4. /\ data' = [data EXCEPT ![h] = new]
      /\ \/ vec' = vec /\ walk' = [walk EXCEPT !.at = @ + 1]
         \/ /\ vec' = [vec EXCEPT ![c] = slots]
            /\ walk' = [walk EXCEPT !.at = @ + 1, !.kept = @ + 1]
  BY <1>2, <1>3, Zenon
<1>5. new \in HeatData /\ new.rActor = data[h].rActor /\ new.rWeap = data[h].rWeap
  <2>1. Scale \in Nat \ {0}
    BY RegistryAssumption DEF Scale
  <2>2. (menu \/ charging) \in BOOLEAN
    OBVIOUS
  <2>3. r \in HeatData /\ r.rActor = data[h].rActor /\ r.rWeap = data[h].rWeap
    BY <1>3, <2>1, <2>2, UpdateTyped
  <2> HIDE DEF r
  <2> QED BY <2>1, <2>2, <2>3, UpdateTyped
<1> HIDE DEF r, new
<1>6. /\ DOMAIN data' = DOMAIN data
      /\ \A g \in DOMAIN data : data'[g].rActor = data[g].rActor /\ data'[g].rWeap = data[g].rWeap
      /\ \A g \in DOMAIN data' : g \in Addresses /\ data'[g] \in HeatData
  BY <1>0, <1>3, <1>4, <1>5 DEF Typed
<1>7. /\ slots \in Seq(Slots) /\ Len(slots) = Len(vec[c])
      /\ \A i \in DOMAIN slots :
           slots[i] = IF i = kept + 1 THEN h ELSE IF i = at THEN Null ELSE vec[c][i]
  <2>1. Null \in Slots /\ h \in Slots /\ at \in 1..Len(vec[c]) /\ kept + 1 \in 1..Len(vec[c])
    BY <1>1, <1>3 DEF Slots
  <2> DEFINE half == [vec[c] EXCEPT ![at] = Null]
  <2>2. /\ half \in Seq(Slots) /\ Len(half) = Len(vec[c])
        /\ \A i \in 1..Len(vec[c]) : half[i] = IF i = at THEN Null ELSE vec[c][i]
    BY <1>1, <2>1, ExceptSeq
  <2> HIDE DEF half, h
  <2> DEFINE whole == [half EXCEPT ![kept + 1] = h]
  <2>3. /\ whole \in Seq(Slots) /\ Len(whole) = Len(half)
        /\ \A i \in 1..Len(half) : whole[i] = IF i = kept + 1 THEN h ELSE half[i]
    BY <2>1, <2>2, ExceptSeq
  <2>4. slots = whole
    BY DEF half, h
  <2> HIDE DEF whole, slots
  <2> QED BY <2>2, <2>3, <2>4
<1>8. CASE vec' = vec /\ walk' = [walk EXCEPT !.at = @ + 1]
  <2>1. walk'.on = c /\ walk'.at = at + 1 /\ walk'.kept = kept /\ walk'.end = walk.end
    BY <1>0, <1>8 DEF WalkTyped
  <2>2. WalkTyped'
    BY <1>0, <1>1, <1>8, <2>1 DEF WalkTyped, Quiet
  <2>3. Typed'
    BY <1>0, <1>6, <1>8 DEF Typed
  <2>4. Filled'
    BY <1>0, <1>1, <1>8, <2>1 DEF Filled, Typed
  <2>5. Known'
    BY <1>0, <1>6, <1>8 DEF Known
  <2>6. OneHeatPerWeapon'
    BY <1>0, <1>6, <1>8 DEF OneHeatPerWeapon, Known, Home
  <2> QED BY <1>8, <2>2, <2>3, <2>4, <2>5, <2>6 DEF IInv
<1>9. CASE vec' = [vec EXCEPT ![c] = slots] /\ walk' = [walk EXCEPT !.at = @ + 1, !.kept = @ + 1]
  <2>1. walk'.on = c /\ walk'.at = at + 1 /\ walk'.kept = kept + 1 /\ walk'.end = walk.end
    BY <1>0, <1>9 DEF WalkTyped
  <2>2. /\ vec'[c] = slots /\ \A d \in Containers : d # c => vec'[d] = vec[d]
        /\ vec' \in [Containers -> Seq(Slots)]
    BY <1>0, <1>1, <1>7, <1>9 DEF Typed
  <2>3. DOMAIN slots = DOMAIN vec[c] /\ DOMAIN vec[c] = 1..Len(vec[c])
    BY <1>1, <1>7
  <2> HIDE DEF slots
  <2>4. WalkTyped'
    <3> DEFINE later == [walk EXCEPT !.at = @ + 1, !.kept = @ + 1]
    <3>0. walk' = later
      BY <1>9
    <3>1. later \in [on : Containers \cup {"none"}, at : Nat, kept : Nat, end : Nat]
      <4> DEFINE passed == [walk EXCEPT !.at = @ + 1]
      <4>1. /\ passed \in [on : Containers \cup {"none"}, at : Nat, kept : Nat, end : Nat]
            /\ passed.kept = walk.kept
        BY <1>0 DEF WalkTyped
      <4>2. later = [passed EXCEPT !.kept = walk.kept + 1]
        OBVIOUS
      <4> HIDE DEF passed, later
      <4> QED BY <1>1, <4>1, <4>2
    <3> HIDE DEF later
    <3> QED BY <1>0, <1>1, <1>7, <2>1, <2>2, <3>0, <3>1 DEF WalkTyped, Quiet
  <2>5. Typed'
    BY <1>0, <1>6, <2>2 DEF Typed
  <2>6. Filled'
    <3>1. \A d \in Containers : d # c => \A i \in DOMAIN vec'[d] : vec'[d][i] # Null
      BY <1>0, <2>2 DEF Filled
    <3>2. ASSUME NEW i \in DOMAIN vec'[c], i <= kept + 1 \/ i >= at + 1 PROVE vec'[c][i] # Null
      <4>1. i \in 1..Len(vec[c]) /\ i \in DOMAIN vec[c]
        BY <2>2, <2>3, <3>2
      <4>2. CASE i = kept + 1
        BY <1>3, <1>7, <2>2, <2>3, <4>1, <4>2
      <4>3. CASE i # kept + 1
        <5>1. i # at /\ (i <= kept \/ i >= at)
          BY <1>1, <3>2, <4>1, <4>3
        <5>2. vec'[c][i] = vec[c][i]
          BY <1>7, <2>2, <2>3, <4>1, <4>3, <5>1
        <5>3. vec[c][i] # Null
          BY <1>0, <1>1, <4>1, <5>1 DEF Filled
        <5> QED BY <5>2, <5>3
      <4> QED BY <4>2, <4>3
    <3> QED BY <2>1, <3>1, <3>2 DEF Filled
  <2> DEFINE src == [d \in Containers |-> [i \in Nat |-> IF d = c /\ i = kept + 1 THEN at ELSE i]]
  <2>7. \A d \in Containers : DOMAIN vec'[d] \subseteq Nat
    BY <2>2
  <2>8. ASSUME NEW d \in Containers, NEW i \in DOMAIN vec'[d], vec'[d][i] # Null
        PROVE  src[d][i] \in DOMAIN vec[d] /\ vec'[d][i] = vec[d][src[d][i]]
    <3>1. src[d][i] = IF d = c /\ i = kept + 1 THEN at ELSE i
      BY <2>7
    <3> HIDE DEF src
    <3> QED BY <1>3, <1>7, <2>2, <2>3, <2>8, <3>1
  <2>9. ASSUME NEW d \in Containers, NEW i \in DOMAIN vec'[d], NEW j \in DOMAIN vec'[d],
               vec'[d][i] # Null, vec'[d][j] # Null, src[d][i] = src[d][j]
        PROVE  i = j
    <3>1. /\ src[d][i] = IF d = c /\ i = kept + 1 THEN at ELSE i
          /\ src[d][j] = IF d = c /\ j = kept + 1 THEN at ELSE j
      BY <2>7
    <3> HIDE DEF src
    <3>2. d = c => (i = at => at = kept + 1) /\ (j = at => at = kept + 1)
      BY <1>7, <2>2, <2>3, <2>9
    <3> QED BY <2>9, <3>1, <3>2
  <2> HIDE DEF src
  <2>10. \A d \in Containers : \A i \in DOMAIN vec'[d] : vec'[d][i] # Null =>
            vec'[d][i] \in DOMAIN data
    BY <1>0, <2>8 DEF Known
  <2>11. Known'
    BY <1>6, <2>10 DEF Known
  <2>12. OneHeatPerWeapon'
    <3>1. \A d \in Containers : \A i \in DOMAIN vec'[d] : vec'[d][i] # Null =>
            /\ src[d][i] \in DOMAIN vec[d] /\ vec'[d][i] = vec[d][src[d][i]]
            /\ data'[vec'[d][i]].rActor = data[vec'[d][i]].rActor
            /\ data'[vec'[d][i]].rWeap = data[vec'[d][i]].rWeap
      BY <1>6, <2>8, <2>10
    <3>2. \A d \in Containers : \A i, j \in DOMAIN vec'[d] :
            vec'[d][i] # Null /\ vec'[d][j] # Null /\ src[d][i] = src[d][j] => i = j
      BY <2>9
    <3> QED BY <1>0, <3>1, <3>2, Moved
  <2>13. \A d \in Containers : Len(vec'[d]) = Len(vec[d])
    BY <1>7, <2>2
  <2> QED BY <2>4, <2>5, <2>6, <2>11, <2>12, <2>13 DEF IInv
<1> QED BY <1>4, <1>8, <1>9

(* The erase after remove_if drops the tail, which holds nothing kept.      *)
LEMMA EndStep ==
  ASSUME IInv, EndOfWalk
  PROVE  /\ IInv' /\ Len(vec'[walk.on]) <= Len(vec[walk.on])
         /\ \A d \in Containers : \A i \in DOMAIN vec'[d] :
              /\ i \in DOMAIN vec[d] /\ (d = walk.on => i <= walk.kept)
              /\ vec'[d][i] = vec[d][i] /\ data'[vec'[d][i]] = data[vec[d][i]]
         /\ DOMAIN data' = Live'
<1> DEFINE c == walk.on
           kept == walk.kept
           short == SubSeq(vec[c], 1, kept)
<1>0. /\ Typed /\ WalkTyped /\ Filled /\ Known /\ OneHeatPerWeapon
      /\ ~Quiet /\ walk.at > walk.end /\ UNCHANGED <<carried, dying, menu>>
      /\ vec' = [vec EXCEPT ![c] = short] /\ data' = Restrict(data, Live')
      /\ frames' = Frames /\ walk' = IF Due THEN StartOf("active") ELSE Idle
  BY DEF IInv, EndOfWalk
<1>1. /\ c \in Containers /\ vec[c] \in Seq(Slots) /\ walk.end = Len(vec[c])
      /\ kept \in Nat /\ kept <= Len(vec[c])
  BY <1>0 DEF WalkTyped, Typed, Quiet
<1>2. /\ short \in Seq(Slots) /\ Len(short) = kept /\ DOMAIN short = 1..kept
      /\ \A i \in 1..kept : short[i] = vec[c][i]
  <2> HIDE DEF c, kept
  <2>1. \A i \in 1..kept : vec[c][i] \in Slots
    BY <1>1
  <2>2. /\ SubSeq(vec[c], 1, kept) \in Seq(Slots)
        /\ Len(SubSeq(vec[c], 1, kept)) = IF 1 <= kept THEN kept - 1 + 1 ELSE 0
        /\ \A i \in 1..kept - 1 + 1 : SubSeq(vec[c], 1, kept)[i] = vec[c][1 + i - 1]
    BY <1>1, <2>1, SubSeqProperties
  <2> QED BY <1>1, <2>2
<1>3. /\ vec' \in [Containers -> Seq(Slots)] /\ vec'[c] = short
      /\ \A d \in Containers : d # c => vec'[d] = vec[d]
  BY <1>0, <1>1, <1>2 DEF Typed
<1> HIDE DEF short
<1>4. \A d \in Containers : \A i \in DOMAIN vec'[d] :
        /\ i \in DOMAIN vec[d] /\ (d = c => i <= kept)
        /\ vec'[d][i] = vec[d][i] /\ vec'[d][i] # Null
  <2>1. ASSUME NEW i \in DOMAIN vec'[c]
        PROVE  i \in DOMAIN vec[c] /\ i <= kept /\ vec'[c][i] = vec[c][i] /\ vec'[c][i] # Null
    <3>1. i \in 1..kept /\ i \in DOMAIN vec[c] /\ vec'[c][i] = vec[c][i]
      BY <1>1, <1>2, <1>3
    <3> QED BY <1>0, <1>1, <3>1 DEF Filled
  <2>2. ASSUME NEW d \in Containers, d # c, NEW i \in DOMAIN vec'[d]
        PROVE  i \in DOMAIN vec[d] /\ vec'[d][i] = vec[d][i] /\ vec'[d][i] # Null
    BY <1>0, <1>3, <2>2 DEF Filled
  <2> QED BY <2>1, <2>2
<1>5. \A d \in Containers : \A i \in DOMAIN vec'[d] : vec'[d][i] \in Live'
  BY <1>4 DEF Live, Held, ToSet, Containers
<1>6. Live' \subseteq DOMAIN data
  <2>1. ASSUME NEW g \in Live' PROVE \E d \in Containers : \E i \in DOMAIN vec'[d] : vec'[d][i] = g
    BY <2>1 DEF Live, Held, ToSet, Containers
  <2> QED BY <1>0, <1>4, <2>1 DEF Known
<1>7. DOMAIN data' = Live' /\ \A g \in Live' : data'[g] = data[g]
  BY <1>0 DEF Restrict
<1>8. Known' /\ \A g \in DOMAIN data' : g \in Addresses /\ data'[g] \in HeatData
  BY <1>0, <1>5, <1>6, <1>7 DEF Known, Typed
<1>9. Frames \in 0..NPC_UPDATE_THROTTLE - 1
  <2>1. frames \in 0..NPC_UPDATE_THROTTLE - 1 /\ NPC_UPDATE_THROTTLE \in Nat \ {0}
    BY <1>0, RegistryAssumption DEF Typed
  <2>2. CASE Due
    BY <2>1, <2>2 DEF Frames
  <2>3. CASE ~Due /\ walk.on = "player"
    <3>1. Frames = frames + 1
      BY <2>3, Zenon DEF Frames
    <3> QED BY <2>1, <2>3, <3>1 DEF Due
  <2>4. CASE ~Due /\ walk.on # "player"
    <3>1. Frames = frames
      BY <2>4, Zenon DEF Frames
    <3> QED BY <2>1, <3>1
  <2> QED BY <2>2, <2>3, <2>4
<1>10. Typed'
  BY <1>0, <1>3, <1>8, <1>9 DEF Typed
<1>11. WalkTyped'
  <2>1. "active" \in Containers /\ "player" # "active" /\ "none" \notin Containers
    BY DEF Containers
  <2>2. Len(vec["active"]) \in Nat
    BY <1>0, <2>1 DEF Typed
  <2>3. CASE Due
    <3>1. vec'["active"] = vec["active"]
      BY <1>3, <2>1, <2>3 DEF Due
    <3>2. walk' = [on |-> "active", at |-> 1, kept |-> 0, end |-> Len(vec["active"])]
      BY <1>0, <2>3 DEF StartOf
    <3> QED BY <2>1, <2>2, <3>1, <3>2 DEF WalkTyped, Quiet
  <2>4. CASE ~Due
    <3>1. walk' = [on |-> "none", at |-> 1, kept |-> 0, end |-> 0]
      BY <1>0, <2>4 DEF Idle
    <3> QED BY <3>1 DEF WalkTyped, Quiet
  <2> QED BY <2>3, <2>4
<1>12. Filled'
  BY <1>4 DEF Filled
<1>13. \A d \in Containers : \A i \in DOMAIN vec'[d] : data'[vec'[d][i]] = data[vec[d][i]]
  BY <1>4, <1>5, <1>7
<1>14. OneHeatPerWeapon'
  BY <1>0, <1>4, <1>13 DEF OneHeatPerWeapon, Home
<1>15. IInv'
  BY <1>8, <1>10, <1>11, <1>12, <1>14 DEF IInv
<1> QED BY <1>1, <1>2, <1>3, <1>4, <1>7, <1>13, <1>15

-----------------------------------------------------------------------------

LEMMA Initially == Init => IInv
<1> SUFFICES ASSUME Init PROVE IInv
  OBVIOUS
<1>1. \A c \in Containers : vec[c] = <<>> /\ DOMAIN vec[c] = {}
  BY DEF Init
<1>2. vec \in [Containers -> Seq(Slots)]
  BY DEF Init
<1>3. data = <<>> /\ DOMAIN data = {}
  BY DEF Init
<1>4. Typed
  <2>1. frames \in 0..NPC_UPDATE_THROTTLE - 1
    BY RegistryAssumption DEF Init
  <2>2. \A h \in DOMAIN data : h \in Addresses /\ data[h] \in HeatData
    BY <1>3
  <2>3. carried \in [Actors -> Weapons \cup {NoWeapon}] /\ dying \subseteq Actors /\ menu \in BOOLEAN
    BY DEF Init
  <2> QED BY <1>2, <2>1, <2>2, <2>3 DEF Typed
<1>5. WalkTyped
  BY DEF Init, WalkTyped, Idle, Quiet
<1>6. Filled /\ Known /\ OneHeatPerWeapon
  BY <1>1 DEF Filled, Known, OneHeatPerWeapon
<1> QED BY <1>4, <1>5, <1>6 DEF IInv

LEMMA EveryStep == IInv /\ [Next]_vars => IInv'
<1> SUFFICES ASSUME IInv, [Next]_vars PROVE IInv'
  OBVIOUS
<1>1. CASE Loop
  BY <1>1, MainLoopStep, WalkStepStep, EndStep DEF Loop
<1>2. ASSUME NEW actor \in Actors,
             \/ GetEquippedOCWeapon(actor) \/ FireWeaponWrapper(actor) \/ Die(actor)
             \/ \E weap \in Weapons \cup {NoWeapon} : Draw(actor, weap)
      PROVE  IInv'
  BY <1>2, HookStep
<1>3. CASE SetMenu
  BY <1>3, HookStep, RegistryAssumption
<1>4. CASE ClearOCWeapons
  BY <1>4, ClearStep
<1>5. CASE UNCHANGED vars
  BY <1>5 DEF IInv, Typed, WalkTyped, Filled, Known, OneHeatPerWeapon, Quiet, Home, vars
<1> QED BY <1>1, <1>2, <1>3, <1>4, <1>5 DEF Next

LEMMA Invariance == Spec => []IInv
BY Initially, EveryStep, PTL DEF Spec

-----------------------------------------------------------------------------
(* Theorems                                                                 *)

(* TypeOK: the containers hold heats, the counters of heats and of frames   *)
(* stay in range, and the walk stays inside its container.                  *)
THEOREM RegistryTyped == Spec => []TypeOK
<1>1. ASSUME IInv PROVE TypeOK
  <2>1. Typed /\ WalkTyped
    BY <1>1 DEF IInv
  <2>2. /\ walk.on \in Containers \cup {"none"}
        /\ walk.kept < walk.at /\ walk.at <= walk.end + 1
    BY <2>1 DEF WalkTyped
  <2> QED BY <2>1, <2>2 DEF Typed, TypeOK, Slots
<1> QED BY <1>1, Invariance, PTL

(* OneHeatPerWeapon: GetOrCreateHeat never makes a second heat for an actor *)
(* and weapon, and remove_if neither copies nor loses track of one.         *)
THEOREM OneHeat == Spec => []OneHeatPerWeapon
<1>1. IInv => OneHeatPerWeapon
  BY DEF IInv
<1> QED BY <1>1, Invariance, PTL

(* WalkNeverGrows: InitializeHeatFX, called from the predicate of           *)
(* remove_if, never pushes onto the vector that is being walked.            *)
THEOREM WalkIsSafe == Spec => WalkNeverGrows
<1> DEFINE Fits == ~Quiet => Len(vec'[walk.on]) <= Len(vec[walk.on])
<1>1. ASSUME IInv, Next, ~Quiet PROVE Len(vec'[walk.on]) <= Len(vec[walk.on])
  <2>0. walk.on \in Containers /\ Len(vec[walk.on]) \in Nat
    BY <1>1 DEF IInv, Typed, WalkTyped, Quiet
  <2>1. WalkStep \/ EndOfWalk
    BY <1>1 DEF Next, Loop, MainLoop, GetEquippedOCWeapon, FireWeaponWrapper, Draw, Die,
               SetMenu, ClearOCWeapons
  <2>2. CASE WalkStep
    BY <1>1, <2>0, <2>2, WalkStepStep
  <2>3. CASE EndOfWalk
    BY <1>1, <2>3, EndStep
  <2> QED BY <2>1, <2>2, <2>3
<1>2. IInv /\ [Next]_vars => [Fits]_vars
  BY <1>1
<1> QED BY <1>2, Invariance, PTL DEF Spec, WalkNeverGrows

-----------------------------------------------------------------------------
(* The registry as a map                                                    *)

(* The map that a set of heats with their contents stands for.              *)
Owner(d, h) == <<d[h].rActor, d[h].rWeap>>

Owned(R, d) ==
  [p \in {Owner(d, h) : h \in R} |-> d[CHOOSE h \in R : Owner(d, h) = p].fHeatVal]

Apart(R, d) == \A g, h \in R : Owner(d, g) = Owner(d, h) => g = h

LEMMA OwnedIs ==
  ASSUME NEW R, NEW d, Apart(R, d)
  PROVE  /\ DOMAIN Owned(R, d) = {Owner(d, h) : h \in R}
         /\ \A h \in R : Owned(R, d)[Owner(d, h)] = d[h].fHeatVal
<1>1. ASSUME NEW h \in R PROVE (CHOOSE g \in R : Owner(d, g) = Owner(d, h)) = h
  BY DEF Apart
<1> QED BY <1>1, Zenon DEF Owned

LEMMA OwnedSame ==
  ASSUME NEW R, NEW d, NEW e, \A h \in R : e[h] = d[h]
  PROVE  Owned(R, e) = Owned(R, d)
<1>1. \A h \in R : Owner(e, h) = Owner(d, h)
  BY DEF Owner
<1>2. {Owner(e, h) : h \in R} = {Owner(d, h) : h \in R}
  BY <1>1
<1>3. ASSUME NEW p \in {Owner(d, h) : h \in R}
      PROVE  e[CHOOSE h \in R : Owner(e, h) = p].fHeatVal = d[CHOOSE h \in R : Owner(d, h) = p].fHeatVal
  <2>1. (CHOOSE h \in R : Owner(e, h) = p) = (CHOOSE h \in R : Owner(d, h) = p)
    BY <1>1
  <2>2. (CHOOSE h \in R : Owner(d, h) = p) \in R
    BY <1>3
  <2> QED BY <2>1, <2>2
<1> QED BY <1>2, <1>3 DEF Owned

(* A heat is added, or takes another value.                                 *)
Stored(m, p, heat) == [q \in DOMAIN m \cup {p} |-> IF q = p THEN heat ELSE m[q]]

Stores(R, d, S, e, g) ==
  /\ Apart(R, d) /\ Apart(S, e) /\ S = R \cup {g}
  /\ \A h \in R : h # g => e[h] = d[h]
  /\ g \in R => Owner(e, g) = Owner(d, g)

LEMMA OwnedPut ==
  ASSUME NEW R, NEW d, NEW S, NEW e, NEW g, Stores(R, d, S, e, g)
  PROVE  LET p == Owner(e, g)
             m == Owned(R, d)
         IN  /\ Owned(S, e) = Stored(m, p, e[g].fHeatVal)
             /\ g \in R => p \in DOMAIN m /\ m[p] = d[g].fHeatVal
             /\ g \notin R => p \notin DOMAIN m
<1> DEFINE p == Owner(e, g)
           m == Owned(R, d)
           M == Owned(S, e)
<1> HIDE DEF p, m, M
<1>0. /\ Apart(R, d) /\ Apart(S, e) /\ S = R \cup {g} /\ g \in S
      /\ \A h \in R : h # g => e[h] = d[h]
      /\ g \in R => Owner(e, g) = Owner(d, g)
  BY DEF Stores
<1>1. \A h \in R : Owner(e, h) = Owner(d, h)
  BY <1>0 DEF Owner
<1>2. /\ DOMAIN m = {Owner(d, h) : h \in R}
      /\ \A h \in R : m[Owner(d, h)] = d[h].fHeatVal
  <2>1. Apart(R, d)
    BY DEF Stores
  <2> QED BY <2>1, OwnedIs DEF m
<1>3. /\ DOMAIN M = {Owner(e, h) : h \in S}
      /\ \A h \in S : M[Owner(e, h)] = e[h].fHeatVal
  <2>1. Apart(S, e)
    BY DEF Stores
  <2> QED BY <2>1, OwnedIs DEF M
<1>4. M = [q \in DOMAIN M |-> M[q]]
  BY DEF Owned, M
<1>5. DOMAIN M = DOMAIN m \cup {p}
  BY <1>0, <1>1, <1>2, <1>3 DEF p
<1>6. ASSUME NEW q \in DOMAIN M PROVE M[q] = IF q = p THEN e[g].fHeatVal ELSE m[q]
  <2>1. PICK h \in S : q = Owner(e, h)
    BY <1>3
  <2>2. M[q] = e[h].fHeatVal
    BY <1>3, <2>1
  <2>3. CASE h = g
    BY <2>1, <2>2, <2>3 DEF p
  <2>4. CASE h # g
    <3>1. h \in R /\ q # p
      BY <1>0, <2>1, <2>4 DEF p, Apart
    <3>2. m[q] = d[h].fHeatVal
      BY <1>1, <1>2, <2>1, <3>1
    <3> QED BY <1>0, <2>2, <2>4, <3>1, <3>2
  <2> QED BY <2>3, <2>4
<1>7. M = Stored(m, p, e[g].fHeatVal)
  BY <1>4, <1>5, <1>6 DEF Stored
<1>8. g \in R => p \in DOMAIN m /\ m[p] = d[g].fHeatVal
  BY <1>0, <1>1, <1>2 DEF p
<1>9. g \notin R => p \notin DOMAIN m
  BY <1>0, <1>1, <1>2 DEF p, Apart
<1> QED BY <1>7, <1>8, <1>9 DEF p, m, M

(* A heat is taken away.                                                    *)
Without(m, p) == [q \in DOMAIN m \ {p} |-> m[q]]

Drops(R, d, e, g) == g \in R /\ Apart(R, d) /\ \A h \in R : h # g => e[h] = d[h]

LEMMA OwnedDrop ==
  ASSUME NEW R, NEW d, NEW e, NEW g, Drops(R, d, e, g)
  PROVE  LET p == Owner(d, g)
             m == Owned(R, d)
         IN  /\ p \in DOMAIN m /\ m[p] = d[g].fHeatVal
             /\ Owned(R \ {g}, e) = Without(m, p)
<1> DEFINE S == R \ {g}
           p == Owner(d, g)
           m == Owned(R, d)
           M == Owned(S, d)
<1> HIDE DEF S, p, m, M
<1>0. g \in R /\ Apart(R, d) /\ \A h \in R : h # g => e[h] = d[h]
  BY DEF Drops
<1>1. Apart(S, d)
  BY <1>0 DEF S, Apart
<1>2. /\ DOMAIN m = {Owner(d, h) : h \in R}
      /\ \A h \in R : m[Owner(d, h)] = d[h].fHeatVal
  <2>1. Apart(R, d)
    BY <1>0
  <2> QED BY <2>1, OwnedIs DEF m
<1>3. /\ DOMAIN M = {Owner(d, h) : h \in S}
      /\ \A h \in S : M[Owner(d, h)] = d[h].fHeatVal
  BY <1>1, OwnedIs DEF M
<1>4. M = [q \in DOMAIN M |-> M[q]]
  BY DEF Owned, M
<1>5. Owned(S, e) = M
  <2>1. \A h \in S : e[h] = d[h]
    BY <1>0 DEF S
  <2> QED BY <2>1, OwnedSame DEF M
<1>6. DOMAIN M = DOMAIN m \ {p}
  BY <1>0, <1>2, <1>3 DEF p, S, Apart
<1>7. \A q \in DOMAIN M : M[q] = m[q]
  BY <1>2, <1>3 DEF S
<1>8. M = Without(m, p)
  BY <1>4, <1>6, <1>7 DEF Without
<1>9. p \in DOMAIN m /\ m[p] = d[g].fHeatVal
  BY <1>0, <1>2 DEF p
<1> QED BY <1>5, <1>8, <1>9 DEF p, m, S

(* The registered heats.                                                    *)
Filed(h) ==
  \E c \in Containers : \E i \in DOMAIN vec[c] :
    vec[c][i] = h /\ (c # walk.on \/ i <= walk.kept \/ i >= walk.at)

LEMMA RegisteredAre == \A h : (h \in Registered <=> Filed(h)) /\ (h \in Registered' <=> Filed(h)')
<1>1. \A h : h \in Registered <=> Filed(h)
  BY DEF Registered, Filed, ToSet
<1>2. \A h : h \in Registered' <=> Filed(h)'
  BY DEF Registered, Filed, ToSet
<1> QED BY <1>1, <1>2

LEMMA ApartIf ==
  ASSUME NEW v, NEW d, NEW R,
         \A h \in R : h # Null /\ \E c \in Containers : \E i \in DOMAIN v[c] : v[c][i] = h,
         \A b, c \in Containers : \A i \in DOMAIN v[b], j \in DOMAIN v[c] :
           /\ v[b][i] # Null /\ v[c][j] # Null
           /\ d[v[b][i]].rActor = d[v[c][j]].rActor /\ d[v[b][i]].rWeap = d[v[c][j]].rWeap
           => b = c /\ i = j
  PROVE  Apart(R, d)
<1> SUFFICES ASSUME NEW g \in R, NEW h \in R, Owner(d, g) = Owner(d, h) PROVE g = h
  BY DEF Apart
<1>1. d[g].rActor = d[h].rActor /\ d[g].rWeap = d[h].rWeap /\ g # Null /\ h # Null
  BY DEF Owner
<1>2. PICK b \in Containers : \E i \in DOMAIN v[b] : v[b][i] = g
  OBVIOUS
<1>3. PICK i \in DOMAIN v[b] : v[b][i] = g
  BY <1>2
<1>4. PICK c \in Containers : \E j \in DOMAIN v[c] : v[c][j] = h
  OBVIOUS
<1>5. PICK j \in DOMAIN v[c] : v[c][j] = h
  BY <1>4
<1>6. b = c /\ i = j
  BY <1>1, <1>3, <1>5
<1> QED BY <1>3, <1>5, <1>6

LEMMA RegisteredApart ==
  ASSUME IInv
  PROVE  /\ Apart(Registered, data)
         /\ \A h \in Registered :
              h # Null /\ h \in DOMAIN data /\ Owner(data, h) \in Actors \X Weapons
<1>0. Typed /\ Filled /\ Known /\ OneHeatPerWeapon
  BY DEF IInv
<1>1. \A h \in Registered : /\ h # Null /\ h \in DOMAIN data
                            /\ \E c \in Containers : \E i \in DOMAIN vec[c] : vec[c][i] = h
  BY <1>0, RegisteredAre DEF Filed, Filled, Known
<1>2. \A h \in Registered : Owner(data, h) \in Actors \X Weapons
  BY <1>0, <1>1 DEF Typed, HeatData, Owner
<1>3. Apart(Registered, data)
  BY <1>0, <1>1, ApartIf DEF OneHeatPerWeapon
<1> QED BY <1>1, <1>2, <1>3

LEMMA RegisteredApartNext ==
  ASSUME IInv'
  PROVE  /\ Apart(Registered', data')
         /\ \A h \in Registered' : Owner(data', h) \in Actors \X Weapons
<1>0. Typed' /\ Filled' /\ Known' /\ OneHeatPerWeapon'
  BY DEF IInv
<1>1. \A h \in Registered' : /\ h # Null /\ h \in DOMAIN data'
                             /\ \E c \in Containers : \E i \in DOMAIN vec'[c] : vec'[c][i] = h
  BY <1>0, RegisteredAre DEF Filed, Filled, Known
<1>2. \A h \in Registered' : Owner(data', h) \in Actors \X Weapons
  BY <1>0, <1>1 DEF Typed, HeatData, Owner
<1>3. Apart(Registered', data')
  BY <1>0, <1>1, ApartIf DEF OneHeatPerWeapon
<1> QED BY <1>2, <1>3

(* The steps of the map, in terms of Owned.                                 *)
LEMMA HeatByPairIs ==
  HeatByPair = Owned(Registered, data) /\ HeatByPair' = Owned(Registered', data')
BY DEF HeatByPair, Owned, Owner, PairOf

LEMMA MapPut ==
  ASSUME NEW p, NEW heat,
         HeatByPair' = Stored(HeatByPair, p, heat)
  PROVE  Map!Put(p, heat)
BY DEF Map!Put, Stored

LEMMA MapHeatAt ==
  \A p : Map!HeatAt(p) = IF p \in DOMAIN HeatByPair THEN HeatByPair[p] ELSE 0
BY DEF Map!HeatAt

LEMMA MapForget ==
  ASSUME NEW p, p \in DOMAIN HeatByPair, HeatByPair[p] = 0,
         HeatByPair' = Without(HeatByPair, p)
  PROVE  Map!Forget(p)
<1>1. (DOMAIN HeatByPair) \cap (DOMAIN HeatByPair \ {p}) = DOMAIN HeatByPair \ {p}
  OBVIOUS
<1> QED BY <1>1 DEF Map!Forget, Map!Restrict, Restrict, Without

LEMMA MapEmpty ==
  /\ Registered' = {} => Map!Clear
  /\ Registered = {} => Map!Init
<1>1. \A d : Owned({}, d) = <<>>
  BY DEF Owned
<1> QED BY <1>1, HeatByPairIs DEF Map!Clear, Map!Init

(* A step that stores one heat, new or old.                                 *)
LEMMA StoreMaps ==
  ASSUME IInv, IInv', NEW g, Registered' = Registered \cup {g},
         \A h \in Registered : h # g => data'[h] = data[h],
         g \in Registered => Owner(data', g) = Owner(data, g)
  PROVE  LET p == Owner(data', g)
         IN  /\ p \in Actors \X Weapons
             /\ Map!Put(p, data'[g].fHeatVal)
             /\ Map!HeatAt(p) = IF g \in Registered THEN data[g].fHeatVal ELSE 0
             /\ g \in Registered => p \in DOMAIN HeatByPair /\ HeatByPair[p] = data[g].fHeatVal
<1> DEFINE p == Owner(data', g)
           m == Owned(Registered, data)
<1>1. Apart(Registered, data) /\ Apart(Registered', data') /\ p \in Actors \X Weapons
  BY RegisteredApart, RegisteredApartNext
<1>2. Stores(Registered, data, Registered', data', g)
  BY <1>1 DEF Stores
<1>3. /\ Owned(Registered', data') = Stored(m, p, data'[g].fHeatVal)
      /\ g \in Registered => p \in DOMAIN m /\ m[p] = data[g].fHeatVal
      /\ g \notin Registered => p \notin DOMAIN m
  BY <1>2, OwnedPut
<1> HIDE DEF p, m
<1>4. m = HeatByPair
  BY HeatByPairIs DEF m
<1>5. HeatByPair' = Stored(HeatByPair, p, data'[g].fHeatVal)
  BY <1>3, <1>4, HeatByPairIs
<1>6. Map!Put(p, data'[g].fHeatVal)
  BY <1>5, MapPut
<1>7. Map!HeatAt(p) = IF g \in Registered THEN data[g].fHeatVal ELSE 0
  BY <1>3, <1>4, MapHeatAt
<1> QED BY <1>1, <1>3, <1>4, <1>6, <1>7 DEF p

(* A step that stores no heat.                                              *)
LEMMA NoStoreMaps ==
  ASSUME Registered' = Registered, \A h \in Registered : data'[h] = data[h]
  PROVE  HeatByPair' = HeatByPair
BY OwnedSame, HeatByPairIs

LEMMA GetOrCreateMaps ==
  ASSUME IInv, IInv', Quiet, NEW actor \in Actors, NEW heat \in 0..1, NEW reset \in BOOLEAN,
         GetOrCreateHeat(actor, heat, reset), UNCHANGED walk
  PROVE  \E p \in Actors \X Weapons :
           Map!HeatAt(p) \in Nat /\ Map!Put(p, Map!HeatAt(p) + heat)
<1> DEFINE weap == carried[actor]
           After(r) == [r EXCEPT !.fHeatVal = @ + heat, !.uiTicksPassed = IF reset THEN 0 ELSE @]
<1>0. Typed /\ Known /\ WalkTyped
  BY DEF IInv
<1>1. weap \in Weapons
  BY <1>0, RegistryAssumption DEF GetOrCreateHeat, Typed
<1>2. \A r \in HeatData : /\ After(r).fHeatVal = r.fHeatVal + heat
                          /\ After(r).rActor = r.rActor /\ After(r).rWeap = r.rWeap
  BY DEF HeatData
<1>3. walk.on \notin Containers /\ walk' = walk
  BY DEF Quiet, Containers
<1>4. /\ \A g : g \in Registered <=> \E c \in Containers : \E i \in DOMAIN vec[c] : vec[c][i] = g
      /\ \A g : g \in Registered' <=> \E c \in Containers : \E i \in DOMAIN vec'[c] : vec'[c][i] = g
  BY <1>3, RegisteredAre DEF Filed
<1>5. CASE ActiveHeat(actor, weap) # {}
  <2> DEFINE h == GetActiveHeat(actor, weap)
  <2>1. data' = Put(h, After(data[h])) /\ vec' = vec
    BY <1>5 DEF GetOrCreateHeat
  <2>2. h \in ActiveHeat(actor, weap)
    BY <1>1, <1>5, LookupFinds
  <2> HIDE DEF h, After
  <2>3. h \in Registered
    BY <1>0, <1>4, <2>2, HomeIs, HeldIs DEF ActiveHeat
  <2>4. h \in DOMAIN data /\ data[h] \in HeatData
    BY <1>0, <2>3, RegisteredApart DEF Typed
  <2>5. Registered' = Registered
    BY <1>4, <2>1
  <2>6. \A g \in DOMAIN data : data'[g] = IF g = h THEN After(data[h]) ELSE data[g]
    BY <2>1, <2>4 DEF Put
  <2>7. /\ Registered' = Registered \cup {h}
        /\ \A g \in Registered : g # h => data'[g] = data[g]
        /\ Owner(data', h) = Owner(data, h) /\ data'[h].fHeatVal = data[h].fHeatVal + heat
    BY <1>2, <2>3, <2>4, <2>5, <2>6, RegisteredApart DEF Owner
  <2>8. data[h].fHeatVal \in Nat
    BY <2>4, RegistryAssumption DEF HeatData
  <2> DEFINE p == Owner(data', h)
  <2>9. /\ p \in Actors \X Weapons /\ Map!Put(p, data'[h].fHeatVal)
        /\ Map!HeatAt(p) = data[h].fHeatVal
    BY <2>3, <2>7, StoreMaps
  <2> HIDE DEF p
  <2> QED BY <2>7, <2>8, <2>9
<1>6. CASE ActiveHeat(actor, weap) = {}
  <2> DEFINE c == Home(actor)
             r == After(NewHeat(actor, weap))
  <2>1. PICK h \in Addresses \ Live :
          data' = Put(h, r) /\ vec' = InitializeHeatFX(h, actor)
    BY <1>6 DEF GetOrCreateHeat
  <2>2. r.fHeatVal = 0 + heat
    BY <1>1, <1>2, RegistryAssumption DEF NewHeat, HeatData
  <2> HIDE DEF r, After, weap
  <2>3. c \in Containers /\ c \in {"player", "active"}
    BY HomeIs DEF Containers
  <2>4. h # Null /\ \A d \in Containers : \A i \in DOMAIN vec[d] : vec[d][i] # h
    BY <1>0, <2>1, HeldIs, RegistryAssumption DEF Live, Containers
  <2>5. vec' = [vec EXCEPT ![c] = Append(@, h)]
    BY <1>0, <2>1, <2>3, <2>4, HeldIs DEF InitializeHeatFX
  <2>6. /\ vec[c] \in Seq(Slots) /\ h \in Slots /\ DOMAIN vec[c] = 1..Len(vec[c])
        /\ vec \in [Containers -> Seq(Slots)] /\ Len(vec[c]) \in Nat
    BY <1>0, <2>1, <2>3 DEF Typed, Slots
  <2>7. /\ DOMAIN vec'[c] = (DOMAIN vec[c]) \cup {Len(vec[c]) + 1}
        /\ vec'[c][Len(vec[c]) + 1] = h /\ \A i \in DOMAIN vec[c] : vec'[c][i] = vec[c][i]
        /\ \A d \in Containers : d # c => vec'[d] = vec[d]
    <3>1. /\ Append(vec[c], h) \in Seq(Slots) /\ Len(Append(vec[c], h)) = Len(vec[c]) + 1
          /\ Append(vec[c], h)[Len(vec[c]) + 1] = h
          /\ \A i \in 1..Len(vec[c]) : Append(vec[c], h)[i] = vec[c][i]
      BY <2>6, AppendProperties
    <3> HIDE DEF c
    <3>2. vec'[c] = Append(vec[c], h)
      BY <2>3, <2>5, <2>6
    <3>3. DOMAIN vec'[c] = 1..(Len(vec[c]) + 1)
      BY <3>1, <3>2
    <3> QED BY <2>3, <2>5, <2>6, <3>1, <3>2, <3>3
  <2> HIDE DEF c
  <2>8. Registered' = Registered \cup {h}
    <3>1. \A g : g \in Registered' <=> g \in Registered \/ g = h
      BY <1>4, <2>3, <2>7
    <3> QED BY <3>1
  <2>9. h \notin Registered
    BY <1>4, <2>4
  <2>10. /\ \A g \in Registered : g # h => data'[g] = data[g]
         /\ data'[h].fHeatVal = 0 + heat
    BY <2>1, <2>2, RegisteredApart DEF Put
  <2> QED BY <2>8, <2>9, <2>10, StoreMaps
<1> QED BY <1>5, <1>6

(* A step that takes a cold heat away.                                      *)
LEMMA DropMaps ==
  ASSUME IInv, NEW g \in Registered, Registered' = Registered \ {g},
         \A h \in Registered : h # g => data'[h] = data[h], data[g].fHeatVal = 0
  PROVE  Map!Next
<1> DEFINE p == Owner(data, g)
           m == Owned(Registered, data)
<1>1. Apart(Registered, data) /\ p \in Actors \X Weapons
  BY RegisteredApart
<1>2. Drops(Registered, data, data', g)
  BY <1>1 DEF Drops
<1>3. /\ p \in DOMAIN m /\ m[p] = data[g].fHeatVal
      /\ Owned(Registered \ {g}, data') = Without(m, p)
  BY <1>2, OwnedDrop
<1>4. m = HeatByPair /\ HeatByPair' = Owned(Registered \ {g}, data')
  BY HeatByPairIs
<1> HIDE DEF p, m
<1>5. Map!Forget(p)
  BY <1>3, <1>4, MapForget
<1> QED BY <1>1, <1>5 DEF Map!Next, p

(* What a turn of the walk does.                                            *)
LEMMA UpdateCools ==
  ASSUME NEW r \in HeatData, NEW has3D \in BOOLEAN, NEW blocked \in BOOLEAN,
         NEW scale \in Nat \ {0}
  PROVE  /\ Awake(r, has3D).fHeatVal = r.fHeatVal
         /\ Cooled(r, scale, blocked).fHeatVal <= r.fHeatVal
<1>1. Awake(r, has3D).fHeatVal = r.fHeatVal
  BY DEF Awake, HeatData
<1> DEFINE cooling == r.uiTicksPassed * scale >= COOLDOWN_DELAY /\ ~blocked
           ticks   == IF r.uiTicksPassed < MAX_TICKS THEN r.uiTicksPassed + 1 ELSE r.uiTicksPassed
           heat    == IF cooling THEN IF r.fHeatVal > scale THEN r.fHeatVal - scale ELSE 0
                      ELSE r.fHeatVal
<1>2. Cooled(r, scale, blocked) = [r EXCEPT !.uiTicksPassed = ticks, !.fHeatVal = heat]
  BY Zenon DEF Cooled
<1>3. heat <= r.fHeatVal
  <2> HIDE DEF cooling
  <2> QED BY DEF HeatData
<1> HIDE DEF ticks, heat
<1> QED BY <1>1, <1>2, <1>3 DEF HeatData

LEMMA WalkStepIs ==
  ASSUME IInv, WalkStep
  PROVE  LET c == walk.on
             h == vec[c][walk.at]
             new == data'[h]
         IN  /\ c \in Containers /\ walk.at \in DOMAIN vec[c] /\ h \in DOMAIN data /\ h # Null
             /\ \A g \in DOMAIN data : g # h => data'[g] = data[g]
             /\ Owner(data', h) = Owner(data, h)
             /\ new.fHeatVal \in 0..data[h].fHeatVal
             /\ walk'.on = c /\ walk'.at = walk.at + 1
             /\ \/ vec' = vec /\ walk'.kept = walk.kept /\ data[h].fHeatVal = 0
                \/ /\ walk'.kept = walk.kept + 1
                   /\ \A d \in Containers : DOMAIN vec'[d] = DOMAIN vec[d]
                   /\ \A d \in Containers : d # c => vec'[d] = vec[d]
                   /\ \A i \in DOMAIN vec[c] :
                        vec'[c][i] = IF i = walk.kept + 1 THEN h
                                     ELSE IF i = walk.at THEN Null ELSE vec[c][i]
<1> DEFINE c == walk.on
           at == walk.at
           kept == walk.kept
           h == vec[c][at]
<1>0. /\ Typed /\ WalkTyped /\ ~Quiet /\ at <= walk.end
  BY DEF IInv, WalkStep
<1>1. /\ c \in Containers /\ vec[c] \in Seq(Slots) /\ walk.end = Len(vec[c])
      /\ at \in Nat \ {0} /\ kept \in Nat /\ kept < at
  BY <1>0 DEF WalkTyped, Typed, Quiet
<1>2. PICK has3D \in BOOLEAN, charging \in BOOLEAN, broken \in BOOLEAN :
        LET r     == Awake(data[h], has3D)
            grown == IF broken \/ Refreshed(data[h], has3D)
                     THEN InitializeHeatFX(h, r.rActor) ELSE vec
        IN  /\ data' = [data EXCEPT ![h] = Cooled(r, Scale, menu \/ charging)]
            /\ IF Erased(r, Scale)
               THEN vec' = grown /\ walk' = [walk EXCEPT !.at = @ + 1]
               ELSE /\ vec' = [grown EXCEPT ![walk.on] =
                                 [[@ EXCEPT ![walk.at] = Null] EXCEPT ![walk.kept + 1] = h]]
                    /\ walk' = [walk EXCEPT !.at = @ + 1, !.kept = @ + 1]
  BY ZenonT(60) DEF WalkStep
<1> DEFINE r == Awake(data[h], has3D)
           new == Cooled(r, Scale, menu \/ charging)
           slots == [[vec[c] EXCEPT ![at] = Null] EXCEPT ![kept + 1] = h]
<1>3. /\ at \in DOMAIN vec[c] /\ h # Null /\ h \in DOMAIN data /\ h \in Addresses
      /\ data[h] \in HeatData /\ InitializeHeatFX(h, r.rActor) = vec
  BY <1>0, VisitAddsNothing
<1>4. /\ data' = [data EXCEPT ![h] = new]
      /\ \/ vec' = vec /\ walk' = [walk EXCEPT !.at = @ + 1] /\ Erased(r, Scale)
         \/ /\ vec' = [vec EXCEPT ![c] = slots]
            /\ walk' = [walk EXCEPT !.at = @ + 1, !.kept = @ + 1]
  BY <1>2, <1>3, Zenon
<1>5. /\ new \in HeatData /\ new.rActor = data[h].rActor /\ new.rWeap = data[h].rWeap
      /\ r.fHeatVal = data[h].fHeatVal /\ new.fHeatVal <= data[h].fHeatVal
      /\ data[h].fHeatVal \in Nat /\ new.fHeatVal \in Nat
  <2>1. Scale \in Nat \ {0}
    BY RegistryAssumption DEF Scale
  <2>2. (menu \/ charging) \in BOOLEAN
    OBVIOUS
  <2>3. /\ r \in HeatData /\ r.rActor = data[h].rActor /\ r.rWeap = data[h].rWeap
        /\ r.fHeatVal = data[h].fHeatVal
    BY <1>3, <2>1, <2>2, UpdateTyped, UpdateCools
  <2> HIDE DEF r
  <2>4. /\ new \in HeatData /\ new.rActor = r.rActor /\ new.rWeap = r.rWeap
        /\ new.fHeatVal <= r.fHeatVal
    BY <2>1, <2>2, <2>3, UpdateTyped, UpdateCools
  <2>5. \A x \in HeatData : x.fHeatVal \in Nat
    BY RegistryAssumption DEF HeatData
  <2> HIDE DEF new
  <2> QED BY <1>3, <2>3, <2>4, <2>5
<1>6. Erased(r, Scale) => r.fHeatVal = 0
  BY DEF Erased
<1> HIDE DEF r, new
<1>7. /\ \A g \in DOMAIN data : g # h => data'[g] = data[g]
      /\ data'[h] = new
  BY <1>3, <1>4
<1>8. /\ Owner(data', h) = Owner(data, h)
      /\ data'[h].fHeatVal \in 0..data[h].fHeatVal
  BY <1>5, <1>7 DEF Owner
<1>9. CASE vec' = vec /\ walk' = [walk EXCEPT !.at = @ + 1] /\ Erased(r, Scale)
  <2>1. walk'.on = c /\ walk'.at = at + 1 /\ walk'.kept = kept
    BY <1>0, <1>9 DEF WalkTyped
  <2> QED BY <1>1, <1>3, <1>5, <1>6, <1>7, <1>8, <1>9, <2>1
<1>10. CASE vec' = [vec EXCEPT ![c] = slots] /\ walk' = [walk EXCEPT !.at = @ + 1, !.kept = @ + 1]
  <2>1. walk'.on = c /\ walk'.at = at + 1 /\ walk'.kept = kept + 1
    BY <1>0, <1>10 DEF WalkTyped
  <2>2. /\ DOMAIN slots = DOMAIN vec[c]
        /\ \A i \in DOMAIN vec[c] :
             slots[i] = IF i = kept + 1 THEN h ELSE IF i = at THEN Null ELSE vec[c][i]
    OBVIOUS
  <2> HIDE DEF slots
  <2>3. /\ vec'[c] = slots /\ \A d \in Containers : d # c => vec'[d] = vec[d]
    BY <1>0, <1>1, <1>10 DEF Typed
  <2> QED BY <1>1, <1>3, <1>5, <1>7, <1>8, <2>1, <2>2, <2>3
<1> QED BY <1>4, <1>9, <1>10

LEMMA WalkStepMaps ==
  ASSUME IInv, IInv', WalkStep
  PROVE  Map!Next
<1> DEFINE c == walk.on
           h == vec[c][walk.at]
<1>0. Typed /\ WalkTyped /\ OneHeatPerWeapon
  BY DEF IInv
<1>1. /\ c \in Containers /\ walk.at \in DOMAIN vec[c] /\ h \in DOMAIN data /\ h # Null
      /\ \A g \in DOMAIN data : g # h => data'[g] = data[g]
      /\ Owner(data', h) = Owner(data, h)
      /\ data'[h].fHeatVal \in 0..data[h].fHeatVal
      /\ walk'.on = c /\ walk'.at = walk.at + 1
      /\ \/ vec' = vec /\ walk'.kept = walk.kept /\ data[h].fHeatVal = 0
         \/ /\ walk'.kept = walk.kept + 1
            /\ \A d \in Containers : DOMAIN vec'[d] = DOMAIN vec[d]
            /\ \A d \in Containers : d # c => vec'[d] = vec[d]
            /\ \A i \in DOMAIN vec[c] :
                 vec'[c][i] = IF i = walk.kept + 1 THEN h
                              ELSE IF i = walk.at THEN Null ELSE vec[c][i]
  BY WalkStepIs
<1> HIDE DEF h
<1>2. /\ walk.kept \in Nat /\ walk.at \in Nat /\ walk.kept < walk.at
      /\ \A d \in Containers : DOMAIN vec[d] \subseteq Nat
      /\ walk.kept + 1 \in DOMAIN vec[c]
  BY <1>0, <1>1 DEF Typed, WalkTyped
<1>3. h \in Registered
  BY <1>1, <1>2, RegisteredAre DEF Filed, h
<1>4. \A g \in Registered : g # h => data'[g] = data[g]
  BY <1>1, RegisteredApart
<1>5. CASE vec' = vec /\ walk'.kept = walk.kept /\ data[h].fHeatVal = 0
  <2>1. ASSUME NEW g, Filed(g)' PROVE Filed(g) /\ g # h
    <3>1. PICK d \in Containers : \E i \in DOMAIN vec[d] :
            vec[d][i] = g /\ (d # c \/ i <= walk.kept \/ i >= walk.at + 1)
      BY <1>1, <1>5, <2>1 DEF Filed
    <3>2. PICK i \in DOMAIN vec[d] :
            vec[d][i] = g /\ (d # c \/ i <= walk.kept \/ i >= walk.at + 1)
      BY <3>1
    <3>3. Filed(g) /\ ~(d = c /\ i = walk.at)
      BY <1>2, <3>2 DEF Filed
    <3>4. g # h
      BY <1>0, <1>1, <3>2, <3>3, SMTT(30) DEF OneHeatPerWeapon, h
    <3> QED BY <3>3, <3>4
  <2>2. ASSUME NEW g, Filed(g), g # h PROVE Filed(g)'
    <3>1. PICK d \in Containers : \E i \in DOMAIN vec[d] :
            vec[d][i] = g /\ (d # c \/ i <= walk.kept \/ i >= walk.at)
      BY <2>2 DEF Filed
    <3>2. PICK i \in DOMAIN vec[d] :
            vec[d][i] = g /\ (d # c \/ i <= walk.kept \/ i >= walk.at)
      BY <3>1
    <3>3. d # c \/ i <= walk.kept \/ i >= walk.at + 1
      BY <1>2, <2>2, <3>2 DEF h
    <3> QED BY <1>1, <1>5, <3>2, <3>3 DEF Filed
  <2>3. Registered' = Registered \ {h}
    <3>1. \A g : g \in Registered' <=> g \in Registered /\ g # h
      BY <2>1, <2>2, RegisteredAre
    <3> QED BY <3>1
  <2> QED BY <1>3, <1>4, <1>5, <2>3, DropMaps
<1>6. CASE ~(vec' = vec /\ walk'.kept = walk.kept /\ data[h].fHeatVal = 0)
  <2>0. /\ walk'.kept = walk.kept + 1
        /\ \A d \in Containers : DOMAIN vec'[d] = DOMAIN vec[d]
        /\ \A d \in Containers : d # c => vec'[d] = vec[d]
        /\ \A i \in DOMAIN vec[c] :
             vec'[c][i] = IF i = walk.kept + 1 THEN h
                          ELSE IF i = walk.at THEN Null ELSE vec[c][i]
    BY <1>1, <1>6
  <2>1. ASSUME NEW g, Filed(g)' PROVE Filed(g) \/ g = h
    <3>1. PICK d \in Containers : \E i \in DOMAIN vec[d] :
            vec'[d][i] = g /\ (d # c \/ i <= walk.kept + 1 \/ i >= walk.at + 1)
      BY <1>1, <2>0, <2>1 DEF Filed
    <3>2. PICK i \in DOMAIN vec[d] :
            vec'[d][i] = g /\ (d # c \/ i <= walk.kept + 1 \/ i >= walk.at + 1)
      BY <3>1
    <3>3. CASE d # c
      BY <2>0, <3>2, <3>3 DEF Filed
    <3>4. CASE d = c /\ i = walk.kept + 1
      BY <2>0, <3>2, <3>4
    <3>5. CASE d = c /\ i # walk.kept + 1
      <4>1. i # walk.at /\ (i <= walk.kept \/ i >= walk.at)
        BY <1>2, <3>2, <3>5
      <4>2. vec[d][i] = g
        BY <2>0, <3>2, <3>5, <4>1
      <4> QED BY <4>1, <4>2 DEF Filed
    <3> QED BY <3>3, <3>4, <3>5
  <2>2. ASSUME NEW g, Filed(g) PROVE Filed(g)'
    <3>1. PICK d \in Containers : \E i \in DOMAIN vec[d] :
            vec[d][i] = g /\ (d # c \/ i <= walk.kept \/ i >= walk.at)
      BY <2>2 DEF Filed
    <3>2. PICK i \in DOMAIN vec[d] :
            vec[d][i] = g /\ (d # c \/ i <= walk.kept \/ i >= walk.at)
      BY <3>1
    <3>3. CASE d # c
      BY <1>1, <2>0, <3>2, <3>3 DEF Filed
    <3>4. CASE d = c /\ i = walk.at
      <4>1. g = h /\ vec'[c][walk.kept + 1] = g
        BY <1>2, <2>0, <3>2, <3>4 DEF h
      <4>2. walk.kept + 1 \in DOMAIN vec'[c] /\ walk.kept + 1 <= walk'.kept
        BY <1>1, <1>2, <2>0
      <4> QED BY <1>1, <4>1, <4>2 DEF Filed
    <3>5. CASE d = c /\ i # walk.at
      <4>1. i # walk.kept + 1 /\ (i <= walk.kept + 1 \/ i >= walk.at + 1)
        BY <1>2, <3>2, <3>5
      <4>2. vec'[d][i] = g
        BY <2>0, <3>2, <3>5, <4>1
      <4> QED BY <1>1, <2>0, <3>2, <4>1, <4>2 DEF Filed
    <3> QED BY <3>3, <3>4, <3>5
  <2>3. Registered' = Registered \cup {h}
    <3>1. \A g : g \in Registered' <=> g \in Registered \/ g = h
      BY <1>3, <2>1, <2>2, RegisteredAre
    <3> QED BY <3>1
  <2> DEFINE p == Owner(data', h)
  <2>4. /\ p \in Actors \X Weapons /\ Map!Put(p, data'[h].fHeatVal)
        /\ p \in DOMAIN HeatByPair /\ HeatByPair[p] = data[h].fHeatVal
    BY <1>1, <1>3, <1>4, <2>3, StoreMaps
  <2> HIDE DEF p
  <2>5. Map!Cool(p)
    BY <1>1, <2>4 DEF Map!Cool
  <2> QED BY <2>4, <2>5 DEF Map!Next
<1> QED BY <1>5, <1>6

(* The erase that ends a walk keeps the registered heats as they are.       *)
LEMMA EndOfWalkKeeps ==
  ASSUME IInv, EndOfWalk
  PROVE  Registered' = Registered /\ \A h \in Registered : data'[h] = data[h]
<1> DEFINE c == walk.on
           kept == walk.kept
<1>0. /\ Typed /\ WalkTyped /\ ~Quiet /\ walk.at > walk.end
      /\ vec' = [vec EXCEPT ![c] = SubSeq(vec[c], 1, kept)] /\ data' = Restrict(data, Live')
      /\ walk' = IF Due THEN StartOf("active") ELSE Idle
  BY DEF IInv, EndOfWalk
<1>1. /\ c \in Containers /\ vec[c] \in Seq(Slots) /\ walk.end = Len(vec[c])
      /\ kept \in Nat /\ kept <= Len(vec[c]) /\ DOMAIN vec[c] = 1..Len(vec[c])
  BY <1>0 DEF WalkTyped, Typed, Quiet
<1>2. /\ DOMAIN vec'[c] = 1..kept /\ \A i \in 1..kept : vec'[c][i] = vec[c][i]
      /\ \A d \in Containers : d # c => vec'[d] = vec[d]
  <2> HIDE DEF c, kept
  <2>1. \A i \in 1..kept : vec[c][i] \in Slots
    BY <1>1
  <2>2. /\ SubSeq(vec[c], 1, kept) \in Seq(Slots)
        /\ Len(SubSeq(vec[c], 1, kept)) = IF 1 <= kept THEN kept - 1 + 1 ELSE 0
        /\ \A i \in 1..kept - 1 + 1 : SubSeq(vec[c], 1, kept)[i] = vec[c][1 + i - 1]
    BY <1>1, <2>1, SubSeqProperties
  <2>3. vec'[c] = SubSeq(vec[c], 1, kept)
    BY <1>0, <1>1 DEF Typed
  <2>4. Len(SubSeq(vec[c], 1, kept)) = kept
    BY <1>1, <2>2
  <2>5. DOMAIN vec'[c] = 1..kept
    BY <2>2, <2>3, <2>4
  <2>6. \A i \in 1..kept : vec'[c][i] = vec[c][i]
    BY <1>1, <2>2, <2>3
  <2>7. \A d \in Containers : d # c => vec'[d] = vec[d]
    BY <1>0, <1>1 DEF Typed
  <2> QED BY <2>5, <2>6, <2>7
<1>3. walk'.on \notin Containers \/ walk'.at = 1
  BY <1>0 DEF StartOf, Idle, Containers
<1>4. \A d \in Containers : DOMAIN vec'[d] \subseteq Nat \ {0}
  BY <1>0, <1>2, <1>1 DEF Typed
<1>5. \A g : Filed(g)' <=> \E d \in Containers : \E i \in DOMAIN vec'[d] : vec'[d][i] = g
  BY <1>3, <1>4 DEF Filed
<1>6. \A g : Filed(g) <=> \E d \in Containers : \E i \in DOMAIN vec'[d] : vec'[d][i] = g
  <2>1. ASSUME NEW g, Filed(g)
        PROVE  \E d \in Containers : \E i \in DOMAIN vec'[d] : vec'[d][i] = g
    <3>1. PICK d \in Containers : \E i \in DOMAIN vec[d] :
            vec[d][i] = g /\ (d # c \/ i <= kept \/ i >= walk.at)
      BY <2>1 DEF Filed
    <3>2. PICK i \in DOMAIN vec[d] : vec[d][i] = g /\ (d # c \/ i <= kept \/ i >= walk.at)
      BY <3>1
    <3>3. CASE d # c
      BY <1>2, <3>2, <3>3
    <3>4. CASE d = c
      <4>1. i \in 1..kept
        BY <1>0, <1>1, <3>2, <3>4 DEF WalkTyped
      <4> QED BY <1>2, <3>2, <3>4, <4>1
    <3> QED BY <3>3, <3>4
  <2>2. ASSUME NEW g, NEW d \in Containers, NEW i \in DOMAIN vec'[d], vec'[d][i] = g
        PROVE  Filed(g)
    <3>1. CASE d # c
      BY <1>2, <2>2, <3>1 DEF Filed
    <3>2. CASE d = c
      <4>1. i \in 1..kept /\ i \in DOMAIN vec[c] /\ vec[c][i] = g /\ i <= kept
        BY <1>1, <1>2, <2>2, <3>2
      <4> QED BY <1>1, <4>1 DEF Filed
    <3> QED BY <3>1, <3>2
  <2> QED BY <2>1, <2>2
<1>7. Registered' = Registered
  <2>1. \A g : g \in Registered' <=> g \in Registered
    BY <1>5, <1>6, RegisteredAre
  <2> QED BY <2>1
<1>8. \A h \in Registered : data'[h] = data[h]
  <2>1. ASSUME NEW h \in Registered PROVE h \in Live'
    <3>1. PICK d \in Containers : \E i \in DOMAIN vec'[d] : vec'[d][i] = h
      BY <1>6, RegisteredAre
    <3>2. h # Null
      BY RegisteredApart
    <3> QED BY <3>1, <3>2 DEF Live, Held, ToSet, Containers
  <2> QED BY <1>0, <2>1, RegisteredApart DEF Restrict
<1> QED BY <1>7, <1>8

LEMMA EndOfWalkMaps ==
  ASSUME IInv, EndOfWalk
  PROVE  HeatByPair' = HeatByPair
BY EndOfWalkKeeps, NoStoreMaps

LEMMA MainLoopMaps ==
  ASSUME IInv, MainLoop
  PROVE  HeatByPair' = HeatByPair
<1>1. /\ vec' = vec /\ data' = data /\ walk.on \notin Containers /\ walk'.at = 1
  BY DEF MainLoop, StartOf, Quiet, Containers
<1>2. \A d \in Containers : DOMAIN vec[d] \subseteq Nat \ {0}
  BY DEF IInv, Typed
<1>3. \A g : Filed(g)' <=> Filed(g)
  BY <1>1, <1>2 DEF Filed
<1>4. Registered' = Registered
  <2>1. \A g : g \in Registered' <=> g \in Registered
    BY <1>3, RegisteredAre
  <2> QED BY <2>1
<1> QED BY <1>1, <1>4, NoStoreMaps

(* Every step is a step of the map, or changes nothing of it.               *)
LEMMA StepMaps ==
  ASSUME IInv, IInv', [Next]_vars
  PROVE  [Map!Next]_HeatByPair
<1>1. ASSUME UNCHANGED <<vec, data, walk>> PROVE HeatByPair' = HeatByPair
  <2>1. Registered' = Registered
    BY <1>1 DEF Registered
  <2> QED BY <1>1, <2>1, NoStoreMaps
<1>2. CASE Loop
  BY <1>2, WalkStepMaps, EndOfWalkMaps, MainLoopMaps DEF Loop
<1>3. ASSUME NEW actor \in Actors, GetEquippedOCWeapon(actor)
      PROVE  [Map!Next]_HeatByPair
  <2>1. Quiet /\ GetOrCreateHeat(actor, 0, FALSE) /\ UNCHANGED walk
    BY <1>3 DEF GetEquippedOCWeapon
  <2>2. PICK p \in Actors \X Weapons :
          Map!HeatAt(p) \in Nat /\ Map!Put(p, Map!HeatAt(p) + 0)
    <3>1. 0 \in 0..1 /\ FALSE \in BOOLEAN
      OBVIOUS
    <3> QED BY <2>1, <3>1, GetOrCreateMaps
  <2>3. Map!HeatAt(p) + 0 = Map!HeatAt(p)
    BY <2>2
  <2>4. Map!Put(p, Map!HeatAt(p))
    BY <2>2, <2>3
  <2> QED BY <2>4 DEF Map!Next, Map!Register
<1>4. ASSUME NEW actor \in Actors, FireWeaponWrapper(actor)
      PROVE  [Map!Next]_HeatByPair
  <2>1. Quiet /\ GetOrCreateHeat(actor, 1, TRUE) /\ UNCHANGED walk
    BY <1>4 DEF FireWeaponWrapper
  <2>2. PICK p \in Actors \X Weapons : Map!Put(p, Map!HeatAt(p) + 1)
    <3>1. 1 \in 0..1 /\ TRUE \in BOOLEAN
      OBVIOUS
    <3> QED BY <2>1, <3>1, GetOrCreateMaps
  <2> QED BY <2>2 DEF Map!Next, Map!Shoot
<1>5. CASE ClearOCWeapons
  <2>1. \A d \in Containers : DOMAIN vec'[d] = {}
    BY <1>5 DEF ClearOCWeapons
  <2>2. \A g : g \notin Registered'
    BY <2>1, RegisteredAre DEF Filed
  <2>3. Registered' = {}
    BY <2>2
  <2> QED BY <2>3, MapEmpty DEF Map!Next
<1>6. CASE \/ SetMenu \/ UNCHANGED vars
           \/ \E actor \in Actors : Die(actor)
           \/ \E actor \in Actors : \E weap \in Weapons \cup {NoWeapon} : Draw(actor, weap)
  BY <1>1, <1>6 DEF SetMenu, Die, Draw, vars
<1> QED BY <1>2, <1>3, <1>4, <1>5, <1>6 DEF Next

(* ImplementsMap: the vectors, with all that remove_if does to them, are a  *)
(* map from actors and weapons to heat, which loses a heat only when it is  *)
(* cold or when a save is loaded, for any number of actors and weapons.     *)
THEOREM RefinesMap == Spec => ImplementsMap
<1>1. Init => Map!Init
  <2> SUFFICES ASSUME Init PROVE Registered = {}
    BY MapEmpty
  <2>1. \A d \in Containers : DOMAIN vec[d] = {}
    BY DEF Init
  <2>2. \A g : g \notin Registered
    BY <2>1, RegisteredAre DEF Filed
  <2> QED BY <2>2
<1>2. IInv /\ IInv' /\ [Next]_vars => [Map!Next]_HeatByPair
  BY StepMaps
<1> QED BY <1>1, <1>2, Invariance, PTL DEF Spec, ImplementsMap, Map!Spec

-----------------------------------------------------------------------------
(* What is abandoned wears off.                                             *)

(* An update of an abandoned heat, of which no charge stops the cooling.    *)
LEMMA UpdateWearsOff ==
  ASSUME AwayDelay <= MAX_TICKS,
         NEW x \in HeatData, Abandoned(x), NEW scale \in Nat \ {0},
         NEW has3D \in BOOLEAN, NEW charging \in BOOLEAN,
         charging => Awake(x, has3D).bIsActive
  PROVE  LET r   == Awake(x, has3D)
             new == Cooled(r, scale, menu \/ charging)
         IN  /\ Remaining(new) <= Remaining(x)
             /\ menu \/ Erased(r, scale) \/ Remaining(new) < Remaining(x)
<1> DEFINE r == Awake(x, has3D)
           new == Cooled(r, scale, menu \/ charging)
           t == x.uiTicksPassed
           heat == x.fHeatVal
<1>1. r = [x EXCEPT !.bIsActive = FALSE]
  BY DEF Awake, Abandoned
<1> HIDE DEF r
<1>2. /\ r \in HeatData /\ r.bIsActive = FALSE /\ r.uiTicksPassed = t /\ r.fHeatVal = heat
      /\ t \in Nat /\ t <= MAX_TICKS /\ heat \in Nat /\ ~charging
  <2>1. r \in HeatData /\ r.bIsActive = FALSE /\ r.uiTicksPassed = t /\ r.fHeatVal = heat
    BY <1>1 DEF HeatData
  <2>2. t \in Nat /\ t <= MAX_TICKS /\ heat \in Nat
    BY RegistryAssumption DEF HeatData
  <2>3. ~charging
    BY <2>1, Zenon DEF r
  <2> QED BY <2>1, <2>2, <2>3
<1> DEFINE cooling == t * scale >= COOLDOWN_DELAY /\ ~menu
<1>3. /\ new.uiTicksPassed = IF t < MAX_TICKS THEN t + 1 ELSE t
      /\ new.fHeatVal = IF cooling THEN IF heat > scale THEN heat - scale ELSE 0 ELSE heat
  BY <1>2 DEF Cooled, HeatData
<1>4. /\ AwayDelay \in Nat /\ COOLDOWN_DELAY <= AwayDelay /\ ERASE_DELAY <= AwayDelay
      /\ COOLDOWN_DELAY \in Nat /\ ERASE_DELAY \in Nat /\ MAX_TICKS \in Nat
  BY RegistryAssumption DEF AwayDelay
<1> DEFINE Lacks(n) == IF n < AwayDelay THEN AwayDelay - n ELSE 0
<1>5. /\ Remaining(x) = Lacks(t) + heat
      /\ Remaining(new) = Lacks(new.uiTicksPassed) + new.fHeatVal
  BY DEF Remaining, AwayDelay
<1>6. t * scale >= t /\ t * scale \in Nat
  <2>1. PICK k \in Nat : scale = k + 1
    <3>1. scale - 1 \in Nat /\ scale = (scale - 1) + 1
      OBVIOUS
    <3> QED BY <3>1
  <2>2. t * (k + 1) = t * k + t /\ t * k \in Nat
    BY <1>2
  <2> QED BY <1>2, <2>1, <2>2
<1>7. t >= AwayDelay /\ ~menu => cooling /\ (heat = 0 => Erased(r, scale))
  BY <1>2, <1>4, <1>6 DEF Erased
<1>8. PICK ticks \in Nat, rest \in Nat :
        /\ ticks = new.uiTicksPassed /\ rest = new.fHeatVal
        /\ ticks >= t /\ (t < AwayDelay => ticks = t + 1)
        /\ rest <= heat /\ (cooling /\ heat # 0 => rest < heat)
  <2> HIDE DEF new, cooling
  <2>1. new.uiTicksPassed \in Nat /\ new.uiTicksPassed >= t
        /\ (t < AwayDelay => new.uiTicksPassed = t + 1)
    BY <1>2, <1>3, <1>4
  <2>2. new.fHeatVal \in Nat /\ new.fHeatVal <= heat
        /\ (cooling /\ heat # 0 => new.fHeatVal < heat)
    BY <1>2, <1>3
  <2> QED BY <2>1, <2>2
<1> HIDE DEF new, cooling, t, heat
<1>9. Lacks(ticks) + rest <= Lacks(t) + heat
  BY <1>2, <1>4, <1>8
<1>10. ASSUME ~menu, ~Erased(r, scale) PROVE Lacks(ticks) + rest < Lacks(t) + heat
  <2>1. CASE t < AwayDelay
    BY <1>2, <1>4, <1>8, <2>1
  <2>2. CASE t >= AwayDelay
    <3>1. rest < heat
      BY <1>7, <1>8, <1>10, <2>2
    <3> QED BY <1>2, <1>4, <1>8, <2>2, <3>1
  <2> QED BY <1>2, <1>4, <2>1, <2>2
<1> QED BY <1>5, <1>8, <1>9, <1>10 DEF r, new

(* What the visited heat becomes; if it is erased it leaves the registry.   *)
LEMMA VisitWearsOff ==
  ASSUME AwayDelay <= MAX_TICKS, IInv, WalkStep
  PROVE  LET h == vec[walk.on][walk.at]
         IN  /\ \A g \in DOMAIN data : g # h => data'[g] = data[g]
             /\ h \in Registered' /\ Abandoned(data[h]) =>
                  /\ Remaining(data'[h]) <= Remaining(data[h])
                  /\ menu \/ Remaining(data'[h]) < Remaining(data[h])
<1> DEFINE c == walk.on
           h == vec[c][walk.at]
<1>0. /\ ~Quiet /\ walk.at <= walk.end /\ WalkTyped /\ OneHeatPerWeapon /\ Typed
      /\ walk.at \in Nat /\ walk.kept \in Nat /\ walk.kept < walk.at
  BY DEF IInv, WalkStep, WalkTyped
<1>1. PICK has3D \in BOOLEAN, charging \in BOOLEAN, broken \in BOOLEAN :
        LET r     == Awake(data[h], has3D)
            grown == IF broken \/ Refreshed(data[h], has3D)
                     THEN InitializeHeatFX(h, r.rActor) ELSE vec
        IN  /\ charging => r.bIsActive
            /\ data' = [data EXCEPT ![h] = Cooled(r, Scale, menu \/ charging)]
            /\ Erased(r, Scale) => vec' = grown /\ walk' = [walk EXCEPT !.at = @ + 1]
  BY ZenonT(60) DEF WalkStep
<1> DEFINE r == Awake(data[h], has3D)
           new == Cooled(r, Scale, menu \/ charging)
<1>2. /\ c \in Containers /\ walk.at \in DOMAIN vec[c] /\ h # Null
      /\ h \in DOMAIN data /\ data[h] \in HeatData /\ InitializeHeatFX(h, r.rActor) = vec
  BY <1>0, VisitAddsNothing DEF WalkTyped, Quiet
<1>3. data'[h] = new /\ \A g \in DOMAIN data : g # h => data'[g] = data[g]
  BY <1>1, <1>2
<1>4. Erased(r, Scale) => vec' = vec /\ walk' = [walk EXCEPT !.at = @ + 1]
  BY <1>1, <1>2, Zenon
<1>5. Scale \in Nat \ {0}
  BY RegistryAssumption DEF Scale
<1>6. charging => Awake(data[h], has3D).bIsActive
  BY <1>1
<1>7. Abandoned(data[h]) =>
        /\ Remaining(new) <= Remaining(data[h])
        /\ menu \/ Erased(r, Scale) \/ Remaining(new) < Remaining(data[h])
  BY <1>2, <1>5, <1>6, UpdateWearsOff
<1> HIDE DEF r, new
<1>8. ASSUME Erased(r, Scale), h \in Registered' PROVE FALSE
  <2>1. vec' = vec /\ walk'.on = c /\ walk'.at = walk.at + 1 /\ walk'.kept = walk.kept
    BY <1>0, <1>4, <1>8 DEF WalkTyped
  <2>2. PICK d \in Containers : \E i \in DOMAIN vec[d] :
          vec[d][i] = h /\ (d # c \/ i <= walk.kept \/ i >= walk.at + 1)
    BY <1>8, <2>1, RegisteredAre DEF Filed
  <2>3. PICK i \in DOMAIN vec[d] :
          vec[d][i] = h /\ (d # c \/ i <= walk.kept \/ i >= walk.at + 1)
    BY <2>2
  <2>4. d = c /\ i = walk.at
    BY <1>0, <1>2, <2>3 DEF OneHeatPerWeapon
  <2> QED BY <1>0, <2>3, <2>4
<1> QED BY <1>3, <1>7, <1>8

(* A hook touches the heat of the weapon at hand, and shoots it only while  *)
(* its owner lives.                                                         *)
LEMMA HookSparesAbandoned ==
  ASSUME IInv, Quiet, NEW actor \in Actors, NEW heat \in 0..1, NEW reset \in BOOLEAN,
         GetOrCreateHeat(actor, heat, reset),
         actor \notin dying \/ (heat = 0 /\ reset = FALSE),
         NEW h \in Registered, Abandoned(data[h])
  PROVE  data'[h] = data[h]
<1> DEFINE weap == carried[actor]
           After(r) == [r EXCEPT !.fHeatVal = @ + heat, !.uiTicksPassed = IF reset THEN 0 ELSE @]
<1>0. /\ weap \in Weapons /\ Typed /\ Known /\ h # Null /\ h \in DOMAIN data
  BY RegisteredApart DEF GetOrCreateHeat, IInv, Typed
<1>1. CASE ActiveHeat(actor, weap) # {}
  <2> DEFINE g == GetActiveHeat(actor, weap)
  <2>1. data' = Put(g, After(data[g]))
    BY <1>1 DEF GetOrCreateHeat
  <2>2. g \in Held(Home(actor)) /\ data[g].rActor = actor /\ data[g].rWeap = weap
    BY <1>0, <1>1, LookupFinds DEF ActiveHeat
  <2> HIDE DEF g
  <2>3. CASE h # g
    BY <1>0, <2>1, <2>3 DEF Put
  <2>4. CASE h = g
    <3>1. heat = 0 /\ reset = FALSE
      BY <2>2, <2>4 DEF Abandoned
    <3>2. data[g] \in HeatData
      BY <1>0, <2>4 DEF Typed
    <3>3. After(data[g]) = data[g]
      <4>1. data[g].fHeatVal + heat = data[g].fHeatVal
        BY <3>1, <3>2, RegistryAssumption DEF HeatData
      <4>2. (IF reset THEN 0 ELSE data[g].uiTicksPassed) = data[g].uiTicksPassed
        BY <3>1
      <4>3. [data[g] EXCEPT !.fHeatVal = data[g].fHeatVal,
                            !.uiTicksPassed = data[g].uiTicksPassed] = data[g]
        BY <3>2 DEF HeatData
      <4> QED BY <4>1, <4>2, <4>3
    <3> HIDE DEF After
    <3> QED BY <1>0, <2>1, <2>4, <3>3 DEF Put
  <2> QED BY <2>3, <2>4
<1>2. CASE ActiveHeat(actor, weap) = {}
  <2> DEFINE r == After(NewHeat(actor, weap))
  <2>1. PICK g \in Addresses \ Live : data' = Put(g, r)
    BY <1>2 DEF GetOrCreateHeat
  <2> HIDE DEF r
  <2>2. h \in Live
    <3>1. PICK d \in Containers : \E i \in DOMAIN vec[d] : vec[d][i] = h
      BY RegisteredAre DEF Filed
    <3> QED BY <1>0, <3>1 DEF Live, Held, ToSet, Containers
  <2> QED BY <1>0, <2>1, <2>2 DEF Put
<1> QED BY <1>1, <1>2

(* AbandonedWearsOff: in either container, whatever the throttle and        *)
(* however hooks, walks and compactions interleave, the end of an abandoned *)
(* heat only ever comes nearer.  The counter must reach the delays: they    *)
(* are half a second and five seconds, and it counts to 65535 frames.       *)
THEOREM AbandonedWearOff ==
  ASSUME AwayDelay <= MAX_TICKS
  PROVE  Spec => AbandonedWearsOff
<1> DEFINE Worn(h) == Abandoned(data[h]) =>
             /\ Remaining(data'[h]) <= Remaining(data[h])
             /\ ~Quiet /\ walk.at <= walk.end /\ vec[walk.on][walk.at] = h /\ ~menu =>
                  Remaining(data'[h]) < Remaining(data[h])
           AllWorn == \A h \in Registered \cap Registered' : Worn(h)
<1>1. ASSUME IInv, Next PROVE AllWorn
  <2>1. \A h \in Registered : Remaining(data[h]) \in Nat /\ h # Null /\ h \in DOMAIN data
    <3>1. ASSUME NEW h \in Registered
          PROVE  Remaining(data[h]) \in Nat /\ h # Null /\ h \in DOMAIN data
      <4>1. h # Null /\ h \in DOMAIN data /\ data[h] \in HeatData
        BY <1>1, RegisteredApart DEF IInv, Typed
      <4> QED BY <4>1, RegistryAssumption DEF Remaining, AwayDelay, HeatData
    <3> QED BY <3>1
  <2>2. ASSUME NEW h \in Registered, Abandoned(data[h]) => data'[h] = data[h],
               Quiet \/ walk.at > walk.end
        PROVE  Worn(h)
    <3>1. walk.at \in Nat /\ walk.end \in Nat
      BY <1>1 DEF IInv, WalkTyped
    <3>2. ~(~Quiet /\ walk.at <= walk.end)
      BY <2>2, <3>1
    <3> QED BY <2>1, <2>2, <3>2
  <2>3. CASE WalkStep
    <3> DEFINE g == vec[walk.on][walk.at]
    <3>1. ASSUME NEW h \in Registered \cap Registered', h = g PROVE Worn(h)
      BY <1>1, <2>3, <3>1, VisitWearsOff
    <3>2. ASSUME NEW h \in Registered \cap Registered', h # g PROVE Worn(h)
      <4>1. data'[h] = data[h]
        BY <1>1, <2>1, <2>3, <3>2, VisitWearsOff
      <4> QED BY <2>1, <3>2, <4>1
    <3> QED BY <3>1, <3>2
  <2>4. ASSUME NEW actor \in Actors, GetEquippedOCWeapon(actor) PROVE AllWorn
    <3>0. 0 \in 0..1 /\ FALSE \in BOOLEAN
      OBVIOUS
    <3>1. Quiet /\ GetOrCreateHeat(actor, 0, FALSE)
      BY <2>4 DEF GetEquippedOCWeapon
    <3>2. \A h \in Registered : Abandoned(data[h]) => data'[h] = data[h]
      BY <1>1, <3>0, <3>1, HookSparesAbandoned
    <3> HIDE DEF Worn
    <3> QED BY <2>2, <3>1, <3>2
  <2>5. ASSUME NEW actor \in Actors, FireWeaponWrapper(actor) PROVE AllWorn
    <3>0. 1 \in 0..1 /\ TRUE \in BOOLEAN
      OBVIOUS
    <3>1. Quiet /\ actor \notin dying /\ GetOrCreateHeat(actor, 1, TRUE)
      BY <2>5 DEF FireWeaponWrapper
    <3>2. \A h \in Registered : Abandoned(data[h]) => data'[h] = data[h]
      BY <1>1, <3>0, <3>1, HookSparesAbandoned
    <3> HIDE DEF Worn
    <3> QED BY <2>2, <3>1, <3>2
  <2>6. CASE ClearOCWeapons
    <3>1. \A d \in Containers : DOMAIN vec'[d] = {}
      BY <2>6 DEF ClearOCWeapons
    <3>2. \A g : g \notin Registered'
      BY <3>1, RegisteredAre DEF Filed
    <3> QED BY <3>2
  <2>7. CASE EndOfWalk
    <3>1. \A h \in Registered : data'[h] = data[h]
      BY <1>1, <2>7, EndOfWalkKeeps
    <3>2. walk.at > walk.end
      BY <2>7 DEF EndOfWalk
    <3> HIDE DEF Worn
    <3> QED BY <2>2, <3>1, <3>2
  <2>8. CASE Quiet /\ UNCHANGED data
    <3> HIDE DEF Worn
    <3> QED BY <2>2, <2>8
  <2> HIDE DEF AllWorn
  <2> QED BY <1>1, <2>3, <2>4, <2>5, <2>6, <2>7, <2>8
          DEF Next, Loop, MainLoop, Draw, Die, SetMenu
<1>2. IInv /\ [Next]_vars => [AllWorn]_vars
  BY <1>1
<1> QED BY <1>2, Invariance, PTL DEF Spec, AbandonedWearsOff

-----------------------------------------------------------------------------
(* The clock.  A heat's ticks, each worth the pace of its container, and    *)
(* the frames that a turn of its container still lacks, stay within one     *)
(* turn of the frames that passed since it was made, fired or drawn.        *)

LEMMA ClockStepIs == [CNext]_cvars => [Next]_vars
<1>1. CHook => Next
  BY DEF CHook, Next
<1>2. CMainLoop \/ CWalk => Next
  BY DEF CMainLoop, CWalk, Next, Loop
<1>3. COther => Next
  BY DEF COther, Next, Loop
<1> QED BY <1>1, <1>2, <1>3 DEF CNext, cvars, vars

(* The clock follows the registry and adds nothing to it.                   *)
THEOREM ClockAddsNothing == CSpec => Spec
<1>1. CInit => Init
  BY DEF CInit
<1> QED BY <1>1, ClockStepIs, PTL DEF CSpec, Spec

Pace(c) == IF c = "player" THEN 1 ELSE NPC_UPDATE_THROTTLE

(* The frames that passed since the update of the slot counted its last.    *)
Waited(c, i) ==
  IF c = walk.on /\ i >= walk.at THEN Pace(c)
  ELSE IF c = "active" THEN frames + (IF walk.on = "player" THEN 1 ELSE 0)
  ELSE 0

OnTime(time, ticks, c, wait) ==
  time >= ERASE_DELAY \/ ticks * Pace(c) + wait <= time + Pace(c)

Counted ==
  \A c \in Containers : \A i \in DOMAIN vec[c] :
    c # walk.on \/ i <= walk.kept \/ i >= walk.at =>
      OnTime(clock[vec[c][i]], data[vec[c][i]].uiTicksPassed, c, Waited(c, i))

ClockInv ==
  /\ clock \in [Addresses -> Nat]
  /\ walk.on = "active" => frames = 0
  /\ Quiet => DOMAIN data \subseteq Live
  /\ Counted

LEMMA PaceIs ==
  ASSUME NEW c \in Containers
  PROVE  /\ Pace(c) \in Nat \ {0}
         /\ \A n \in Nat : n * Pace(c) \in Nat /\ (n + 1) * Pace(c) = n * Pace(c) + Pace(c)
         /\ 0 * Pace(c) = 0
<1>1. Pace(c) \in Nat \ {0}
  BY RegistryAssumption DEF Pace
<1> HIDE DEF Pace
<1>2. \A n \in Nat : n * Pace(c) \in Nat /\ (n + 1) * Pace(c) = n * Pace(c) + Pace(c)
  BY <1>1
<1> QED BY <1>1, <1>2, RegistryAssumption

LEMMA FewerTicks ==
  ASSUME NEW p \in Nat, NEW m \in Nat, NEW n \in Nat, m <= n + 1
  PROVE  m * p <= n * p + p
<1>1. PICK k \in Nat : n + 1 = m + k
  <2>1. n + 1 - m \in Nat /\ n + 1 = m + (n + 1 - m)
    OBVIOUS
  <2> QED BY <2>1
<1>2. (m + k) * p = m * p + k * p /\ (n + 1) * p = n * p + p
  OBVIOUS
<1>3. m * p \in Nat /\ k * p \in Nat /\ n * p \in Nat
  OBVIOUS
<1> QED BY <1>1, <1>2, <1>3

(* A heat that counts no more than one tick for the turn it waited.         *)
LEMMA OnTimeTick ==
  ASSUME NEW c \in Containers, NEW time \in Nat, NEW n \in Nat, NEW m \in Nat, m <= n + 1,
         OnTime(time, n, c, Pace(c))
  PROVE  OnTime(time, m, c, 0)
<1>1. PICK p \in Nat : p = Pace(c)
  BY PaceIs
<1>2. m * p <= n * p + p /\ m * p \in Nat /\ n * p \in Nat
  BY FewerTicks
<1>3. time >= ERASE_DELAY \/ n * p + p <= time + p
  BY <1>1 DEF OnTime
<1>4. time >= ERASE_DELAY \/ m * p + 0 <= time + p
  BY <1>2, <1>3, RegistryAssumption
<1> QED BY <1>1, <1>4 DEF OnTime

(* What stands in a slot that counts.                                       *)
LEMMA SlotHolds ==
  ASSUME IInv, NEW c \in Containers, NEW i \in DOMAIN vec[c],
         c # walk.on \/ i <= walk.kept \/ i >= walk.at
  PROVE  /\ vec[c][i] # Null /\ vec[c][i] \in DOMAIN data /\ vec[c][i] \in Addresses
         /\ data[vec[c][i]].uiTicksPassed \in Nat /\ data[vec[c][i]].fHeatVal \in Nat
         /\ vec[c][i] \in Live
<1>1. vec[c][i] # Null /\ vec[c][i] \in DOMAIN data
  BY DEF IInv, Filled, Known
<1>2. vec[c][i] \in Addresses /\ data[vec[c][i]] \in HeatData
  BY <1>1 DEF IInv, Typed
<1>3. vec[c][i] \in Held(c)
  BY <1>1, HeldIs DEF IInv
<1> QED BY <1>1, <1>2, <1>3, RegistryAssumption DEF HeatData, Live, Containers

LEMMA SlotHoldsNext ==
  ASSUME IInv', NEW c \in Containers, NEW i \in DOMAIN vec'[c], c # walk'.on
  PROVE  vec'[c][i] \in DOMAIN data' /\ vec'[c][i] \in Addresses /\ vec'[c][i] \in Live'
<1>1. vec'[c][i] # Null /\ vec'[c][i] \in DOMAIN data'
  BY DEF IInv, Filled, Known
<1>2. vec'[c][i] \in Addresses
  BY <1>1 DEF IInv, Typed
<1> QED BY <1>1, <1>2 DEF Live, Held, ToSet, Containers

(* The heat goes to the end of the container.                               *)
Added(h, c) == vec' = [vec EXCEPT ![c] = Append(@, h)]

(* What a hook does to the heat it finds or makes.                          *)
Hooked(h, actor, heat, reset) ==
  /\ DOMAIN data' = DOMAIN data \cup {h}
  /\ \A g \in DOMAIN data : g # h => data'[g] = data[g]
  /\ \/ /\ h \in Live /\ h \in DOMAIN data /\ vec' = vec
        /\ data'[h].fHeatVal = data[h].fHeatVal + heat
        /\ data'[h].uiTicksPassed = IF reset THEN 0 ELSE data[h].uiTicksPassed
     \/ /\ h \notin Live /\ data'[h].uiTicksPassed = 0
        /\ Added(h, Home(actor))

LEMMA GetOrCreateIs ==
  ASSUME IInv, NEW actor \in Actors, NEW heat \in 0..1, NEW reset \in BOOLEAN,
         GetOrCreateHeat(actor, heat, reset)
  PROVE  \E h \in Addresses : Hooked(h, actor, heat, reset)
<1> DEFINE weap == carried[actor]
           After(r) == [r EXCEPT !.fHeatVal = @ + heat, !.uiTicksPassed = IF reset THEN 0 ELSE @]
<1>0. weap \in Weapons /\ Typed
  BY DEF GetOrCreateHeat, IInv, Typed
<1>1. CASE ActiveHeat(actor, weap) # {}
  <2> DEFINE h == GetActiveHeat(actor, weap)
  <2>1. data' = Put(h, After(data[h])) /\ vec' = vec
    BY <1>1 DEF GetOrCreateHeat
  <2>2. h \in Held(Home(actor))
    BY <1>0, <1>1, LookupFinds DEF ActiveHeat
  <2> HIDE DEF h
  <2>3. h \in Live /\ h \in DOMAIN data /\ h \in Addresses /\ data[h] \in HeatData
    BY <1>0, <2>2, HomeIs, HeldIs DEF IInv, Known, Typed, Live, Containers
  <2>4. /\ DOMAIN data' = DOMAIN data \cup {h} /\ data'[h] = After(data[h])
        /\ \A g \in DOMAIN data : g # h => data'[g] = data[g]
    BY <2>1, <2>3 DEF Put
  <2>5. /\ After(data[h]).fHeatVal = data[h].fHeatVal + heat
        /\ After(data[h]).uiTicksPassed = IF reset THEN 0 ELSE data[h].uiTicksPassed
    BY <2>3 DEF HeatData
  <2> QED BY <2>1, <2>3, <2>4, <2>5 DEF Hooked
<1>2. CASE ActiveHeat(actor, weap) = {}
  <2> DEFINE r == After(NewHeat(actor, weap))
  <2>1. PICK h \in Addresses \ Live : data' = Put(h, r) /\ vec' = InitializeHeatFX(h, actor)
    BY <1>2 DEF GetOrCreateHeat
  <2>2. r.uiTicksPassed = 0
    BY DEF NewHeat
  <2> HIDE DEF r
  <2>3. h \notin Held(Home(actor))
    BY <2>1, HomeIs DEF Live, Containers
  <2>4. Added(h, Home(actor))
    BY <2>1, <2>3 DEF InitializeHeatFX, Added
  <2>5. /\ DOMAIN data' = DOMAIN data \cup {h} /\ data'[h] = r
        /\ \A g \in DOMAIN data : g # h => data'[g] = data[g]
    BY <2>1 DEF Put
  <2> QED BY <2>1, <2>2, <2>4, <2>5 DEF Hooked
<1> QED BY <1>1, <1>2

LEMMA Appended ==
  ASSUME IInv, NEW c \in Containers, NEW h \in Addresses, Added(h, c)
  PROVE  /\ \A d \in Containers : \A i \in DOMAIN vec[d] : i \in DOMAIN vec'[d] /\ vec'[d][i] = vec[d][i]
         /\ \A d \in Containers : \A i \in DOMAIN vec'[d] :
              i \in DOMAIN vec[d] \/ (d = c /\ vec'[d][i] = h)
         /\ \E i \in DOMAIN vec'[c] : vec'[c][i] = h
<1>1. vec \in [Containers -> Seq(Slots)] /\ vec[c] \in Seq(Slots) /\ h \in Slots
  BY DEF IInv, Typed, Slots
<1>2. vec'[c] = Append(vec[c], h) /\ \A d \in Containers : d # c => vec'[d] = vec[d]
  BY <1>1 DEF Added
<1>3. PICK n \in Nat : n = Len(vec[c]) /\ DOMAIN vec[c] = 1..n
  BY <1>1
<1>4. /\ DOMAIN vec'[c] = 1..(n + 1) /\ vec'[c][n + 1] = h
      /\ \A i \in 1..n : vec'[c][i] = vec[c][i]
  <2>1. /\ Append(vec[c], h) \in Seq(Slots) /\ Len(Append(vec[c], h)) = n + 1
        /\ Append(vec[c], h)[n + 1] = h
        /\ \A i \in 1..n : Append(vec[c], h)[i] = vec[c][i]
    BY <1>1, <1>3, AppendProperties
  <2>2. DOMAIN Append(vec[c], h) = 1..(n + 1)
    BY <2>1
  <2> QED BY <1>2, <2>1, <2>2
<1>5. ASSUME NEW d \in Containers
      PROVE  /\ \A i \in DOMAIN vec[d] : i \in DOMAIN vec'[d] /\ vec'[d][i] = vec[d][i]
             /\ \A i \in DOMAIN vec'[d] : i \in DOMAIN vec[d] \/ (d = c /\ vec'[d][i] = h)
  <2>1. CASE d = c
    <3>1. \A i \in DOMAIN vec[c] : i \in DOMAIN vec'[c] /\ vec'[c][i] = vec[c][i]
      BY <1>3, <1>4
    <3>2. \A i \in DOMAIN vec'[c] : i \in DOMAIN vec[c] \/ vec'[c][i] = h
      BY <1>3, <1>4
    <3> QED BY <2>1, <3>1, <3>2
  <2>2. CASE d # c
    BY <1>2, <2>2
  <2> QED BY <2>1, <2>2
<1>6. n + 1 \in DOMAIN vec'[c]
  BY <1>3, <1>4
<1> QED BY <1>4, <1>5, <1>6

LEMMA ClockGetOrCreateStep ==
  ASSUME IInv, IInv', ClockInv, Quiet, UNCHANGED <<walk, frames>>,
         NEW actor \in Actors, NEW heat \in 0..1, NEW reset \in BOOLEAN, reset <=> heat = 1,
         GetOrCreateHeat(actor, heat, reset),
         clock' = [h \in Addresses |-> IF Restarted(h) THEN 0 ELSE clock[h]]
  PROVE  ClockInv'
<1>1. /\ clock' = [h \in Addresses |-> IF Restarted(h) THEN 0 ELSE clock[h]]
      /\ clock \in [Addresses -> Nat]
  BY DEF ClockInv
<1>2. Quiet /\ UNCHANGED <<walk, frames>> /\ (~reset => heat = 0) /\ (reset => heat = 1)
  OBVIOUS
<1>3. PICK h \in Addresses : Hooked(h, actor, heat, reset)
  BY GetOrCreateIs
<1>4. /\ DOMAIN data' = DOMAIN data \cup {h}
      /\ \A g \in DOMAIN data : g # h => data'[g] = data[g]
      /\ \/ /\ h \in Live /\ h \in DOMAIN data /\ vec' = vec
            /\ data'[h].fHeatVal = data[h].fHeatVal + heat
            /\ data'[h].uiTicksPassed = IF reset THEN 0 ELSE data[h].uiTicksPassed
         \/ /\ h \notin Live /\ data'[h].uiTicksPassed = 0
            /\ Added(h, Home(actor))
  BY <1>3 DEF Hooked
<1>5. /\ DOMAIN data \subseteq Live
      /\ \A g \in DOMAIN data : g \in Addresses /\ data[g].fHeatVal \in Nat
  <2>1. \A r \in HeatData : r.fHeatVal \in Nat
    BY RegistryAssumption DEF HeatData
  <2> QED BY <1>2, <2>1 DEF ClockInv, IInv, Typed
<1>6. \A c \in Containers : c # walk.on /\ c # walk'.on
  BY <1>2 DEF Quiet, Containers
<1>7. clock' \in [Addresses -> Nat]
  BY <1>1
<1>8. walk'.on = "active" => frames' = 0
  BY <1>2 DEF ClockInv
<1>9. Home(actor) \in Containers
  BY HomeIs
<1>10. ASSUME NEW c \in Containers, NEW i \in DOMAIN vec'[c]
      PROVE  \/ i \in DOMAIN vec[c] /\ vec'[c][i] = vec[c][i]
             \/ vec'[c][i] = h /\ h \notin Live
  <2>1. CASE vec' = vec
    BY <2>1
  <2>2. CASE Added(h, Home(actor)) /\ h \notin Live
    BY <1>9, <2>2, Appended
  <2> QED BY <1>4, <2>1, <2>2
<1>11. DOMAIN data' \subseteq Live'
  <2>1. CASE vec' = vec /\ h \in Live
    BY <1>4, <1>5, <2>1 DEF Live, Held
  <2>2. CASE Added(h, Home(actor)) /\ h \notin Live
    <3>1. h # Null
      BY RegistryAssumption
    <3>2. h \in Live'
      <4>1. PICK i \in DOMAIN vec'[Home(actor)] : vec'[Home(actor)][i] = h
        BY <1>9, <2>2, Appended
      <4> QED BY <1>9, <3>1, <4>1 DEF Live, Held, ToSet, Containers
    <3>3. ASSUME NEW c \in Containers, NEW g, g \in Held(c) PROVE g \in Live'
      <4>1. PICK i \in DOMAIN vec[c] : vec[c][i] = g /\ g # Null
        BY <3>3, HeldIs DEF IInv
      <4>2. i \in DOMAIN vec'[c] /\ vec'[c][i] = g
        BY <1>9, <2>2, <4>1, Appended
      <4> QED BY <4>1, <4>2 DEF Live, Held, ToSet, Containers
    <3> QED BY <1>4, <1>5, <3>2, <3>3 DEF Live, Containers
  <2> QED BY <1>4, <2>1, <2>2
<1>12. ASSUME NEW c \in Containers, NEW i \in DOMAIN vec'[c]
       PROVE  OnTime(clock'[vec'[c][i]], data'[vec'[c][i]].uiTicksPassed, c, Waited(c, i)')
  <2> DEFINE g == vec'[c][i]
             w == IF c = "active" THEN frames ELSE 0
  <2>1. Waited(c, i) = w /\ Waited(c, i)' = w
    <3>1. frames \in Nat
      BY DEF IInv, Typed
    <3> QED BY <1>2, <1>6, <3>1 DEF Waited, Quiet
  <2>2. w \in Nat /\ w <= Pace(c) /\ Pace(c) \in Nat
    BY RegistryAssumption DEF IInv, Typed, Pace
  <2>3. g \in Addresses /\ g \in DOMAIN data'
    BY <1>6, <1>12, SlotHoldsNext
  <2> HIDE DEF w, g
  <2>4. CASE clock'[g] = 0 /\ data'[g].uiTicksPassed = 0
    BY <2>1, <2>2, <2>4, PaceIs DEF OnTime, g
  <2>5. CASE g # h
    <3>1. i \in DOMAIN vec[c] /\ g = vec[c][i] /\ g \in DOMAIN data /\ data'[g] = data[g]
      BY <1>4, <1>10, <2>3, <2>5 DEF g
    <3>2. ~Restarted(g)
      BY <1>5, <3>1 DEF Restarted
    <3>3. clock'[g] = clock[g]
      BY <1>1, <2>3, <3>2
    <3>4. OnTime(clock[g], data[g].uiTicksPassed, c, w)
      BY <1>6, <2>1, <3>1 DEF ClockInv, Counted
    <3> QED BY <2>1, <3>1, <3>3, <3>4 DEF g
  <2>6. CASE g = h /\ h \notin Live
    <3>1. Restarted(g)
      BY <1>5, <2>3, <2>6 DEF Restarted
    <3>2. clock'[g] = 0
      BY <1>1, <2>3, <3>1
    <3> QED BY <1>4, <2>4, <2>6, <3>2
  <2>7. CASE g = h /\ h \in Live /\ reset
    <3>1. data'[g].fHeatVal = data[g].fHeatVal + 1 /\ data'[g].uiTicksPassed = 0 /\ g \in DOMAIN data
      BY <1>2, <1>4, <2>7
    <3>2. Restarted(g)
      BY <1>5, <2>3, <3>1 DEF Restarted
    <3>3. clock'[g] = 0
      BY <1>1, <2>3, <3>2
    <3> QED BY <2>4, <3>1, <3>3
  <2>8. CASE g = h /\ h \in Live /\ ~reset
    <3>1. /\ data'[g].fHeatVal = data[g].fHeatVal + 0 /\ g \in DOMAIN data
          /\ data'[g].uiTicksPassed = data[g].uiTicksPassed
          /\ i \in DOMAIN vec[c] /\ vec[c][i] = g
      BY <1>2, <1>4, <1>10, <2>8 DEF g
    <3>2. ~Restarted(g)
      BY <1>5, <3>1 DEF Restarted
    <3>3. clock'[g] = clock[g]
      BY <1>1, <2>3, <3>2
    <3>4. OnTime(clock[g], data[g].uiTicksPassed, c, w)
      BY <1>6, <2>1, <3>1 DEF ClockInv, Counted
    <3> QED BY <2>1, <3>1, <3>3, <3>4 DEF g
  <2> QED BY <2>5, <2>6, <2>7, <2>8
<1> QED BY <1>7, <1>8, <1>11, <1>12 DEF ClockInv, Counted

LEMMA ClockHookStep ==
  ASSUME IInv, IInv', ClockInv, CHook
  PROVE  ClockInv'
<1>1. PICK actor \in Actors : GetEquippedOCWeapon(actor) \/ FireWeaponWrapper(actor)
  BY DEF CHook
<1>2. clock' = [h \in Addresses |-> IF Restarted(h) THEN 0 ELSE clock[h]]
  BY DEF CHook
<1>3. CASE GetEquippedOCWeapon(actor)
  <2>1. Quiet /\ GetOrCreateHeat(actor, 0, FALSE) /\ UNCHANGED <<walk, frames>>
    BY <1>3 DEF GetEquippedOCWeapon
  <2>2. 0 \in 0..1 /\ FALSE \in BOOLEAN /\ (FALSE <=> 0 = 1)
    OBVIOUS
  <2> QED BY <1>2, <2>1, <2>2, ClockGetOrCreateStep
<1>4. CASE FireWeaponWrapper(actor)
  <2>1. Quiet /\ GetOrCreateHeat(actor, 1, TRUE) /\ UNCHANGED <<walk, frames>>
    BY <1>4 DEF FireWeaponWrapper
  <2>2. 1 \in 0..1 /\ TRUE \in BOOLEAN /\ (TRUE <=> 1 = 1)
    OBVIOUS
  <2> QED BY <1>2, <2>1, <2>2, ClockGetOrCreateStep
<1> QED BY <1>1, <1>3, <1>4

LEMMA ClockFrameStep ==
  ASSUME IInv, ClockInv, CMainLoop
  PROVE  ClockInv'
<1>1. /\ Quiet /\ vec' = vec /\ data' = data /\ frames' = frames
      /\ walk'.on = "player" /\ walk'.at = 1
      /\ clock' = [h \in Addresses |->
           IF clock[h] < ERASE_DELAY + NPC_UPDATE_THROTTLE THEN clock[h] + 1 ELSE clock[h]]
      /\ clock \in [Addresses -> Nat]
  BY DEF CMainLoop, MainLoop, StartOf, ClockInv
<1>2. clock' \in [Addresses -> Nat] /\ walk'.on # "active" /\ ~Quiet'
  BY <1>1 DEF Quiet
<1>3. ASSUME NEW c \in Containers, NEW i \in DOMAIN vec[c]
      PROVE  OnTime(clock'[vec[c][i]], data[vec[c][i]].uiTicksPassed, c, Waited(c, i)')
  <2> DEFINE g == vec[c][i]
             w == IF c = "active" THEN frames ELSE 0
             n == data[g].uiTicksPassed
  <2>0. c # walk.on /\ i \in Nat \ {0} /\ c \in {"player", "active"}
    BY <1>1 DEF Quiet, Containers, IInv, Typed
  <2>1. Waited(c, i) = w /\ Waited(c, i)' = w + 1 /\ w \in Nat
    BY <1>1, <2>0 DEF Waited, Quiet, Pace, IInv, Typed
  <2>2. g \in Addresses /\ n \in Nat
    BY <2>0, SlotHolds
  <2> HIDE DEF w, g, n
  <2>3. PICK t \in Nat : t = clock[g]
    BY <1>1, <2>2
  <2>4. OnTime(t, n, c, w)
    BY <2>0, <2>1, <2>3 DEF ClockInv, Counted, g, n
  <2>5. clock'[g] = IF t < ERASE_DELAY + NPC_UPDATE_THROTTLE THEN t + 1 ELSE t
    BY <1>1, <2>2, <2>3
  <2>6. PICK p \in Nat : p = Pace(c) /\ n * p \in Nat
    BY <2>2, PaceIs
  <2>7. clock'[g] >= ERASE_DELAY \/ n * p + (w + 1) <= clock'[g] + p
    <3>1. t >= ERASE_DELAY \/ n * p + w <= t + p
      BY <2>4, <2>6 DEF OnTime
    <3>2. clock'[g] >= ERASE_DELAY \/ clock'[g] = t + 1
      BY <2>5, RegistryAssumption
    <3>3. clock'[g] = t + 1 \/ clock'[g] = t
      BY <2>5
    <3> QED BY <2>1, <2>6, <3>1, <3>2, <3>3, RegistryAssumption
  <2>8. OnTime(clock'[g], n, c, w + 1)
    BY <2>6, <2>7 DEF OnTime
  <2> QED BY <2>1, <2>8 DEF g, n
<1> QED BY <1>1, <1>2, <1>3 DEF ClockInv, Counted

(* One update counts one tick, or starts the count anew with the drawing.   *)
LEMMA UpdateTicks ==
  ASSUME NEW x \in HeatData, NEW has3D \in BOOLEAN, NEW scale \in Nat, NEW blocked
  PROVE  LET r   == Awake(x, has3D)
             new == Cooled(r, scale, blocked)
         IN  /\ new.uiTicksPassed \in Nat /\ x.uiTicksPassed \in Nat
             /\ new.uiTicksPassed <= x.uiTicksPassed + 1
             /\ new.bIsActive /\ ~x.bIsActive => new.uiTicksPassed <= 1
             /\ Erased(r, scale) => x.uiTicksPassed * scale >= ERASE_DELAY
<1> DEFINE r == Awake(x, has3D)
           new == Cooled(r, scale, blocked)
           asleep == [x EXCEPT !.bIsActive = FALSE]
           drawn  == [x EXCEPT !.bIsActive = TRUE, !.uiTicksPassed = 0]
<1>1. \/ r = x \/ r = asleep
      \/ r = drawn /\ ~x.bIsActive
  BY Zenon DEF Awake
<1>2. /\ asleep.uiTicksPassed = x.uiTicksPassed /\ asleep.bIsActive = FALSE
      /\ drawn.uiTicksPassed = 0 /\ drawn.bIsActive = TRUE
      /\ x.uiTicksPassed \in Nat
  BY RegistryAssumption DEF HeatData
<1>3. r \in HeatData
  <2>1. 0 \in 0..MAX_TICKS
    BY RegistryAssumption
  <2>2. asleep \in HeatData
    BY DEF HeatData
  <2>3. drawn \in HeatData
    BY <2>1 DEF HeatData
  <2> HIDE DEF r, asleep, drawn
  <2> QED BY <1>1, <2>2, <2>3
<1> HIDE DEF r, asleep, drawn
<1>4. /\ new.bIsActive = r.bIsActive
      /\ new.uiTicksPassed = IF r.uiTicksPassed < MAX_TICKS THEN r.uiTicksPassed + 1
                             ELSE r.uiTicksPassed
  BY <1>3 DEF Cooled, HeatData
<1>5. r.uiTicksPassed \in Nat /\ MAX_TICKS \in Nat
  BY <1>3, RegistryAssumption DEF HeatData
<1>6. /\ r.uiTicksPassed <= x.uiTicksPassed
      /\ r.bIsActive /\ ~x.bIsActive => r.uiTicksPassed = 0
      /\ ~r.bIsActive => r.uiTicksPassed = x.uiTicksPassed
  <2>1. CASE r = x
    BY <1>5, <2>1
  <2>2. CASE r = asleep
    BY <1>2, <1>5, <2>2
  <2>3. CASE r = drawn
    BY <1>2, <2>3
  <2> QED BY <1>1, <2>1, <2>2, <2>3
<1>7. Erased(r, scale) => x.uiTicksPassed * scale >= ERASE_DELAY
  BY <1>6 DEF Erased
<1> HIDE DEF new
<1>8. /\ new.uiTicksPassed \in Nat /\ new.uiTicksPassed <= r.uiTicksPassed + 1
  BY <1>4, <1>5
<1>9. /\ new.uiTicksPassed <= x.uiTicksPassed + 1
      /\ new.bIsActive /\ ~x.bIsActive => new.uiTicksPassed <= 1
  BY <1>2, <1>4, <1>5, <1>6, <1>8
<1> QED BY <1>2, <1>7, <1>8, <1>9 DEF r, new

LEMMA WalkTicks ==
  ASSUME IInv, WalkStep
  PROVE  LET h   == vec[walk.on][walk.at]
             new == data'[h]
         IN  /\ h \in Addresses /\ h \in DOMAIN data /\ DOMAIN data' = DOMAIN data
             /\ new.uiTicksPassed \in Nat /\ data[h].uiTicksPassed \in Nat
             /\ new.uiTicksPassed <= data[h].uiTicksPassed + 1
             /\ new.bIsActive /\ ~data[h].bIsActive => new.uiTicksPassed <= 1
             /\ walk'.kept = walk.kept => data[h].uiTicksPassed * Pace(walk.on) >= ERASE_DELAY
<1> DEFINE h == vec[walk.on][walk.at]
<1>0. /\ ~Quiet /\ walk.at <= walk.end /\ walk.kept \in Nat
      /\ walk \in [on : Containers \cup {"none"}, at : Nat, kept : Nat, end : Nat]
  BY DEF IInv, WalkStep, WalkTyped
<1>1. PICK has3D \in BOOLEAN, charging \in BOOLEAN, broken \in BOOLEAN :
        LET r == Awake(data[h], has3D)
        IN  /\ data' = [data EXCEPT ![h] = Cooled(r, Scale, menu \/ charging)]
            /\ Erased(r, Scale) \/ walk' = [walk EXCEPT !.at = @ + 1, !.kept = @ + 1]
  BY ZenonT(60) DEF WalkStep
<1> DEFINE r == Awake(data[h], has3D)
           new == Cooled(r, Scale, menu \/ charging)
<1>2. h \in DOMAIN data /\ h \in Addresses /\ data[h] \in HeatData
  BY <1>0, VisitAddsNothing
<1>3. DOMAIN data' = DOMAIN data /\ data'[h] = new
  BY <1>1, <1>2
<1>4. Scale = Pace(walk.on) /\ Scale \in Nat
  BY RegistryAssumption DEF Scale, Pace
<1>5. walk'.kept = walk.kept => Erased(r, Scale)
  <2>1. [walk EXCEPT !.at = @ + 1, !.kept = @ + 1].kept = walk.kept + 1
    BY <1>0
  <2>2. Erased(r, Scale) \/ walk' = [walk EXCEPT !.at = @ + 1, !.kept = @ + 1]
    BY <1>1
  <2> HIDE DEF r, new, h
  <2>3. walk.kept + 1 # walk.kept
    BY <1>0
  <2> QED BY <2>1, <2>2, <2>3
<1>6. /\ new.uiTicksPassed \in Nat /\ data[h].uiTicksPassed \in Nat
      /\ new.uiTicksPassed <= data[h].uiTicksPassed + 1
      /\ new.bIsActive /\ ~data[h].bIsActive => new.uiTicksPassed <= 1
      /\ Erased(r, Scale) => data[h].uiTicksPassed * Scale >= ERASE_DELAY
  BY <1>2, <1>4, UpdateTicks
<1> HIDE DEF r, new, h
<1> QED BY <1>2, <1>3, <1>4, <1>5, <1>6 DEF h

LEMMA ClockWalkStep ==
  ASSUME IInv, IInv', ClockInv, CWalk
  PROVE  ClockInv'
<1> DEFINE c == walk.on
           h == vec[c][walk.at]
           drawn == data'[h].bIsActive /\ ~data[h].bIsActive
<1>0. /\ WalkStep /\ frames' = frames /\ Typed /\ WalkTyped /\ clock \in [Addresses -> Nat]
      /\ clock' = [g \in Addresses |->
           IF g \in DOMAIN data /\ data'[g].bIsActive /\ ~data[g].bIsActive THEN 0 ELSE clock[g]]
  BY DEF CWalk, WalkStep, IInv, ClockInv
<1>1. /\ c \in Containers /\ walk.at \in DOMAIN vec[c] /\ h \in DOMAIN data /\ h # Null
      /\ \A g \in DOMAIN data : g # h => data'[g] = data[g]
      /\ walk'.on = c /\ walk'.at = walk.at + 1
      /\ \/ vec' = vec /\ walk'.kept = walk.kept
         \/ /\ walk'.kept = walk.kept + 1
            /\ \A d \in Containers : DOMAIN vec'[d] = DOMAIN vec[d]
            /\ \A d \in Containers : d # c => vec'[d] = vec[d]
            /\ \A i \in DOMAIN vec[c] :
                 vec'[c][i] = IF i = walk.kept + 1 THEN h
                              ELSE IF i = walk.at THEN Null ELSE vec[c][i]
  BY <1>0, WalkStepIs
<1>2. /\ h \in Addresses
      /\ data'[h].uiTicksPassed \in Nat /\ data[h].uiTicksPassed \in Nat
      /\ data'[h].uiTicksPassed <= data[h].uiTicksPassed + 1
      /\ drawn => data'[h].uiTicksPassed <= 1
  BY <1>0, WalkTicks
<1>3. /\ walk.at \in Nat /\ walk.kept \in Nat /\ walk.kept < walk.at
      /\ frames \in Nat /\ \A d \in Containers : DOMAIN vec[d] \subseteq Nat
      /\ c \in {"player", "active"} /\ c # "none"
  BY <1>0, <1>1 DEF Typed, WalkTyped, Containers
<1>4. /\ clock' \in [Addresses -> Nat]
      /\ clock'[h] = IF drawn THEN 0 ELSE clock[h]
      /\ \A g \in DOMAIN data : g # h /\ g \in Addresses => clock'[g] = clock[g]
  BY <1>0, <1>1, <1>2
<1>5. walk'.on = "active" => frames' = 0
  BY <1>0, <1>1 DEF ClockInv
<1>6. ~Quiet'
  BY <1>1, <1>3 DEF Quiet
<1>7. OnTime(clock'[h], data'[h].uiTicksPassed, c, 0)
  <2>1. CASE drawn
    <3>0. data'[h].uiTicksPassed \in Nat /\ data'[h].uiTicksPassed <= 1
      BY <1>2, <2>1, Zenon
    <3>1. PICK n \in Nat : n = data'[h].uiTicksPassed /\ n <= 0 + 1
      BY <3>0
    <3>2. OnTime(0, 0, c, Pace(c))
      BY <1>1, PaceIs DEF OnTime
    <3>3. OnTime(0, n, c, 0)
      BY <1>1, <3>1, <3>2, OnTimeTick
    <3> QED BY <1>4, <2>1, <3>1, <3>3
  <2>2. CASE ~drawn
    <3>1. Waited(c, walk.at) = Pace(c)
      BY <1>3 DEF Waited
    <3>2. OnTime(clock[h], data[h].uiTicksPassed, c, Pace(c))
      BY <1>1, <1>3, <3>1 DEF ClockInv, Counted
    <3>3. PICK t \in Nat, n \in Nat, m \in Nat :
            /\ t = clock[h] /\ n = data[h].uiTicksPassed /\ m = data'[h].uiTicksPassed
            /\ m <= n + 1
      BY <1>0, <1>2
    <3>4. OnTime(t, m, c, 0)
      BY <1>1, <3>2, <3>3, OnTimeTick
    <3> QED BY <1>4, <2>2, <3>3, <3>4
  <2> QED BY <2>1, <2>2
<1> HIDE DEF drawn
<1>8. ASSUME NEW d \in Containers, NEW i \in Nat, d = c, i = walk.kept + 1
      PROVE  Waited(d, i)' = 0
  <2>1. ~(i >= walk'.at)
    BY <1>1, <1>3, <1>8
  <2>2. d = "active" => frames' = 0 /\ walk'.on # "player"
    BY <1>1, <1>5, <1>8
  <2> QED BY <2>1, <2>2 DEF Waited
<1>9. ASSUME NEW d \in Containers, NEW i \in DOMAIN vec'[d],
             d # walk'.on \/ i <= walk'.kept \/ i >= walk'.at
      PROVE  OnTime(clock'[vec'[d][i]], data'[vec'[d][i]].uiTicksPassed, d, Waited(d, i)')
  <2>1. CASE d = c /\ i = walk.kept + 1 /\ walk'.kept = walk.kept + 1
    <3>1. vec'[d][i] = h
      BY <1>1, <1>3, <1>9, <2>1
    <3>2. Waited(d, i)' = 0
      BY <1>3, <1>8, <2>1
    <3> QED BY <1>7, <2>1, <3>1, <3>2
  <2>2. CASE ~(d = c /\ i = walk.kept + 1 /\ walk'.kept = walk.kept + 1)
    <3>1. i \in DOMAIN vec[d] /\ i \in Nat
      BY <1>1, <1>3
    <3>2. (d # c \/ i <= walk.kept \/ i >= walk.at) /\ ~(d = c /\ i = walk.at)
      BY <1>1, <1>3, <1>9, <2>2, <3>1
    <3>3. vec'[d][i] = vec[d][i]
      BY <1>1, <2>2, <3>1, <3>2
    <3>4. vec[d][i] # h
      BY <1>0, <1>1, <3>1, <3>2, SlotHolds DEF IInv, OneHeatPerWeapon
    <3>5. vec[d][i] \in DOMAIN data /\ vec[d][i] \in Addresses
      BY <3>1, <3>2, SlotHolds
    <3>6. clock'[vec[d][i]] = clock[vec[d][i]] /\ data'[vec[d][i]] = data[vec[d][i]]
      BY <1>1, <1>4, <3>4, <3>5
    <3>7. Waited(d, i)' = Waited(d, i)
      BY <1>0, <1>1, <1>3, <3>1, <3>2 DEF Waited
    <3>8. OnTime(clock[vec[d][i]], data[vec[d][i]].uiTicksPassed, d, Waited(d, i))
      BY <3>1, <3>2 DEF ClockInv, Counted
    <3> QED BY <3>3, <3>6, <3>7, <3>8
  <2> QED BY <2>1, <2>2
<1> QED BY <1>4, <1>5, <1>6, <1>9 DEF ClockInv, Counted

LEMMA ClockEndStep ==
  ASSUME IInv, ClockInv, EndOfWalk, UNCHANGED clock
  PROVE  ClockInv'
<1>1. /\ \A d \in Containers : \A i \in DOMAIN vec'[d] :
           /\ i \in DOMAIN vec[d] /\ (d = walk.on => i <= walk.kept)
           /\ vec'[d][i] = vec[d][i] /\ data'[vec'[d][i]] = data[vec[d][i]]
      /\ DOMAIN data' = Live'
  BY EndStep
<1>2. /\ walk.on \in {"player", "active"} /\ walk.kept \in Nat /\ walk.at \in Nat
      /\ walk.kept < walk.at /\ frames \in Nat /\ frames <= NPC_UPDATE_THROTTLE - 1
      /\ NPC_UPDATE_THROTTLE \in Nat /\ \A d \in Containers : DOMAIN vec[d] \subseteq Nat \ {0}
      /\ walk.on = "active" => frames = 0
  BY RegistryAssumption DEF IInv, Typed, WalkTyped, EndOfWalk, Quiet, Containers, ClockInv
<1>3. \/ /\ walk.on = "player" /\ frames + 1 >= NPC_UPDATE_THROTTLE /\ frames' = 0
         /\ walk'.on = "active" /\ walk'.at = 1
      \/ /\ walk.on = "player" /\ frames' = frames + 1 /\ walk'.on = "none"
      \/ /\ walk.on = "active" /\ frames' = 0 /\ walk'.on = "none"
  <2>0. frames' = Frames /\ walk' = IF Due THEN StartOf("active") ELSE Idle
    BY DEF EndOfWalk
  <2>1. CASE Due
    BY <2>0, <2>1 DEF Due, Frames, StartOf
  <2>2. CASE ~Due /\ walk.on = "player"
    <3>1. Frames = frames + 1
      BY <2>2, Zenon DEF Frames
    <3> QED BY <2>0, <2>2, <3>1 DEF Idle
  <2>3. CASE ~Due /\ walk.on = "active"
    <3>1. Frames = frames
      BY <2>3, Zenon DEF Frames
    <3> QED BY <1>2, <2>0, <2>3, <3>1 DEF Idle
  <2> QED BY <1>2, <2>1, <2>2, <2>3
<1>4. /\ clock' \in [Addresses -> Nat] /\ Quiet' => DOMAIN data' \subseteq Live'
      /\ walk'.on = "active" => frames' = 0
  BY <1>1, <1>3 DEF ClockInv
<1>5. ASSUME NEW d \in Containers, NEW i \in DOMAIN vec'[d]
      PROVE  OnTime(clock'[vec'[d][i]], data'[vec'[d][i]].uiTicksPassed, d, Waited(d, i)')
  <2>1. /\ i \in DOMAIN vec[d] /\ (d = walk.on => i <= walk.kept)
        /\ vec'[d][i] = vec[d][i] /\ data'[vec'[d][i]] = data[vec[d][i]] /\ clock' = clock
    BY <1>1
  <2>2. i \in Nat \ {0} /\ ~(d = walk.on /\ i >= walk.at) /\ d \in {"player", "active"}
    BY <1>2, <2>1 DEF Containers
  <2>3. Waited(d, i)' = Waited(d, i)
    <3>1. CASE d = "player"
      <4>1. Waited(d, i) = 0 /\ ~(d = walk'.on /\ i >= walk'.at)
        BY <1>3, <2>2, <3>1 DEF Waited
      <4> QED BY <3>1, <4>1 DEF Waited
    <3>2. CASE d = "active"
      <4>1. Waited(d, i) = frames + (IF walk.on = "player" THEN 1 ELSE 0)
        BY <2>2, <3>2 DEF Waited
      <4>2. Waited(d, i)' = IF walk'.on = "active" /\ i >= walk'.at THEN NPC_UPDATE_THROTTLE
                            ELSE frames' + (IF walk'.on = "player" THEN 1 ELSE 0)
        BY <3>2 DEF Waited, Pace
      <4> QED BY <1>2, <1>3, <2>2, <4>1, <4>2
    <3> QED BY <2>2, <3>1, <3>2
  <2>4. OnTime(clock[vec[d][i]], data[vec[d][i]].uiTicksPassed, d, Waited(d, i))
    BY <2>1 DEF ClockInv, Counted
  <2> QED BY <2>1, <2>3, <2>4
<1> QED BY <1>4, <1>5 DEF ClockInv, Counted

LEMMA ClockStep == IInv /\ IInv' /\ ClockInv /\ [CNext]_cvars => ClockInv'
<1> SUFFICES ASSUME IInv, IInv', ClockInv, [CNext]_cvars PROVE ClockInv'
  OBVIOUS
<1>1. ASSUME UNCHANGED <<vec, data, walk, frames, clock>> PROVE ClockInv'
  BY <1>1 DEF ClockInv, Counted, Waited, Quiet, Live, Held
<1>2. CASE ClearOCWeapons /\ UNCHANGED clock
  <2>1. /\ \A d \in Containers : DOMAIN vec'[d] = {}
        /\ DOMAIN data' = {} /\ walk'.on # "active"
    BY <1>2 DEF ClearOCWeapons, Quiet
  <2>2. clock' \in [Addresses -> Nat]
    BY <1>2 DEF ClockInv
  <2> QED BY <2>1, <2>2 DEF ClockInv, Counted
<1>3. CASE COther
  <2>1. CASE EndOfWalk
    BY <1>3, <2>1, ClockEndStep DEF COther
  <2>2. CASE ClearOCWeapons
    BY <1>2, <1>3, <2>2 DEF COther
  <2>3. CASE \/ SetMenu \/ \E actor \in Actors : Die(actor)
             \/ \E actor \in Actors : \E weap \in Weapons \cup {NoWeapon} : Draw(actor, weap)
    BY <1>1, <1>3, <2>3 DEF COther, SetMenu, Die, Draw
  <2> QED BY <1>3, <2>1, <2>2, <2>3 DEF COther
<1>4. CASE CHook
  BY <1>4, ClockHookStep
<1>5. CASE CMainLoop
  BY <1>5, ClockFrameStep
<1>6. CASE CWalk
  BY <1>6, ClockWalkStep
<1>7. CASE UNCHANGED cvars
  BY <1>1, <1>7 DEF cvars, vars
<1> QED BY <1>3, <1>4, <1>5, <1>6, <1>7 DEF CNext

LEMMA ClockInvariance == CSpec => []IInv /\ []ClockInv
<1>1. CInit => ClockInv
  <2> SUFFICES ASSUME CInit PROVE ClockInv
    OBVIOUS
  <2>1. /\ \A d \in Containers : DOMAIN vec[d] = {}
        /\ DOMAIN data = {} /\ walk.on = "none"
    BY DEF CInit, Init, Idle
  <2>2. clock \in [Addresses -> Nat]
    BY DEF CInit
  <2> QED BY <2>1, <2>2 DEF ClockInv, Counted
<1>2. CSpec => []IInv
  BY ClockAddsNothing, Invariance, PTL
<1> QED BY <1>1, <1>2, ClockStep, PTL DEF CSpec

(* EraseIsTimely: whatever the throttle is, and however the turns of the    *)
(* two loops fall, remove_if drops no heat before ERASE_DELAY frames have   *)
(* passed since it was made, fired or drawn.                                *)
THEOREM EraseKeepsItsDelay == CSpec => EraseIsTimely
<1> DEFINE Late == ~Quiet /\ walk'.at > walk.at /\ walk'.kept = walk.kept
                     => clock[vec[walk.on][walk.at]] >= ERASE_DELAY
<1>1. ASSUME IInv, ClockInv, CNext, ~Quiet, walk'.at > walk.at, walk'.kept = walk.kept
      PROVE  clock[vec[walk.on][walk.at]] >= ERASE_DELAY
  <2> DEFINE h == vec[walk.on][walk.at]
  <2>1. CASE WalkStep
    <3>1. /\ h \in Addresses /\ data[h].uiTicksPassed \in Nat
          /\ data[h].uiTicksPassed * Pace(walk.on) >= ERASE_DELAY
      BY <1>1, <2>1, WalkTicks
    <3>2. walk.on \in Containers /\ walk.at \in DOMAIN vec[walk.on] /\ walk.at \in Nat
      BY <1>1, <2>1, WalkStepIs DEF IInv, WalkTyped
    <3>3. Waited(walk.on, walk.at) = Pace(walk.on)
      BY <3>2 DEF Waited
    <3>4. OnTime(clock[h], data[h].uiTicksPassed, walk.on, Pace(walk.on))
      BY <1>1, <3>2, <3>3 DEF ClockInv, Counted
    <3>5. PICK t \in Nat, ticks \in Nat, p \in Nat :
            /\ t = clock[h] /\ p = Pace(walk.on) /\ ticks = data[h].uiTicksPassed * p
      BY <1>1, <3>1, <3>2, PaceIs DEF ClockInv
    <3>6. t >= ERASE_DELAY \/ ticks + p <= t + p
      BY <3>4, <3>5 DEF OnTime
    <3>7. ticks >= ERASE_DELAY
      BY <3>1, <3>5
    <3>8. t >= ERASE_DELAY
      BY <3>6, <3>7, RegistryAssumption
    <3> QED BY <3>5, <3>8
  <2>2. CASE EndOfWalk
    <3>1. walk'.at = 1
      BY <2>2 DEF EndOfWalk, StartOf, Idle
    <3>2. walk.at \in Nat \ {0}
      BY <1>1 DEF IInv, WalkTyped
    <3> QED BY <1>1, <3>1, <3>2
  <2> QED BY <1>1, <2>1, <2>2 DEF CNext, CHook, CMainLoop, CWalk, COther, MainLoop,
         GetEquippedOCWeapon, FireWeaponWrapper, Draw, Die, SetMenu, ClearOCWeapons
<1>2. IInv /\ ClockInv /\ [CNext]_cvars => [Late]_cvars
  BY <1>1
<1> QED BY <1>2, ClockInvariance, PTL DEF CSpec, EraseIsTimely
=============================================================================
