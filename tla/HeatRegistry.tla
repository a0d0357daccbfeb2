---------------------------- MODULE HeatRegistry ----------------------------
(***************************************************************************)
(* The two containers of heat, playerOCWeapons and activeOCWeapons, with   *)
(* several actors and weapons.  Hooks look heat up and add it at the end;  *)
(* the main loop walks the containers with remove_if, whose predicate,     *)
(* UpdateActiveWeapons, may itself add to the container under the walk.    *)
(* The walk is therefore modelled slot by slot.                            *)
(*                                                                         *)
(* A heat is a shared pointer: an address, with its content in data.       *)
(* Charging and configurations are those of HeatWeapon; here a             *)
(* frame takes one unit of time and a shot adds one unit of heat.          *)
(***************************************************************************)
EXTENDS Naturals, SequencesExt

CONSTANTS
  Actors, Player,       (* the actors; one of them is the player               *)
  Weapons, NoWeapon,    (* weapons with a configuration; any other weapon      *)
  NPC_UPDATE_THROTTLE,  (* frames between two updates of activeOCWeapons       *)
  COOLDOWN_DELAY, ERASE_DELAY,
  MAX_TICKS,
  HeatBound,            (* bound: heat a weapon may reach                      *)
  Addresses,            (* bound: the addresses heats may have                 *)
  Null                  (* a shared pointer that was moved from                *)

ASSUME RegistryAssumption ==
  /\ Player \in Actors /\ NoWeapon \notin Weapons
  /\ NPC_UPDATE_THROTTLE \in Nat \ {0}
  /\ COOLDOWN_DELAY \in Nat /\ ERASE_DELAY \in Nat
  /\ MAX_TICKS \in Nat /\ HeatBound \in Nat
  /\ Null \notin Addresses

Containers == {"player", "active"}

VARIABLES
  vec,      (* the containers: sequences of heats                              *)
  data,     (* what the addresses hold                                         *)
  walk,     (* remove_if: the container ("none" outside the main loop), the    *)
            (* next slot, the number of slots kept, the end when it began      *)
  frames,   (* OCFrameCounter                                                  *)
  carried,  (* the current weapon of each actor                                *)
  dying,    (* the actors that are dying                                       *)
  menu      (* MenuMode()                                                      *)

vars == <<vec, data, walk, frames, carried, dying, menu>>

HeatData ==
  [rActor : Actors, rWeap : Weapons, bIsActive : BOOLEAN,
   uiTicksPassed : 0..MAX_TICKS, fHeatVal : 0..HeatBound]

TypeOK ==
  /\ vec \in [Containers -> Seq(Addresses \cup {Null})]
  /\ \A h \in DOMAIN data : h \in Addresses /\ data[h] \in HeatData
  /\ walk.on \in Containers \cup {"none"}
  /\ walk.kept < walk.at /\ walk.at <= walk.end + 1
  /\ frames \in 0..NPC_UPDATE_THROTTLE - 1
  /\ carried \in [Actors -> Weapons \cup {NoWeapon}]
  /\ dying \subseteq Actors
  /\ menu \in BOOLEAN

-----------------------------------------------------------------------------

Home(actor) == IF actor = Player THEN "player" ELSE "active"

Held(c) == ToSet(vec[c]) \ {Null}

(* What is in the vectors keeps its address; the rest is free.              *)
Live == Held("player") \cup Held("active")

(* The heats GetActiveHeat would find: the first of them is returned.       *)
ActiveHeat(actor, weap) ==
  {h \in Held(Home(actor)) : data[h].rActor = actor /\ data[h].rWeap = weap}

GetActiveHeat(actor, weap) ==
  vec[Home(actor)][SelectInSeq(vec[Home(actor)], LAMBDA h : h \in ActiveHeat(actor, weap))]

NewHeat(actor, weap) ==
  [rActor |-> actor, rWeap |-> weap, bIsActive |-> FALSE, uiTicksPassed |-> 0, fHeatVal |-> 0]

(* Mutant: the heat is added without a look at what is there.               *)
InitializeHeatFXUnchecked(h, actor) == [vec EXCEPT ![Home(actor)] = Append(@, h)]

(* The container with h in it, at the end unless it is there already.       *)
InitializeHeatFX(h, actor) ==
  IF h \in Held(Home(actor)) THEN vec ELSE [vec EXCEPT ![Home(actor)] = Append(@, h)]

Put(h, r) == [g \in DOMAIN data \cup {h} |-> IF g = h THEN r ELSE data[g]]

(* Mutant: the hook always makes a new heat.                                *)
GetOrCreateHeatAnew(actor, heat, reset) ==
  /\ carried[actor] # NoWeapon
  /\ \E h \in Addresses \ Live :
       /\ vec' = InitializeHeatFX(h, actor)
       /\ data' = Put(h, NewHeat(actor, carried[actor]))

(* GetOrCreateHeat; what it returns is then heated by so much.              *)
GetOrCreateHeat(actor, heat, reset) ==
  LET weap     == carried[actor]
      After(r) == [r EXCEPT !.fHeatVal = @ + heat, !.uiTicksPassed = IF reset THEN 0 ELSE @]
      Stored(h, r) == r.fHeatVal <= HeatBound /\ data' = Put(h, r)
  IN  /\ weap # NoWeapon
      /\ \/ /\ ActiveHeat(actor, weap) # {}
            /\ LET h == GetActiveHeat(actor, weap) IN Stored(h, After(data[h]))
            /\ UNCHANGED vec
         \/ /\ ActiveHeat(actor, weap) = {}
            /\ \E h \in Addresses \ Live :
                 /\ Stored(h, After(NewHeat(actor, weap)))
                 /\ vec' = InitializeHeatFX(h, actor)

-----------------------------------------------------------------------------
(* The hooks: the engine calls them when the main loop is not under way.    *)

Quiet == walk.on = "none"

GetEquippedOCWeapon(actor) ==
  /\ Quiet /\ GetOrCreateHeat(actor, 0, FALSE)
  /\ UNCHANGED <<walk, frames, carried, dying, menu>>

FireWeaponWrapper(actor) ==
  /\ Quiet /\ actor \notin dying
  /\ GetOrCreateHeat(actor, 1, TRUE)
  /\ UNCHANGED <<walk, frames, carried, dying, menu>>

Draw(actor, weap) ==
  /\ Quiet /\ weap # carried[actor]
  /\ carried' = [carried EXCEPT ![actor] = weap]
  /\ UNCHANGED <<vec, data, walk, frames, dying, menu>>

Die(actor) ==
  /\ Quiet /\ actor \notin dying
  /\ dying' = dying \cup {actor}
  /\ UNCHANGED <<vec, data, walk, frames, carried, menu>>

SetMenu ==
  /\ Quiet
  /\ menu' = ~menu
  /\ UNCHANGED <<vec, data, walk, frames, carried, dying>>

(* A save is loaded: other actors, with other weapons in their hands.       *)
ClearOCWeapons ==
  /\ Quiet
  /\ vec' = [c \in Containers |-> <<>>] /\ data' = <<>>
  /\ dying' = {}
  /\ UNCHANGED <<walk, frames, carried, menu>>

-----------------------------------------------------------------------------
(* UpdateActiveWeapons for one heat.  scale: the time of a frame, 1 for the *)
(* player and NPC_UPDATE_THROTTLE for the throttled loop.                   *)

Awake(r, has3D) ==
  IF carried[r.rActor] # r.rWeap \/ r.rActor \in dying THEN [r EXCEPT !.bIsActive = FALSE]
  ELSE IF r.bIsActive \/ ~has3D THEN r
  ELSE [r EXCEPT !.bIsActive = TRUE, !.uiTicksPassed = 0]

Refreshed(r, has3D) == ~r.bIsActive /\ Awake(r, has3D).bIsActive

(* Mutant: heat does not keep a weapon from being erased.                   *)
ErasedHot(r, scale) == ~r.bIsActive /\ r.uiTicksPassed * scale >= ERASE_DELAY

(* Mutant: the delay must be met exactly.                                   *)
ErasedOnTheDot(r, scale) ==
  ~r.bIsActive /\ r.fHeatVal = 0 /\ r.uiTicksPassed * scale = ERASE_DELAY

Erased(r, scale) ==
  ~r.bIsActive /\ r.fHeatVal = 0 /\ r.uiTicksPassed * scale >= ERASE_DELAY

Cooled(r, scale, blocked) ==
  [r EXCEPT
    !.uiTicksPassed = IF @ < MAX_TICKS THEN @ + 1 ELSE @,
    !.fHeatVal = IF r.uiTicksPassed * scale >= COOLDOWN_DELAY /\ ~blocked
                 THEN IF @ > scale THEN @ - scale ELSE 0 ELSE @]

Scale == IF walk.on = "player" THEN 1 ELSE NPC_UPDATE_THROTTLE

(* One turn of remove_if: a kept heat moves to the first free slot, which   *)
(* leaves a null behind.  charging: a charge stops the cooling of the       *)
(* weapon the player holds; broken: UpdateHeatFX found a block of the mesh  *)
(* gone and looks for the blocks anew.                                      *)
WalkStep ==
  LET h == vec[walk.on][walk.at]
  IN  /\ ~Quiet /\ walk.at <= walk.end
      /\ \E has3D, charging, broken \in BOOLEAN :
           LET r     == Awake(data[h], has3D)
               grown == IF broken \/ Refreshed(data[h], has3D)
                        THEN InitializeHeatFX(h, r.rActor) ELSE vec
           IN  /\ charging => walk.on = "player" /\ r.bIsActive
               /\ data' = [data EXCEPT ![h] = Cooled(r, Scale, menu \/ charging)]
               /\ IF Erased(r, Scale)
                  THEN vec' = grown /\ walk' = [walk EXCEPT !.at = @ + 1]
                  ELSE /\ vec' = [grown EXCEPT ![walk.on] =
                                    [[@ EXCEPT ![walk.at] = Null] EXCEPT ![walk.kept + 1] = h]]
                       /\ walk' = [walk EXCEPT !.at = @ + 1, !.kept = @ + 1]
      /\ UNCHANGED <<frames, carried, dying, menu>>

Idle == [on |-> "none", at |-> 1, kept |-> 0, end |-> 0]

StartOf(c) == [on |-> c, at |-> 1, kept |-> 0, end |-> Len(vec[c])]

(* The main loop calls UpdatePlayerOCWeapons, unless the game is paused.    *)
MainLoop ==
  /\ Quiet
  /\ walk' = StartOf("player")
  /\ UNCHANGED <<vec, data, frames, carried, dying, menu>>

(* Mutant: one frame more.                                                  *)
DueLate == walk.on = "player" /\ frames + 1 > NPC_UPDATE_THROTTLE

(* Every NPC_UPDATE_THROTTLEth time UpdateActiveOCWeapons follows.          *)
Due == walk.on = "player" /\ frames + 1 >= NPC_UPDATE_THROTTLE

(* Mutant: the counter is not reset, so that every frame updates everyone.  *)
FramesNotReset == IF walk.on = "player" /\ ~Due THEN frames + 1 ELSE frames

Frames ==
  CASE Due -> 0
    [] walk.on = "player" /\ ~Due -> frames + 1
    [] OTHER -> frames

(* The erase after remove_if frees what was not kept.                       *)
EndOfWalk ==
  /\ ~Quiet /\ walk.at > walk.end
  /\ vec' = [vec EXCEPT ![walk.on] = SubSeq(@, 1, walk.kept)]
  /\ data' = Restrict(data, Live')
  /\ frames' = Frames
  /\ walk' = IF Due THEN StartOf("active") ELSE Idle
  /\ UNCHANGED <<carried, dying, menu>>

Loop == MainLoop \/ WalkStep \/ EndOfWalk

-----------------------------------------------------------------------------

Init ==
  /\ vec = [c \in Containers |-> <<>>]
  /\ data = <<>>
  /\ walk = Idle
  /\ frames = 0
  /\ carried \in [Actors -> Weapons \cup {NoWeapon}]
  /\ dying = {}
  /\ menu = FALSE

Next ==
  \/ Loop
  \/ \E actor \in Actors :
       \/ GetEquippedOCWeapon(actor)
       \/ FireWeaponWrapper(actor)
       \/ \E weap \in Weapons \cup {NoWeapon} : Draw(actor, weap)
       \/ Die(actor)
  \/ SetMenu
  \/ ClearOCWeapons

Spec == Init /\ [][Next]_vars

(* The main loop goes on.                                                   *)
FairSpec == Spec /\ WF_vars(Loop)

-----------------------------------------------------------------------------
(* Properties                                                               *)

(* No actor has two heats for one weapon, and the heats of the player are   *)
(* in the player's container: GetActiveHeat looks nowhere else.             *)
OneHeatPerWeapon ==
  \A c, d \in Containers : \A i \in DOMAIN vec[c], j \in DOMAIN vec[d] :
    LET g == vec[c][i]
        h == vec[d][j]
    IN  g # Null /\ h # Null =>
          /\ Home(data[g].rActor) = c
          /\ data[g].rActor = data[h].rActor /\ data[g].rWeap = data[h].rWeap
               => c = d /\ i = j

(* A container is never grown, and so never moved in memory, while          *)
(* remove_if walks it, although the update it calls may add heats.          *)
WalkNeverGrows ==
  [][~Quiet => Len(vec'[walk.on]) <= Len(vec[walk.on])]_vars

(* The slots before the walk, and those it kept, are the registry; what     *)
(* lies between is about to be erased.                                      *)
Registered ==
  UNION {IF walk.on = c
         THEN {vec[c][i] : i \in {j \in DOMAIN vec[c] : j <= walk.kept \/ j >= walk.at}}
         ELSE ToSet(vec[c]) : c \in Containers}

PairOf(h) == <<data[h].rActor, data[h].rWeap>>

HeatByPair ==
  [p \in {PairOf(h) : h \in Registered} |->
     data[CHOOSE h \in Registered : PairOf(h) = p].fHeatVal]

Map == INSTANCE HeatMap WITH Pairs <- Actors \X Weapons, heatOf <- HeatByPair

(* Whatever the vectors do, the registry is a map from actors and weapons   *)
(* to heat, which loses a heat only when it is cold.                        *)
ImplementsMap == Map!Spec

AwayDelay == IF COOLDOWN_DELAY < ERASE_DELAY THEN ERASE_DELAY ELSE COOLDOWN_DELAY

(* The updates that a heat needs, at most, to be cold and old enough: one   *)
(* for each tick both delays still lack, and one for each unit of heat.     *)
Remaining(r) ==
  (IF r.uiTicksPassed < AwayDelay THEN AwayDelay - r.uiTicksPassed ELSE 0) + r.fHeatVal

Abandoned(r) == carried[r.rActor] # r.rWeap \/ r.rActor \in dying

(* Why abandoned heats are forgotten: no hook, no other heat's update and   *)
(* no compaction of a container puts off the end of a heat whose weapon is  *)
(* not in its owner's hands, and each visit of remove_if outside menus      *)
(* brings it nearer, until the heat is dropped.                             *)
AbandonedWearsOff ==
  [][\A h \in Registered \cap Registered' :
       Abandoned(data[h]) =>
         /\ Remaining(data'[h]) <= Remaining(data[h])
         /\ ~Quiet /\ walk.at <= walk.end /\ vec[walk.on][walk.at] = h /\ ~menu =>
              Remaining(data'[h]) < Remaining(data[h])]_vars

(* A weapon that its owner puts away for good is forgotten, in either       *)
(* container, once the menus are closed.                                    *)
AbandonedAreErased ==
  \A actor \in Actors, weap \in Weapons :
    <>[](carried[actor] # weap) /\ <>[]~menu => <>[](ActiveHeat(actor, weap) = {})
=============================================================================
