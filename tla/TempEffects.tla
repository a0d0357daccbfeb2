----------------------------- MODULE TempEffects ----------------------------
(***************************************************************************)
(* The colours of what a shot leaves behind.  Flashes, projectiles,        *)
(* impacts and explosions are scene graphs of the engine; the wrappers     *)
(* give their geometry a material of the weapon's colour and note their    *)
(* emitters in activeEmitters, from which new particles take their colour. *)
(* The engine reuses the graphs of impacts, so that their own material is  *)
(* kept in activeTempEffects and given back when a cold weapon is next.    *)
(* An effect without a weapon or a node, or with effects off, is passed    *)
(* over: its wrapper notes nothing and gives nothing back.                 *)
(*                                                                         *)
(* A graph is its address, one geometry and one emitter; a colour is the   *)
(* weapon it comes from.  The lights, the shader of a kill and the single  *)
(* particles are left out.  GetActiveHeat succeeds for the weapons in hot. *)
(* source, passed and due are history: no action reads them.               *)
(***************************************************************************)
EXTENDS Naturals, Sequences

CONSTANTS
  Addresses,   \* where graphs may live
  Weapons,     \* weapons that may be configured
  Own,         \* the material a graph was loaded with
  Cold,        \* a null heat in activeEmitters
  None         \* no entry; no weapon

ASSUME NamesAssumption ==
  Own \notin Weapons /\ Cold \notin Weapons /\ None \notin Weapons /\ Cold # None /\ Own # None

VARIABLES
  scene,              \* what lives at each address
  source,             \* weapon of the last effect in each graph that its wrapper handled
  passed,             \* graphs whose present effect its wrapper passed over
  due,                \* the colour the last handled hit in each graph asked for
  material,           \* the material of its geometry
  activeTempEffects,  \* recorded geometry, with the material to give back
  activeEmitters,     \* the heat noted for each emitter
  hot,                \* weapons with HeatData
  noVFX,              \* weapons whose configuration has OCFlags_NoVFX
  bVFX                \* g_OCSettings.bVFX

history == <<source, passed, due>>
vars == <<scene, history, material, activeTempEffects, activeEmitters, hot, noVFX, bVFX>>

Kinds == {"free", "flash", "projectile", "impact", "explosion"}

TypeOK ==
  /\ scene \in [Addresses -> Kinds]
  /\ source \in [Addresses -> Weapons \cup {None}]
  /\ passed \subseteq Addresses
  /\ due \in [Addresses -> Weapons \cup {Own}]
  /\ material \in [Addresses -> Weapons \cup {Own}]
  /\ activeTempEffects \in Seq([geom : Addresses, ogMatProp : Weapons \cup {Own}])
  /\ activeEmitters \in [Addresses -> Weapons \cup {Cold, None}]
  /\ hot \subseteq Weapons /\ noVFX \subseteq Weapons
  /\ bVFX \in BOOLEAN

Records     == DOMAIN activeTempEffects
RecordOf(x) == {i \in Records : activeTempEffects[i].geom = x}
Recorded(x) == RecordOf(x) # {}

(* The loops stop at the first record of the geometry.                      *)
First(x) == activeTempEffects[CHOOSE i \in RecordOf(x) : \A j \in RecordOf(x) : i <= j]

Heated(w)    == w \in hot /\ w \notin noVFX
WantsNone(w) == w \in hot /\ w \in noVFX

-----------------------------------------------------------------------------
(* The wrappers.  w is the weapon a wrapper finds, None if it finds none;   *)
(* node says whether it finds the node of the graph.                        *)

(* Mutant: only heated effects are noted.                                   *)
NotedIfHot(x, w) == [activeEmitters EXCEPT ![x] = IF w \in hot THEN w ELSE @]

Noted(x, w) == [activeEmitters EXCEPT ![x] = IF w \in hot THEN w ELSE Cold]

Tinted(x, w) == [material EXCEPT ![x] = w]

(* The graph an effect gets at x: a new one, or the last one again.         *)
Spawn(x, w, kind, handled) ==
  /\ scene[x] = "free" \/ (scene[x] = kind /\ kind \in {"flash", "impact"})
  /\ scene' = [scene EXCEPT ![x] = kind]
  /\ source' = IF handled THEN [source EXCEPT ![x] = w] ELSE source
  /\ passed' = IF handled THEN passed \ {x} ELSE passed \cup {x}
  /\ due' = IF handled /\ kind = "impact"
            THEN [due EXCEPT ![x] = IF Heated(w) THEN w ELSE Own] ELSE due
  /\ UNCHANGED <<hot, noVFX, bVFX>>

(* What flashes, projectiles and explosions that are handled get.           *)
Coloured(x, w, handled) ==
  /\ activeEmitters' = IF handled THEN Noted(x, w) ELSE activeEmitters
  /\ material' = IF handled /\ Heated(w) THEN Tinted(x, w) ELSE material
  /\ UNCHANGED activeTempEffects

(* A weapon that wants no effects is passed over, entry and all.            *)
MuzzleFlashWrapper(x, w, node) ==
  LET handled == bVFX /\ node /\ w # None /\ ~WantsNone(w)
  IN  Spawn(x, w, "flash", handled) /\ Coloured(x, w, handled)

(* A projectile without a weapon has no heat, and is noted as such.         *)
ProjectileWrapper(x, w, node) ==
  LET handled == bVFX /\ node /\ ~WantsNone(w)
  IN  Spawn(x, w, "projectile", handled) /\ Coloured(x, w, handled)

(* Mutant: the explosion is coloured without asking whether there is heat.  *)
ExplosionUnguarded(x, w, node) ==
  LET handled == bVFX /\ node /\ w # None
  IN  /\ Spawn(x, w, "explosion", handled)
      /\ activeEmitters' = IF handled THEN Noted(x, w) ELSE activeEmitters
      /\ material' = IF handled /\ w \notin noVFX
                     THEN Tinted(x, activeEmitters'[x]) ELSE material
      /\ UNCHANGED activeTempEffects

(* ExplosionWrapper and GooPileWrapper.  w is not the weapon that fired but *)
(* the one the owner or the killer has in hand now; None stands for an      *)
(* explosion nobody or no actor owns, and a pile nobody killed for.         *)
(* Nothing in hand is handled like a weapon without heat.                   *)
ExplosionWrapper(x, w, node) ==
  LET handled == bVFX /\ node /\ w # None
  IN  Spawn(x, w, "explosion", handled) /\ Coloured(x, w, handled)

(* Mutants: the material is recorded after it was replaced; the impact of a *)
(* weapon without heat keeps the material it finds.                         *)
ImpactRecordsTint(x, w, node) ==
  LET handled == bVFX /\ node /\ w # None
  IN  /\ Spawn(x, w, "impact", handled)
      /\ activeEmitters' = IF handled THEN Noted(x, w) ELSE activeEmitters
      /\ material' = IF ~handled THEN material
                     ELSE IF Heated(w) THEN Tinted(x, w)
                     ELSE IF Recorded(x) THEN Tinted(x, First(x).ogMatProp)
                     ELSE material
      /\ activeTempEffects' =
           IF handled /\ Heated(w) /\ ~Recorded(x)
           THEN Append(activeTempEffects, [geom |-> x, ogMatProp |-> material'[x]])
           ELSE activeTempEffects

ImpactKeepsTint(x, w, node) ==
  LET handled == bVFX /\ node /\ w # None
  IN  /\ Spawn(x, w, "impact", handled)
      /\ activeEmitters' = IF handled THEN Noted(x, w) ELSE activeEmitters
      /\ material' = IF ~handled THEN material
                     ELSE IF Heated(w) THEN Tinted(x, w)
                     ELSE IF Recorded(x) /\ w \in hot THEN Tinted(x, First(x).ogMatProp)
                     ELSE material
      /\ activeTempEffects' =
           IF handled /\ Heated(w) /\ ~Recorded(x)
           THEN Append(activeTempEffects, [geom |-> x, ogMatProp |-> material[x]])
           ELSE activeTempEffects

(* ImpactWrapper and ImpactActorWrapper.  None stands for a hit without a   *)
(* source or a weapon (or a target, in the second).                         *)
ImpactWrapper(x, w, node) ==
  LET handled == bVFX /\ node /\ w # None
  IN  /\ Spawn(x, w, "impact", handled)
      /\ activeEmitters' = IF handled THEN Noted(x, w) ELSE activeEmitters
      /\ material' = IF ~handled THEN material
                     ELSE IF Heated(w) THEN Tinted(x, w)
                     ELSE IF Recorded(x) THEN Tinted(x, First(x).ogMatProp)
                     ELSE material
      /\ activeTempEffects' =
           IF handled /\ Heated(w) /\ ~Recorded(x)
           THEN Append(activeTempEffects, [geom |-> x, ogMatProp |-> material[x]])
           ELSE activeTempEffects

(* InitializeParticleWrapper, which does not ask for bVFX.  A particle that *)
(* does not glow makes its emitter forgotten; one that does takes the       *)
(* colour of the heat, or its own if there is none.                         *)
InitializeParticle(x, glows) ==
  /\ scene[x] # "free"
  /\ activeEmitters' = IF glows THEN activeEmitters ELSE [activeEmitters EXCEPT ![x] = None]
  /\ UNCHANGED <<scene, history, material, activeTempEffects, hot, noVFX, bVFX>>

(* The colour the next glowing particle at x takes.                         *)
Paint(x) ==
  IF activeEmitters[x] \in Weapons /\ activeEmitters[x] \notin noVFX
  THEN activeEmitters[x] ELSE None

(* A save is loaded: the materials are given back, record by record.        *)
ClearOCWeapons ==
  /\ material' = [x \in Addresses |->
                    IF Recorded(x)
                    THEN activeTempEffects[CHOOSE i \in RecordOf(x) :
                                             \A j \in RecordOf(x) : j <= i].ogMatProp
                    ELSE material[x]]
  /\ activeTempEffects' = <<>>
  /\ activeEmitters' = [x \in Addresses |-> None]
  /\ hot' = {}
  /\ due' = [x \in Addresses |-> Own]
  /\ UNCHANGED <<scene, source, passed, noVFX, bVFX>>

-----------------------------------------------------------------------------
(* The engine and the rest of the plugin                                    *)

(* The engine deletes a graph; the records keep theirs alive, activeEmitters *)
(* holds addresses only.                                                    *)
Delete(x) ==
  /\ scene[x] # "free" /\ ~Recorded(x)
  /\ scene' = [scene EXCEPT ![x] = "free"]
  /\ source' = [source EXCEPT ![x] = None]
  /\ due' = [due EXCEPT ![x] = Own]
  /\ material' = [material EXCEPT ![x] = Own]
  /\ passed' = passed \ {x}
  /\ UNCHANGED <<activeTempEffects, activeEmitters, hot, noVFX, bVFX>>

(* The registry finds or erases the heat of a weapon.                       *)
HeatComesOrGoes(w) ==
  /\ hot' = IF w \in hot THEN hot \ {w} ELSE hot \cup {w}
  /\ UNCHANGED <<scene, history, material, activeTempEffects, activeEmitters, noVFX, bVFX>>

(* Other ammo, other configuration.  A heat that only an emitter still      *)
(* holds is taken to follow its weapon; it really keeps what it had.        *)
SwapAmmo(w) ==
  /\ noVFX' = IF w \in noVFX THEN noVFX \ {w} ELSE noVFX \cup {w}
  /\ UNCHANGED <<scene, history, material, activeTempEffects, activeEmitters, hot, bVFX>>

SetOCSettings ==
  /\ bVFX' = ~bVFX
  /\ UNCHANGED <<scene, history, material, activeTempEffects, activeEmitters, hot, noVFX>>

Init ==
  /\ scene = [x \in Addresses |-> "free"]
  /\ source = [x \in Addresses |-> None] /\ passed = {} /\ due = [x \in Addresses |-> Own]
  /\ material = [x \in Addresses |-> Own]
  /\ activeTempEffects = <<>>
  /\ activeEmitters = [x \in Addresses |-> None]
  /\ hot = {} /\ noVFX \in SUBSET Weapons /\ bVFX \in BOOLEAN

Next ==
  \/ \E x \in Addresses, w \in Weapons \cup {None}, node \in BOOLEAN :
       \/ MuzzleFlashWrapper(x, w, node) \/ ProjectileWrapper(x, w, node)
       \/ ExplosionWrapper(x, w, node) \/ ImpactWrapper(x, w, node)
  \/ \E x \in Addresses : Delete(x) \/ \E glows \in BOOLEAN : InitializeParticle(x, glows)
  \/ \E w \in Weapons : HeatComesOrGoes(w) \/ SwapAmmo(w)
  \/ ClearOCWeapons \/ SetOCSettings

Spec == Init /\ [][Next]_vars

-----------------------------------------------------------------------------
(* Properties                                                               *)

(* The graph of an impact that shows a weapon's colour is recorded, once,   *)
(* with the material it was loaded with: however often it is reused and     *)
(* whichever weapons, settings and saves come in between, the way back is   *)
(* never lost.                                                              *)
TintIsReversible ==
  /\ \A x \in Addresses : scene[x] = "impact" /\ material[x] # Own => Recorded(x)
  /\ \A i \in Records : activeTempEffects[i].ogMatProp = Own
  /\ \A i, j \in Records : activeTempEffects[i].geom = activeTempEffects[j].geom => i = j

(* The graph of an impact shows what the last hit that was handled in it    *)
(* asked for: the colour of its weapon, or the graph's own if that weapon   *)
(* had no heat or wants no effects, whatever it was used for before.  A hit *)
(* that is passed over (no source, weapon or node, effects off) changes     *)
(* nothing and gives nothing back, so that it may show the colour of        *)
(* another weapon, but never one older than the last hit handled.           *)
ImpactShowsItsWeapon ==
  \A x \in Addresses : scene[x] = "impact" => material[x] = due[x]

(* Particles of an effect that was handled are painted by the weapon its    *)
(* wrapper found (for an explosion the one in its owner's hand) or by none, *)
(* though activeEmitters is full of addresses of graphs that are gone.  An  *)
(* effect that was passed over, by a wrapper that found no weapon or node,  *)
(* with effects off, or for a flash or projectile that wants none, is not   *)
(* covered: what an earlier graph left at the address paints it, even with  *)
(* bVFX off.                                                                *)
PaintedByItsWeapon ==
  \A x \in Addresses : scene[x] # "free" /\ x \notin passed => Paint(x) \in {source[x], None}
=============================================================================
