----------------------------- MODULE ConfigStore ----------------------------
(***************************************************************************)
(* The configurations of weapons: LoadWeaponConfigs, which reads one file  *)
(* per weapon when the game starts, and GetHeatConfig, which looks a       *)
(* weapon and its ammo up ever after.                                      *)
(*                                                                         *)
(* Of a value only its origin matters: the weapon and the section of the   *)
(* file it was read from.  A section is thus the set of the keys it sets.  *)
(***************************************************************************)
EXTENDS Naturals

CONSTANTS
  FORMS,       (* how many form IDs there are (2^32)                           *)
  Weapons,     (* form IDs                                                     *)
  Ammo,        (* form IDs                                                     *)
  Default,     (* the section of that name                                     *)
  Misspelt,    (* a section whose name is no form: GetFormIDByEdID gives 0     *)
  Enabled,     (* the settings that are on, of bStats, bMechanics and bMeshes  *)
  Libraries    (* contents the directory may have                              *)

ASSUME FormAssumption ==
  /\ FORMS \in Nat \ {0}
  /\ Weapons \cup Ammo \subseteq 1 .. FORMS - 1
  /\ Weapons \cap Ammo = {} /\ {Default, Misspelt} \cap Ammo = {}
  /\ Enabled \subseteq {"bStats", "bMechanics", "bMeshes"}

(* One key for each way a value is inherited, with the setting it needs.    *)
Keys == {"fHeatPerShot", "fDamage", "sOverchargeEffects", "OCNode"}

IsRead(k) ==
  CASE k = "fHeatPerShot" -> TRUE
    [] k = "fDamage" -> "bStats" \in Enabled
    [] k = "sOverchargeEffects" -> "bMechanics" \in Enabled
    [] k = "OCNode" -> "bMeshes" \in Enabled

Unset == <<>>

Blank == [k \in Keys |-> Unset]   (* HeatConfiguration{} *)

(* A file: its form is a weapon, it can be read, it has a Default section,  *)
(* the keys of that, and the keys of each other section.                    *)
File == [known : BOOLEAN, readable : BOOLEAN, hasDefault : BOOLEAN, default : SUBSET Keys,
         sections : UNION {[names -> SUBSET Keys] : names \in SUBSET (Ammo \cup {Misspelt})}]

ASSUME LibraryAssumption == Libraries \subseteq [Weapons -> File]

VARIABLES
  files,    (* the directory                                                   *)
  unread,   (* weapons whose file the iterator has not come to                 *)
  open,     (* the weapon whose file is being read, or 0                       *)
  todo,     (* sections of that file that are still to be read                 *)
  base,     (* baseConfig                                                      *)
  hasBase,  (* hasBaseConfig                                                   *)
  store,    (* weaponDataMap                                                   *)
  attached  (* OCExtraModels: how often each node was added to a weapon        *)

vars == <<files, unread, open, todo, base, hasBase, store, attached>>

Value == {Unset} \cup (Weapons \X (Ammo \cup {Default}))

TypeOK ==
  /\ files \in Libraries
  /\ unread \subseteq Weapons
  /\ open \in Weapons \cup {0}
  /\ todo \subseteq Ammo \cup {Misspelt}
  /\ base \in [Keys -> Value]
  /\ hasBase \in BOOLEAN
  /\ \A key \in DOMAIN store : key \in 0 .. FORMS * FORMS - 1 /\ store[key] \in [Keys -> Value]
  /\ attached \in [Weapons -> Nat]

-----------------------------------------------------------------------------

(* Mutant: the shift is missing.                                            *)
MakeHashKeyUnshifted(formID1, formID2) == formID1 + formID2

(* Two form IDs in one number of twice the width.                           *)
MakeHashKey(formID1, formID2) == formID1 * FORMS + formID2

(* A key the section sets, one it inherits, and the ones that are neither:  *)
(* effects are not inherited when the key is missing, nodes are taken from  *)
(* the Default section before the section itself is looked at.              *)
LoadConfigSection(keys, origin, defaults) ==
  [k \in Keys |->
    CASE ~IsRead(k) -> Unset
      [] IsRead(k) /\ k = "OCNode" /\ defaults[k] # Unset -> defaults[k]
      [] IsRead(k) /\ k \in keys /\ ~(k = "OCNode" /\ defaults[k] # Unset) -> origin
      [] IsRead(k) /\ k \notin keys /\ k \notin {"OCNode", "sOverchargeEffects"} -> defaults[k]
      [] OTHER -> Unset]

(* Mutant: nodes are attached even when the Default section had them.       *)
AttachesAlways(keys, defaults) == IsRead("OCNode") /\ "OCNode" \in keys

(* The nodes of the section are added to the models of the weapon.          *)
Attaches(keys, defaults) ==
  IsRead("OCNode") /\ "OCNode" \in keys /\ defaults["OCNode"] = Unset

TryEmplace(key, config) ==
  store' = IF key \in DOMAIN store THEN store
           ELSE [k \in DOMAIN store \cup {key} |-> IF k = key THEN config ELSE store[k]]

Attach(weap, keys, defaults) ==
  attached' = [attached EXCEPT ![weap] = IF Attaches(keys, defaults) THEN @ + 1 ELSE @]

(* Mutant: the base of the file before stays.                               *)
OpenFileKeepsBase(weap) ==
  /\ open = 0 /\ weap \in unread
  /\ files[weap].known /\ files[weap].readable
  /\ unread' = unread \ {weap} /\ open' = weap
  /\ todo' = DOMAIN files[weap].sections
  /\ hasBase' = (hasBase \/ files[weap].hasDefault)
  /\ LET config == LoadConfigSection(files[weap].default, <<weap, Default>>, Blank)
     IN  IF files[weap].hasDefault
         THEN /\ base' = config /\ TryEmplace(MakeHashKey(weap, 0), config)
              /\ Attach(weap, files[weap].default, Blank)
         ELSE UNCHANGED <<base, store, attached>>
  /\ UNCHANGED files

(* A file is opened and its Default section, if it has one, stored under    *)
(* the weapon and ammo 0.                                                   *)
OpenFile(weap) ==
  LET file   == files[weap]
      config == LoadConfigSection(file.default, <<weap, Default>>, Blank)
  IN  /\ open = 0 /\ weap \in unread
      /\ file.known /\ file.readable
      /\ unread' = unread \ {weap}
      /\ open' = weap
      /\ todo' = DOMAIN file.sections
      /\ hasBase' = file.hasDefault
      /\ IF file.hasDefault
         THEN /\ base' = config
              /\ TryEmplace(MakeHashKey(weap, 0), config)
              /\ Attach(weap, file.default, Blank)
         ELSE base' = Blank /\ UNCHANGED <<store, attached>>
      /\ UNCHANGED files

(* The form of the file is unknown, or the file cannot be read.             *)
SkipFile(weap) ==
  /\ open = 0 /\ weap \in unread
  /\ ~(files[weap].known /\ files[weap].readable)
  /\ unread' = unread \ {weap}
  /\ UNCHANGED <<files, open, todo, base, hasBase, store, attached>>

(* Mutant: a name that is no form is taken for form 0.                      *)
LoadSectionUnresolved(ammo) ==
  LET defaults == IF hasBase THEN base ELSE Blank
      config   == LoadConfigSection(files[open].sections[ammo], <<open, ammo>>, defaults)
  IN  /\ ammo \in todo
      /\ todo' = todo \ {ammo}
      /\ Attach(open, files[open].sections[ammo], defaults)
      /\ TryEmplace(MakeHashKey(open, IF ammo = Misspelt THEN 0 ELSE ammo), config)
      /\ UNCHANGED <<files, unread, open, base, hasBase>>

(* A section is parsed, with all that this attaches, before its name is     *)
(* looked up.                                                               *)
LoadSection(ammo) ==
  LET keys     == files[open].sections[ammo]
      defaults == IF hasBase THEN base ELSE Blank
  IN  /\ ammo \in todo
      /\ todo' = todo \ {ammo}
      /\ Attach(open, keys, defaults)
      /\ IF ammo = Misspelt THEN UNCHANGED store
         ELSE TryEmplace(MakeHashKey(open, ammo), LoadConfigSection(keys, <<open, ammo>>, defaults))
      /\ UNCHANGED <<files, unread, open, base, hasBase>>

CloseFile ==
  /\ open # 0 /\ todo = {}
  /\ open' = 0
  /\ UNCHANGED <<files, unread, todo, base, hasBase, store, attached>>

Init ==
  /\ files \in Libraries
  /\ unread = Weapons
  /\ open = 0
  /\ todo = {}
  /\ base = Blank
  /\ hasBase = FALSE
  /\ store = [key \in {} |-> Blank]
  /\ attached = [w \in Weapons |-> 0]

Next ==
  \/ \E weap \in Weapons : OpenFile(weap) \/ SkipFile(weap)
  \/ \E ammo \in Ammo \cup {Misspelt} : LoadSection(ammo)
  \/ CloseFile

Spec == Init /\ [][Next]_vars

-----------------------------------------------------------------------------
(* GetHeatConfig, with NoConfig for a null pointer.                         *)

NoConfig == <<>>

GetHeatConfig(weaponID, ammoID) ==
  CASE MakeHashKey(weaponID, ammoID) \in DOMAIN store -> store[MakeHashKey(weaponID, ammoID)]
    [] MakeHashKey(weaponID, ammoID) \notin DOMAIN store /\ weaponID \in DOMAIN store ->
         store[weaponID]
    [] OTHER -> NoConfig

Loaded(weap) == weap \notin unread /\ weap # open /\ files[weap].known /\ files[weap].readable

(* Whatever the order of the directory and of the sections, and whatever    *)
(* else was loaded or failed to, a section is found for its weapon and ammo *)
(* and every value in it comes from that section or from the Default of     *)
(* the same file.                                                           *)
SectionsAreFound ==
  \A weap \in Weapons, ammo \in Ammo :
    Loaded(weap) /\ ammo \in DOMAIN files[weap].sections =>
      /\ GetHeatConfig(weap, ammo) # NoConfig
      /\ \A k \in Keys :
           LET value == GetHeatConfig(weap, ammo)[k]
           IN  /\ value \in {Unset, <<weap, ammo>>, <<weap, Default>>}
               /\ value = <<weap, ammo>> => k \in files[weap].sections[ammo]
               /\ value = <<weap, Default>> => files[weap].hasDefault /\ k \in files[weap].default

(* No weapon is given the configuration of another.                         *)
NoCrossTalk ==
  \A weap \in Weapons, ammo \in Ammo :
    LET config == GetHeatConfig(weap, ammo)
    IN  config # NoConfig => \A k \in Keys : config[k] # Unset => config[k][1] = weap

(* The nodes of a Default section are attached to the weapon once, however  *)
(* many sections inherit or repeat them.                                    *)
DefaultNodesOnce ==
  \A weap \in Weapons :
    Loaded(weap) /\ files[weap].hasDefault /\ "OCNode" \in files[weap].default /\ IsRead("OCNode")
      => attached[weap] = 1

(* A weapon with a Default section has a configuration with any ammo.       *)
DefaultApplies ==
  \A weap \in Weapons, ammo \in Ammo :
    Loaded(weap) /\ files[weap].hasDefault => GetHeatConfig(weap, ammo) # NoConfig
=============================================================================
