-------------------------- MODULE ConfigStoreProofs --------------------------
(***************************************************************************)
(* No weapon gets the configuration of another: the keys of weaponDataMap  *)
(* are unambiguous, and every value under a key comes from the file of the *)
(* weapon in the key.  Nothing is lost: what was read stays under its key, *)
(* and the defaults of a file are used until the file is closed.           *)
(***************************************************************************)
EXTENDS ConfigStore, Sequences, TLAPS

USE FormAssumption, LibraryAssumption

Forms == 0 .. FORMS - 1

LEMMA NatTimes == \A x, y \in Nat : x * y \in Nat
  OBVIOUS

(* The first form of a key with a smaller first form is out of reach of     *)
(* whatever the second form adds.                                           *)
LEMMA KeysAreOrdered ==
  ASSUME NEW a \in Forms, NEW b \in Forms, NEW c \in Forms, NEW d \in Forms, a < c
  PROVE  MakeHashKey(a, b) < MakeHashKey(c, d)
  <1>1. a \in Nat /\ c \in Nat /\ c - a - 1 \in Nat
    BY DEF Forms
  <1>2. (c - a - 1) * FORMS \in Nat
    BY <1>1, NatTimes
  <1>3. c * FORMS = a * FORMS + FORMS + (c - a - 1) * FORMS
    BY <1>1
  <1>4. a * FORMS \in Nat /\ c * FORMS \in Nat
    BY <1>1, NatTimes
  <1>5. QED
    BY <1>2, <1>3, <1>4 DEF MakeHashKey, Forms

(* MakeHashKey tells every two pairs of form IDs apart.                     *)
THEOREM KeysAreUnique ==
  ASSUME NEW a \in Forms, NEW b \in Forms, NEW c \in Forms, NEW d \in Forms,
         MakeHashKey(a, b) = MakeHashKey(c, d)
  PROVE  a = c /\ b = d
  <1>1. MakeHashKey(a, b) \in Nat /\ MakeHashKey(c, d) \in Nat
    BY NatTimes DEF MakeHashKey, Forms
  <1>2. ~(a < c) /\ ~(c < a)
    BY <1>1, KeysAreOrdered
  <1>3. a = c
    BY <1>2 DEF Forms
  <1>4. a * FORMS \in Nat
    BY NatTimes DEF Forms
  <1>5. QED
    BY <1>3, <1>4 DEF MakeHashKey, Forms

-----------------------------------------------------------------------------

(* Every value that is set comes from the file of weapon w.                 *)
OfWeapon(config, w) == \A k \in Keys : config[k] # Unset => config[k][1] = w

StoreOwned ==
  \A key \in DOMAIN store : \E w \in Weapons, a \in Ammo \cup {0} :
    key = MakeHashKey(w, a) /\ OfWeapon(store[key], w)

BaseOwned == open # 0 => open \in Weapons /\ OfWeapon(base, open)

Owned == StoreOwned /\ BaseOwned /\ (todo # {} => open # 0)

LEMMA IDsAreForms == Weapons \subseteq Forms /\ Ammo \cup {0} \subseteq Forms /\ 0 \notin Weapons
  BY DEF Forms

LEMMA BlankIsOwned == \A w : OfWeapon(Blank, w)
  BY DEF OfWeapon, Blank

(* What a section does not set itself it has from its defaults.             *)
LEMMA SectionIsOwned ==
  ASSUME NEW keys, NEW w, NEW section, NEW defaults, OfWeapon(defaults, w)
  PROVE  OfWeapon(LoadConfigSection(keys, <<w, section>>, defaults), w)
  <1> DEFINE config == LoadConfigSection(keys, <<w, section>>, defaults)
  <1>1. \A k \in Keys : config[k] \in {Unset, <<w, section>>, defaults[k]}
    BY DEF LoadConfigSection
  <1>2. <<w, section>>[1] = w
    OBVIOUS
  <1> HIDE DEF config
  <1>3. OfWeapon(config, w)
    BY <1>1, <1>2 DEF OfWeapon
  <1>4. QED
    BY <1>3 DEF config

LEMMA EmplacedIsOwned ==
  ASSUME StoreOwned, NEW w \in Weapons, NEW a \in Ammo \cup {0}, NEW config, OfWeapon(config, w),
         TryEmplace(MakeHashKey(w, a), config)
  PROVE  StoreOwned'
  <1> DEFINE new == MakeHashKey(w, a)
  <1>1. CASE new \in DOMAIN store
    BY <1>1 DEF TryEmplace, StoreOwned, OfWeapon
  <1>2. CASE new \notin DOMAIN store
    <2>1. store' = [k \in DOMAIN store \cup {new} |-> IF k = new THEN config ELSE store[k]]
      BY <1>2 DEF TryEmplace
    <2> SUFFICES ASSUME NEW key \in DOMAIN store'
                 PROVE  \E v \in Weapons, b \in Ammo \cup {0} :
                          key = MakeHashKey(v, b) /\ OfWeapon(store'[key], v)
      BY DEF StoreOwned, OfWeapon
    <2>2. CASE key = new
      BY <2>1, <2>2
    <2>3. CASE key # new
      <3>1. key \in DOMAIN store /\ store'[key] = store[key]
        BY <2>1, <2>3
      <3>2. QED
        BY <3>1 DEF StoreOwned
    <2>4. QED
      BY <2>2, <2>3
  <1>3. QED
    BY <1>1, <1>2

LEMMA OwnedInductive == Owned /\ [Next]_vars => Owned'
  <1> SUFFICES ASSUME Owned, [Next]_vars PROVE Owned'
    OBVIOUS
  <1>1. ASSUME NEW weap \in Weapons, OpenFile(weap) PROVE Owned'
    <2> DEFINE config == LoadConfigSection(files[weap].default, <<weap, Default>>, Blank)
    <2>1. OfWeapon(config, weap)
      BY BlankIsOwned, SectionIsOwned
    <2> HIDE DEF config
    <2>2. open' = weap /\ weap # 0
      BY <1>1, IDsAreForms DEF OpenFile
    <2>3. CASE files[weap].hasDefault
      <3>1. base' = config /\ TryEmplace(MakeHashKey(weap, 0), config)
        BY <1>1, <2>3 DEF OpenFile, config
      <3>2. StoreOwned'
        BY <3>1, <2>1, EmplacedIsOwned DEF Owned
      <3>3. QED
        BY <2>1, <2>2, <3>1, <3>2 DEF Owned, BaseOwned, OfWeapon
    <2>4. CASE ~files[weap].hasDefault
      <3>1. base' = Blank /\ store' = store
        BY <1>1, <2>4 DEF OpenFile
      <3>2. StoreOwned'
        BY <3>1 DEF Owned, StoreOwned, OfWeapon
      <3>3. QED
        BY <2>2, <3>1, <3>2, BlankIsOwned DEF Owned, BaseOwned, OfWeapon
    <2>5. QED
      BY <2>3, <2>4
  <1>2. ASSUME NEW weap \in Weapons, SkipFile(weap) PROVE Owned'
    BY <1>2 DEF SkipFile, Owned, StoreOwned, BaseOwned, OfWeapon
  <1>3. ASSUME NEW ammo \in Ammo \cup {Misspelt}, LoadSection(ammo) PROVE Owned'
    <2> DEFINE keys == files[open].sections[ammo]
               defaults == IF hasBase THEN base ELSE Blank
               config == LoadConfigSection(keys, <<open, ammo>>, defaults)
    <2>1. open \in Weapons /\ open # 0
      BY <1>3 DEF LoadSection, Owned, BaseOwned
    <2>2. OfWeapon(defaults, open)
      BY <2>1, BlankIsOwned DEF Owned, BaseOwned
    <2>3. OfWeapon(config, open)
      BY <2>2, SectionIsOwned
    <2>4. open' = open /\ base' = base
      BY <1>3 DEF LoadSection
    <2> HIDE DEF config
    <2>5. StoreOwned'
      <3>1. CASE ammo = Misspelt
        BY <1>3, <3>1 DEF LoadSection, Owned, StoreOwned, OfWeapon
      <3>2. CASE ammo # Misspelt
        <4>1. TryEmplace(MakeHashKey(open, ammo), config) /\ ammo \in Ammo
          BY <1>3, <3>2 DEF LoadSection, config
        <4>2. QED
          BY <2>1, <2>3, <4>1, EmplacedIsOwned DEF Owned
      <3>3. QED
        BY <3>1, <3>2
    <2>6. QED
      BY <2>1, <2>4, <2>5 DEF Owned, BaseOwned, OfWeapon
  <1>4. CASE CloseFile
    BY <1>4 DEF CloseFile, Owned, StoreOwned, BaseOwned, OfWeapon
  <1>5. CASE UNCHANGED vars
    BY <1>5 DEF vars, Owned, StoreOwned, BaseOwned, OfWeapon
  <1>6. QED
    BY <1>1, <1>2, <1>3, <1>4, <1>5 DEF Next

(* A weapon's own ID is below every key, so that the second lookup of       *)
(* GetHeatConfig finds nothing.                                             *)
LEMMA NoShortKeys ==
  ASSUME Owned, NEW weap \in Weapons
  PROVE  weap \notin DOMAIN store
  <1> SUFFICES ASSUME weap \in DOMAIN store PROVE FALSE
    OBVIOUS
  <1>1. PICK w \in Weapons, a \in Ammo \cup {0} : weap = MakeHashKey(w, a)
    BY DEF Owned, StoreOwned
  <1>2. MakeHashKey(0, weap) = MakeHashKey(w, a)
    BY <1>1, IDsAreForms DEF MakeHashKey, Forms
  <1>3. 0 \in Forms /\ weap \in Forms /\ w \in Forms /\ a \in Forms
    BY IDsAreForms
  <1>4. 0 = w
    BY <1>2, <1>3, KeysAreUnique
  <1>5. QED
    BY <1>4, IDsAreForms

(* The first lookup finds what the weapon's file put there.                 *)
LEMMA OwnedSuffices == Owned => NoCrossTalk
  <1> SUFFICES ASSUME Owned, NEW weap \in Weapons, NEW ammo \in Ammo,
                      GetHeatConfig(weap, ammo) # NoConfig
               PROVE  OfWeapon(GetHeatConfig(weap, ammo), weap)
    BY DEF NoCrossTalk, OfWeapon
  <1> DEFINE key == MakeHashKey(weap, ammo)
  <1>1. weap \notin DOMAIN store
    BY NoShortKeys
  <1>2. key \in DOMAIN store /\ GetHeatConfig(weap, ammo) = store[key]
    BY <1>1 DEF GetHeatConfig
  <1>3. PICK w \in Weapons, a \in Ammo \cup {0} : key = MakeHashKey(w, a) /\ OfWeapon(store[key], w)
    BY <1>2 DEF Owned, StoreOwned
  <1>4. w = weap
    BY <1>3, IDsAreForms, KeysAreUnique
  <1>5. QED
    BY <1>2, <1>3, <1>4

(* Whatever files are read, in whatever order, no weapon is ever given a    *)
(* value that was read from the file of another.                            *)
THEOREM ConfigsStayApart == Spec => []NoCrossTalk
  <1>1. Init => Owned
    BY DEF Init, Owned, StoreOwned, BaseOwned
  <1>2. QED
    BY <1>1, OwnedInductive, OwnedSuffices, PTL DEF Spec

-----------------------------------------------------------------------------
(* Types: a key is a number of twice the width of a form ID, and a          *)
(* configuration gives every key of a section a value.                      *)

Configuration == [Keys -> Value]

LEMMA KeyInRange ==
  ASSUME NEW a \in Forms, NEW b \in Forms
  PROVE  MakeHashKey(a, b) \in 0 .. FORMS * FORMS - 1
  <1>1. a \in Nat /\ b \in Nat /\ FORMS \in Nat /\ FORMS - 1 - a \in Nat /\ b <= FORMS - 1
    BY DEF Forms
  <1>2. (FORMS - 1 - a) * FORMS \in Nat /\ a * FORMS \in Nat /\ FORMS * FORMS \in Nat
    BY <1>1, NatTimes
  <1>3. FORMS * FORMS = a * FORMS + FORMS + (FORMS - 1 - a) * FORMS
    BY <1>1
  <1>4. QED
    BY <1>1, <1>2, <1>3 DEF MakeHashKey

LEMMA BlankType == Blank \in Configuration
  BY DEF Blank, Configuration, Value

(* A section leaves nothing in a configuration but its own name, what its   *)
(* defaults have, and gaps.                                                 *)
LEMMA SectionValues ==
  ASSUME NEW keys, NEW origin, NEW defaults
  PROVE  LET config == LoadConfigSection(keys, origin, defaults)
         IN  /\ config = [k \in Keys |-> config[k]]
             /\ \A k \in Keys :
                  \/ config[k] = Unset
                  \/ config[k] = origin /\ k \in keys
                  \/ config[k] = defaults[k]
  BY DEF LoadConfigSection

LEMMA SectionType ==
  ASSUME NEW keys, NEW origin \in Value, NEW defaults \in Configuration
  PROVE  LoadConfigSection(keys, origin, defaults) \in Configuration
  <1> DEFINE config == LoadConfigSection(keys, origin, defaults)
  <1>1. config = [k \in Keys |-> config[k]] /\ \A k \in Keys : config[k] \in Value
    BY SectionValues DEF Value, Configuration
  <1> HIDE DEF config
  <1>2. config \in Configuration
    BY <1>1 DEF Configuration
  <1>3. QED
    BY <1>2 DEF config

LEMMA OriginType ==
  \A w \in Weapons, a \in Ammo : <<w, a>> \in Value /\ <<w, Default>> \in Value
  BY DEF Value

LEMMA FileType ==
  ASSUME TypeOK, NEW w \in Weapons
  PROVE  /\ files[w].known \in BOOLEAN /\ files[w].readable \in BOOLEAN
         /\ files[w].hasDefault \in BOOLEAN
         /\ DOMAIN files[w].sections \subseteq Ammo \cup {Misspelt}
  <1>1. files[w] \in File
    BY DEF TypeOK
  <1>2. QED
    BY <1>1 DEF File

LEMMA EmplacedType ==
  ASSUME TypeOK, NEW w \in Weapons, NEW a \in Ammo \cup {0}, NEW config \in Configuration,
         TryEmplace(MakeHashKey(w, a), config)
  PROVE  \A key \in DOMAIN store' :
           key \in 0 .. FORMS * FORMS - 1 /\ store'[key] \in Configuration
  <1> DEFINE new == MakeHashKey(w, a)
  <1>1. new \in 0 .. FORMS * FORMS - 1
    BY IDsAreForms, KeyInRange
  <1>2. \A key \in DOMAIN store :
          key \in 0 .. FORMS * FORMS - 1 /\ store[key] \in Configuration
    BY DEF TypeOK, Configuration
  <1> HIDE DEF new
  <1>3. store' = IF new \in DOMAIN store THEN store
                 ELSE [k \in DOMAIN store \cup {new} |-> IF k = new THEN config ELSE store[k]]
    BY DEF TryEmplace, new
  <1>4. QED
    BY <1>1, <1>2, <1>3

LEMMA AttachedType ==
  ASSUME TypeOK, NEW w \in Weapons, NEW keys, NEW defaults, Attach(w, keys, defaults)
  PROVE  attached' \in [Weapons -> Nat]
  BY DEF Attach, TypeOK

(* A section may only be read while a file is open.                         *)
Reading == todo # {} => open # 0

LEMMA TypeStep ==
  ASSUME TypeOK, Reading, [Next]_vars
  PROVE  TypeOK' /\ Reading'
  <1> USE DEF Configuration
  <1>1. ASSUME NEW weap \in Weapons, OpenFile(weap) PROVE TypeOK' /\ Reading'
    <2> DEFINE config == LoadConfigSection(files[weap].default, <<weap, Default>>, Blank)
    <2>1. config \in Configuration
      BY SectionType, BlankType, OriginType DEF Value
    <2> HIDE DEF config
    <2>2. /\ files' = files /\ unread' \subseteq Weapons /\ open' \in Weapons /\ open' # 0
          /\ todo' \subseteq Ammo \cup {Misspelt} /\ hasBase' \in BOOLEAN
      BY <1>1, FileType, IDsAreForms DEF OpenFile, TypeOK
    <2>3. CASE files[weap].hasDefault
      <3>1. base' = config /\ TryEmplace(MakeHashKey(weap, 0), config)
            /\ Attach(weap, files[weap].default, Blank)
        BY <1>1, <2>3 DEF OpenFile, config
      <3> QED BY <2>1, <2>2, <3>1, EmplacedType, AttachedType DEF TypeOK, Reading
    <2>4. CASE ~files[weap].hasDefault
      <3>1. base' = Blank /\ store' = store /\ attached' = attached
        BY <1>1, <2>4 DEF OpenFile
      <3> QED BY <2>2, <3>1, BlankType DEF TypeOK, Reading
    <2>5. QED
      BY <2>3, <2>4
  <1>2. ASSUME NEW weap \in Weapons, SkipFile(weap) PROVE TypeOK' /\ Reading'
    BY <1>2 DEF SkipFile, TypeOK, Reading
  <1>3. ASSUME NEW ammo \in Ammo \cup {Misspelt}, LoadSection(ammo) PROVE TypeOK' /\ Reading'
    <2> DEFINE keys == files[open].sections[ammo]
               defaults == IF hasBase THEN base ELSE Blank
               config == LoadConfigSection(keys, <<open, ammo>>, defaults)
    <2>1. open \in Weapons
      BY <1>3 DEF LoadSection, Reading, TypeOK
    <2>2. attached' \in [Weapons -> Nat]
      BY <1>3, <2>1, AttachedType DEF LoadSection
    <2>3. \A key \in DOMAIN store' :
            key \in 0 .. FORMS * FORMS - 1 /\ store'[key] \in Configuration
      <3>1. CASE ammo = Misspelt
        BY <1>3, <3>1 DEF LoadSection, TypeOK
      <3>2. CASE ammo # Misspelt
        <4>1. ammo \in Ammo /\ defaults \in Configuration
          BY <3>2, BlankType DEF TypeOK
        <4>2. config \in Configuration
          BY <2>1, <4>1, SectionType, OriginType
        <4>3. TryEmplace(MakeHashKey(open, ammo), config)
          BY <1>3, <3>2 DEF LoadSection
        <4> HIDE DEF config
        <4> QED BY <2>1, <4>1, <4>2, <4>3, EmplacedType
      <3> QED BY <3>1, <3>2
    <2>4. /\ files' = files /\ unread' = unread /\ open' = open /\ base' = base
          /\ hasBase' = hasBase /\ todo' \subseteq todo
      BY <1>3 DEF LoadSection
    <2> HIDE DEF config
    <2> QED BY <2>1, <2>2, <2>3, <2>4, IDsAreForms DEF TypeOK, Reading
  <1>4. CASE CloseFile
    BY <1>4 DEF CloseFile, TypeOK, Reading
  <1>5. CASE UNCHANGED vars
    BY <1>5 DEF vars, TypeOK, Reading
  <1>6. QED
    BY <1>1, <1>2, <1>3, <1>4, <1>5 DEF Next

LEMMA InitTyped == Init => TypeOK /\ Reading
  <1> SUFFICES ASSUME Init PROVE TypeOK /\ Reading
    OBVIOUS
  <1>1. DOMAIN store = {} /\ attached \in [Weapons -> Nat] /\ base \in [Keys -> Value]
    BY BlankType DEF Init, Configuration
  <1> QED BY <1>1 DEF Init, TypeOK, Reading

(* Every key of the store fits in twice the width of a form ID, and under   *)
(* it is a configuration whose values name where they were read.            *)
THEOREM StoreTyped == Spec => []TypeOK
  BY InitTyped, TypeStep, PTL DEF Spec

-----------------------------------------------------------------------------
(* What a section left in the store, and what is attached, while the files  *)
(* are read.                                                                *)

Good(w) == files[w].known /\ files[w].readable

DefaultOf(w) == LoadConfigSection(files[w].default, <<w, Default>>, Blank)

(* The file being read: its base is its own Default section.                *)
BaseIsDefault ==
  open # 0 =>
    /\ open \notin unread /\ Good(open)
    /\ todo \subseteq DOMAIN files[open].sections
    /\ hasBase = files[open].hasDefault
    /\ base = IF hasBase THEN DefaultOf(open) ELSE Blank

(* A value under the key of a weapon and an ammo was set by that section,   *)
(* which exists, or by the Default section of the same file.                *)
Faithful(config, w, a) ==
  a \in DOMAIN files[w].sections /\ \A k \in Keys :
    /\ config[k] \in {Unset, <<w, a>>, <<w, Default>>}
    /\ config[k] = <<w, a>> => k \in files[w].sections[a]
    /\ config[k] = <<w, Default>> => files[w].hasDefault /\ k \in files[w].default

StoreFaithful ==
  \A w \in Weapons, a \in Ammo :
    MakeHashKey(w, a) \in DOMAIN store => Faithful(store[MakeHashKey(w, a)], w, a)

(* A section that was read is in the store.                                 *)
StoreComplete ==
  \A w \in Weapons, a \in Ammo :
    /\ w \notin unread /\ Good(w) /\ a \in DOMAIN files[w].sections
    /\ ~(w = open /\ a \in todo)
    => MakeHashKey(w, a) \in DOMAIN store

Found == StoreFaithful /\ StoreComplete

(* The nodes of a Default section are attached when its file is opened.     *)
GivesNodes(w) == files[w].hasDefault /\ "OCNode" \in files[w].default /\ IsRead("OCNode")

NodesAttached ==
  \A w \in Weapons :
    /\ w \in unread => attached[w] = 0
    /\ w \notin unread /\ Good(w) /\ GivesNodes(w) => attached[w] = 1

LEMMA OriginsDiffer ==
  \A w, a : <<w, a>> # Unset /\ (a \in Ammo => <<w, a>> # <<w, Default>>)
  <1>1. \A w, a : Len(<<w, a>>) = 2 /\ <<w, a>>[2] = a
    OBVIOUS
  <1>2. Len(Unset) = 0
    BY DEF Unset
  <1>3. QED
    BY <1>1, <1>2

(* The values of a Default section are its own, for the keys it sets.       *)
LEMMA DefaultValues ==
  ASSUME NEW w, NEW k \in Keys
  PROVE  /\ DefaultOf(w)[k] \in {Unset, <<w, Default>>}
         /\ DefaultOf(w)[k] = <<w, Default>> => k \in files[w].default
         /\ GivesNodes(w) => DefaultOf(w)["OCNode"] # Unset
  <1>1. \A j : Blank[j] = Unset \/ j \notin Keys
    BY DEF Blank
  <1>2. \/ DefaultOf(w)[k] = Unset
        \/ DefaultOf(w)[k] = <<w, Default>> /\ k \in files[w].default
    BY <1>1, SectionValues DEF DefaultOf
  <1>3. "OCNode" \in Keys
    BY DEF Keys
  <1>4. GivesNodes(w) => DefaultOf(w)["OCNode"] = <<w, Default>>
    BY <1>1, <1>3 DEF DefaultOf, GivesNodes, LoadConfigSection
  <1>5. QED
    BY <1>2, <1>4, OriginsDiffer

(* Storing under one key leaves every other key as it was.                  *)
LEMMA EmplacedElsewhere ==
  ASSUME NEW new, NEW config, TryEmplace(new, config), NEW key, key # new
  PROVE  /\ key \in DOMAIN store' <=> key \in DOMAIN store
         /\ key \in DOMAIN store => store'[key] = store[key]
  <1>1. CASE new \in DOMAIN store
    BY <1>1 DEF TryEmplace
  <1>2. CASE new \notin DOMAIN store
    BY <1>2 DEF TryEmplace
  <1>3. QED
    BY <1>1, <1>2

LEMMA EmplacedHere ==
  ASSUME NEW new, NEW config, TryEmplace(new, config)
  PROVE  /\ new \in DOMAIN store'
         /\ new \in DOMAIN store => store'[new] = store[new]
         /\ new \notin DOMAIN store => store'[new] = config
  <1>1. CASE new \in DOMAIN store
    BY <1>1 DEF TryEmplace
  <1>2. CASE new \notin DOMAIN store
    BY <1>2 DEF TryEmplace
  <1>3. QED
    BY <1>1, <1>2

LEMMA KeysDiffer ==
  \A w, v \in Weapons, a, b \in Ammo \cup {0} :
    MakeHashKey(w, a) = MakeHashKey(v, b) => w = v /\ a = b
  BY IDsAreForms, KeysAreUnique

BaseInv == TypeOK /\ Reading /\ BaseIsDefault

LEMMA BaseStep ==
  ASSUME BaseInv, [Next]_vars
  PROVE  BaseIsDefault'
  <1>1. ASSUME NEW weap \in Weapons, OpenFile(weap) PROVE BaseIsDefault'
    <2>1. /\ files' = files /\ open' = weap /\ unread' = unread \ {weap}
          /\ todo' = DOMAIN files[weap].sections /\ hasBase' = files[weap].hasDefault
          /\ base' = IF files[weap].hasDefault THEN DefaultOf(weap) ELSE Blank
          /\ Good(weap)
      BY <1>1 DEF OpenFile, DefaultOf, Good
    <2> QED BY <2>1 DEF BaseIsDefault, DefaultOf, Good
  <1>2. ASSUME NEW weap \in Weapons, SkipFile(weap) PROVE BaseIsDefault'
    BY <1>2 DEF SkipFile, BaseIsDefault, DefaultOf, Good
  <1>3. ASSUME NEW ammo \in Ammo \cup {Misspelt}, LoadSection(ammo) PROVE BaseIsDefault'
    <2>1. /\ files' = files /\ unread' = unread /\ open' = open /\ base' = base
          /\ hasBase' = hasBase /\ todo' \subseteq todo
      BY <1>3 DEF LoadSection
    <2> QED BY <2>1 DEF BaseInv, BaseIsDefault, DefaultOf, Good
  <1>4. CASE CloseFile
    BY <1>4 DEF CloseFile, BaseIsDefault
  <1>5. CASE UNCHANGED vars
    BY <1>5 DEF BaseInv, vars, BaseIsDefault, DefaultOf, Good
  <1>6. QED
    BY <1>1, <1>2, <1>3, <1>4, <1>5 DEF Next, BaseInv

(* The section that is being read, with its base, yields a faithful         *)
(* configuration.                                                           *)
LEMMA SectionIsFaithful ==
  ASSUME BaseInv, NEW a \in Ammo, a \in todo
  PROVE  Faithful(LoadConfigSection(files[open].sections[a], <<open, a>>,
                                    IF hasBase THEN base ELSE Blank), open, a)
  <1> DEFINE keys == files[open].sections[a]
             defaults == IF hasBase THEN base ELSE Blank
             config == LoadConfigSection(keys, <<open, a>>, defaults)
  <1>0. a \in DOMAIN files[open].sections
    BY DEF BaseInv, Reading, BaseIsDefault
  <1> SUFFICES ASSUME NEW k \in Keys
               PROVE  /\ config[k] \in {Unset, <<open, a>>, <<open, Default>>}
                      /\ config[k] = <<open, a>> => k \in keys
                      /\ config[k] = <<open, Default>> =>
                           files[open].hasDefault /\ k \in files[open].default
    BY <1>0 DEF Faithful
  <1>1. open # 0 /\ hasBase = files[open].hasDefault /\ defaults = IF hasBase THEN DefaultOf(open) ELSE Blank
    BY DEF BaseInv, Reading, BaseIsDefault
  <1>2. \/ config[k] = Unset
        \/ config[k] = <<open, a>> /\ k \in keys
        \/ config[k] = defaults[k]
    BY SectionValues
  <1>3. \/ defaults[k] = Unset
        \/ defaults[k] = <<open, Default>> /\ hasBase /\ k \in files[open].default
    BY <1>1, DefaultValues DEF Blank
  <1> HIDE DEF config, defaults, keys
  <1>4. QED
    BY <1>1, <1>2, <1>3, OriginsDiffer

(* A section is stored under its own key, and an entry that is already      *)
(* there, which try_emplace leaves alone, is as faithful.                   *)
LEMMA FoundStep ==
  ASSUME BaseInv, Found, [Next]_vars
  PROVE  Found'
  <1>1. ASSUME NEW weap \in Weapons, OpenFile(weap) PROVE Found'
    <2> DEFINE config == DefaultOf(weap)
    <2>1. /\ files' = files /\ open' = weap /\ unread' = unread \ {weap} /\ open = 0
          /\ todo' = DOMAIN files[weap].sections /\ weap \in unread
          /\ store' = store \/ TryEmplace(MakeHashKey(weap, 0), config)
      BY <1>1 DEF OpenFile, DefaultOf
    <2> HIDE DEF config
    <2>2. ASSUME NEW w \in Weapons, NEW a \in Ammo
          PROVE  /\ MakeHashKey(w, a) \in DOMAIN store' <=> MakeHashKey(w, a) \in DOMAIN store
                 /\ MakeHashKey(w, a) \in DOMAIN store =>
                      store'[MakeHashKey(w, a)] = store[MakeHashKey(w, a)]
      <3>1. MakeHashKey(w, a) # MakeHashKey(weap, 0)
        BY KeysDiffer, IDsAreForms, FormAssumption
      <3> QED BY <2>1, <3>1, EmplacedElsewhere
    <2>3. StoreFaithful'
      BY <2>1, <2>2 DEF Found, StoreFaithful, Faithful, MakeHashKey
    <2>4. StoreComplete'
      BY <2>1, <2>2, IDsAreForms DEF Found, StoreComplete, MakeHashKey, Good
    <2>5. QED
      BY <2>3, <2>4 DEF Found
  <1>2. ASSUME NEW weap \in Weapons, SkipFile(weap) PROVE Found'
    <2>1. /\ files' = files /\ open' = open /\ unread' = unread \ {weap} /\ todo' = todo
          /\ store' = store /\ ~Good(weap)
      BY <1>2 DEF SkipFile, Good
    <2> QED BY <2>1 DEF Found, StoreFaithful, StoreComplete, Faithful, MakeHashKey, Good
  <1>3. ASSUME NEW ammo \in Ammo \cup {Misspelt}, LoadSection(ammo) PROVE Found'
    <2> DEFINE defaults == IF hasBase THEN base ELSE Blank
               config == LoadConfigSection(files[open].sections[ammo], <<open, ammo>>, defaults)
    <2>1. /\ files' = files /\ unread' = unread /\ open' = open /\ todo' = todo \ {ammo}
          /\ ammo \in todo /\ open \in Weapons
      BY <1>3 DEF LoadSection, BaseInv, Reading, TypeOK
    <2>2. CASE ammo = Misspelt
      <3>1. store' = store /\ ammo \notin Ammo
        BY <1>3, <2>2 DEF LoadSection
      <3> QED BY <2>1, <3>1 DEF Found, StoreFaithful, StoreComplete, Faithful, MakeHashKey, Good
    <2>3. CASE ammo # Misspelt
      <3>1. ammo \in Ammo /\ TryEmplace(MakeHashKey(open, ammo), config)
        BY <1>3, <2>3 DEF LoadSection
      <3>2. Faithful(config, open, ammo)
        BY <2>1, <3>1, SectionIsFaithful
      <3> HIDE DEF config
      <3>3. ASSUME NEW w \in Weapons, NEW a \in Ammo, w # open \/ a # ammo
            PROVE  /\ MakeHashKey(w, a) \in DOMAIN store' <=> MakeHashKey(w, a) \in DOMAIN store
                   /\ MakeHashKey(w, a) \in DOMAIN store =>
                        store'[MakeHashKey(w, a)] = store[MakeHashKey(w, a)]
        <4>1. MakeHashKey(w, a) # MakeHashKey(open, ammo)
          BY <2>1, <3>1, <3>3, KeysDiffer
        <4> QED BY <3>1, <4>1, EmplacedElsewhere
      <3>4. /\ MakeHashKey(open, ammo) \in DOMAIN store'
            /\ Faithful(store'[MakeHashKey(open, ammo)], open, ammo)
        BY <2>1, <3>1, <3>2, EmplacedHere DEF Found, StoreFaithful
      <3>5. StoreFaithful'
        <4> SUFFICES ASSUME NEW w \in Weapons, NEW a \in Ammo, MakeHashKey(w, a) \in DOMAIN store'
                     PROVE  Faithful(store'[MakeHashKey(w, a)], w, a)
          BY <2>1 DEF StoreFaithful, Faithful, MakeHashKey
        <4> QED BY <3>3, <3>4 DEF Found, StoreFaithful
      <3>6. StoreComplete'
        <4> SUFFICES ASSUME NEW w \in Weapons, NEW a \in Ammo,
                            w \notin unread, Good(w), a \in DOMAIN files[w].sections,
                            ~(w = open /\ a \in todo \ {ammo})
                     PROVE  MakeHashKey(w, a) \in DOMAIN store'
          BY <2>1 DEF StoreComplete, MakeHashKey, Good
        <4> QED BY <3>3, <3>4 DEF Found, StoreComplete
      <3> QED BY <3>5, <3>6 DEF Found
    <2>4. QED
      BY <2>2, <2>3
  <1>4. CASE CloseFile
    <2>1. /\ files' = files /\ unread' = unread /\ todo = {} /\ todo' = todo /\ store' = store
      BY <1>4 DEF CloseFile
    <2> QED BY <2>1 DEF Found, StoreFaithful, StoreComplete, Faithful, MakeHashKey, Good
  <1>5. CASE UNCHANGED vars
    BY <1>5 DEF vars, Found, StoreFaithful, StoreComplete, Faithful, MakeHashKey, Good
  <1>6. QED
    BY <1>1, <1>2, <1>3, <1>4, <1>5 DEF Next

(* Only the first file of a weapon, and only its Default section, attaches  *)
(* the nodes that section has.                                              *)
LEMMA NodesStep ==
  ASSUME BaseInv, NodesAttached, [Next]_vars
  PROVE  NodesAttached'
  <1>0. attached \in [Weapons -> Nat]
    BY DEF BaseInv, TypeOK
  <1>1. ASSUME NEW weap \in Weapons, OpenFile(weap) PROVE NodesAttached'
    <2>1. /\ files' = files /\ unread' = unread \ {weap} /\ weap \in unread
          /\ \/ ~files[weap].hasDefault /\ attached' = attached
             \/ Attach(weap, files[weap].default, Blank)
      BY <1>1 DEF OpenFile
    <2>2. /\ \A w \in Weapons \ {weap} : attached'[w] = attached[w]
          /\ GivesNodes(weap) => attached'[weap] = 1
      <3>1. Blank["OCNode"] = Unset
        BY DEF Blank, Keys
      <3>2. attached[weap] = 0
        BY <2>1 DEF NodesAttached
      <3> QED BY <1>0, <2>1, <3>1, <3>2 DEF Attach, Attaches, GivesNodes
    <2> QED BY <2>1, <2>2 DEF NodesAttached, GivesNodes, Good
  <1>2. ASSUME NEW weap \in Weapons, SkipFile(weap) PROVE NodesAttached'
    BY <1>2 DEF SkipFile, NodesAttached, GivesNodes, Good
  <1>3. ASSUME NEW ammo \in Ammo \cup {Misspelt}, LoadSection(ammo) PROVE NodesAttached'
    <2> DEFINE defaults == IF hasBase THEN base ELSE Blank
    <2>1. /\ files' = files /\ unread' = unread /\ open \in Weapons /\ open \notin unread
          /\ Attach(open, files[open].sections[ammo], defaults)
          /\ GivesNodes(open) => defaults = DefaultOf(open)
      BY <1>3 DEF LoadSection, BaseInv, Reading, TypeOK, BaseIsDefault, GivesNodes
    <2> HIDE DEF defaults
    <2>2. /\ \A w \in Weapons \ {open} : attached'[w] = attached[w]
          /\ GivesNodes(open) => attached'[open] = attached[open]
      <3>1. "OCNode" \in Keys
        BY DEF Keys
      <3>2. GivesNodes(open) => DefaultOf(open)["OCNode"] # Unset
        BY <3>1, DefaultValues
      <3> QED BY <1>0, <2>1, <3>2 DEF Attach, Attaches
    <2> QED BY <2>1, <2>2 DEF NodesAttached, GivesNodes, Good
  <1>4. CASE CloseFile
    BY <1>4 DEF CloseFile, NodesAttached, GivesNodes, Good
  <1>5. CASE UNCHANGED vars
    BY <1>5 DEF vars, NodesAttached, GivesNodes, Good
  <1>6. QED
    BY <1>1, <1>2, <1>3, <1>4, <1>5 DEF Next

LEMMA BaseInvariant == Spec => []BaseInv
  <1>1. Init => TypeOK /\ Reading
    BY InitTyped
  <1>2. Init => BaseIsDefault
    BY DEF Init, BaseIsDefault
  <1>3. TypeOK /\ Reading /\ [Next]_vars => TypeOK' /\ Reading'
    BY TypeStep
  <1>4. TypeOK /\ Reading /\ BaseIsDefault /\ [Next]_vars => BaseIsDefault'
    BY BaseStep DEF BaseInv
  <1>5. QED
    BY <1>1, <1>2, <1>3, <1>4, PTL DEF Spec, BaseInv

LEMMA FoundSuffices == BaseInv /\ Found => SectionsAreFound
  <1> SUFFICES ASSUME BaseInv, Found, NEW weap \in Weapons, NEW ammo \in Ammo,
                      Loaded(weap), ammo \in DOMAIN files[weap].sections
               PROVE  GetHeatConfig(weap, ammo) # NoConfig
                        /\ Faithful(GetHeatConfig(weap, ammo), weap, ammo)
    BY DEF SectionsAreFound, Faithful
  <1> DEFINE new == MakeHashKey(weap, ammo)
  <1>1. new \in DOMAIN store /\ Faithful(store[new], weap, ammo)
    BY DEF Found, StoreComplete, StoreFaithful, Loaded, Good
  <1>2. GetHeatConfig(weap, ammo) = store[new]
    BY <1>1 DEF GetHeatConfig
  <1>3. store[new] # NoConfig
    <2> HIDE DEF new
    <2>1. store[new] \in [Keys -> Value]
      BY <1>1 DEF BaseInv, TypeOK
    <2>2. "OCNode" \in DOMAIN store[new] /\ DOMAIN NoConfig = 1..0
      BY <2>1 DEF Keys, NoConfig
    <2> QED BY <2>2
  <1>4. QED
    BY <1>1, <1>2, <1>3

(* However the directory orders the files and a file its sections, a        *)
(* section of a file that was read is found for its weapon and ammo, with   *)
(* nothing in it but its own values and its file's defaults: no other       *)
(* section can take its key.                                                *)
THEOREM EverySectionIsFound == Spec => []SectionsAreFound
  <1>1. Init => Found
    BY DEF Init, Found, StoreFaithful, StoreComplete
  <1>2. BaseInv /\ Found /\ [Next]_vars => Found'
    BY FoundStep
  <1>3. QED
    BY <1>1, <1>2, BaseInvariant, FoundSuffices, PTL DEF Spec

(* The lookup has no fallback in any reachable state: it finds a            *)
(* configuration for an ammo only if the weapon's file has a section for    *)
(* that very ammo.  The Default configuration is stored under ammo 0, which *)
(* nothing looks up.                                                        *)
THEOREM DefaultIsNeverFound ==
  Spec => [](\A weap \in Weapons, ammo \in Ammo :
               GetHeatConfig(weap, ammo) # NoConfig => ammo \in DOMAIN files[weap].sections)
  <1> DEFINE OnlySections ==
        \A weap \in Weapons, ammo \in Ammo :
          GetHeatConfig(weap, ammo) # NoConfig => ammo \in DOMAIN files[weap].sections
  <1>1. Owned /\ Found => OnlySections
    <2> SUFFICES ASSUME Owned, Found, NEW weap \in Weapons, NEW ammo \in Ammo,
                        GetHeatConfig(weap, ammo) # NoConfig
                 PROVE  ammo \in DOMAIN files[weap].sections
      OBVIOUS
    <2>1. MakeHashKey(weap, ammo) \in DOMAIN store
      BY NoShortKeys DEF GetHeatConfig
    <2> QED BY <2>1 DEF Found, StoreFaithful, Faithful
  <1>2. Init => Owned /\ Found
    BY DEF Init, Owned, StoreOwned, BaseOwned, Found, StoreFaithful, StoreComplete
  <1>3. BaseInv /\ Found /\ [Next]_vars => Found'
    BY FoundStep
  <1> HIDE DEF OnlySections
  <1>4. Spec => []OnlySections
    BY <1>1, <1>2, <1>3, OwnedInductive, BaseInvariant, PTL DEF Spec
  <1>5. QED
    BY <1>4 DEF OnlySections

(* The nodes of a Default section are attached exactly once: its file is    *)
(* read once, and every later section of it finds them in the base.         *)
THEOREM NodesOnce == Spec => []DefaultNodesOnce
  <1>1. Init => NodesAttached
    BY DEF Init, NodesAttached
  <1>2. BaseInv /\ NodesAttached /\ [Next]_vars => NodesAttached'
    BY NodesStep
  <1>3. NodesAttached => DefaultNodesOnce
    BY DEF NodesAttached, DefaultNodesOnce, Loaded, Good, GivesNodes
  <1>4. QED
    BY <1>1, <1>2, <1>3, BaseInvariant, PTL DEF Spec
=============================================================================
