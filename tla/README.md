# Overcharge: a TLA+ model of the heat system

Overcharge (`src/Overcharge`) is an NVSE plugin that gives the energy weapons of
Fallout: New Vegas a heat system. It has no thread of its own. Everything runs on
the game's thread, in two ways: a message handler called once per main loop, and
functions patched over calls inside the engine. What makes it hard is not
parallelism but *order*: the same state is changed by the main loop, by hooks the
engine calls whenever it likes, by menus, by the loading of saves, and by the
input buffer, which the plugin both reads and overwrites.

## Inventory

| Component | State | Operations | Hard part | Correct when |
|---|---|---|---|---|
| Heat state machine (`Overcharge.hpp`, `OverchargeHooks.*`) | `HeatState`, the configuration pointer, the static `fireOnce` | `UpdateActiveWeapons` (main loop), `PlayFireAnimation`, `FireWeaponWrapper`, `ProjectileWrapper`, `GetEquippedOCWeapon` (engine hooks) | hooks and updates interleave; control edges; delays in ticks; ammo swapped under the state | lockouts start hot, end cool and refuse attacks; charges live with the trigger; only shots overheat |
| Attack control (`BSInputManager.cpp`) | two samples per key | `GetUserAction`, `SetUserAction` | the plugin's overwrite becomes the "last" sample of the next frame | an edge is seen once |
| Heat registry (`OverchargeHooks.*`, `main.cpp`) | `playerOCWeapons`, `activeOCWeapons` | `GetActiveHeat`, `GetOrCreateHeat`, update loops (every frame / every 15th), `ClearOCWeapons` | entries added by hooks and by the update that walks the container; throttling | one entry per actor and weapon; entries dropped when cold and put away |
| Configurations (`OverchargeConfig.*`) | `weaponDataMap` | `LoadWeaponConfigs`, `GetHeatConfig` | defaults per weapon, keys | every configured weapon and ammo finds its configuration |
| Base form statistics (`OverchargeHooks.cpp`) | fields of the shared `TESObjectWEAP` | `PlayFireAnimation`, `GetWeapAnimMult`, `FireWeaponWrapper`: save, edit, call the engine, restore | hooks nested in the engine call; the setting changed in between | the base form is as before after every outermost call |
| VATS ammo (`OverchargeHooks.cpp`, `WaldezTools.hpp`) | none | `CalcOCAmmoRequired`, `ScaleByPercentRange` | 8-bit sum, division | the projection bounds what the shots use |
| Effects of projectiles, impacts, explosions (`OverchargeHooks.cpp`) | `activeEmitters`, `activeParticles`, `activeTempEffects` | the wrappers, `ClearOCWeapons` | pristine materials remembered and restored; containers that only grow | a recycled effect that is handled shows its own weapon's colour, and the way back is never lost |
| Heated nodes (`UpdateHeatFX`) | blocks of a mesh | per-frame recolouring | refresh while blocks are erased | - |
| Iron sights (`OverheatSightToggle`, `OverheatLockout`) | the player's sight node, controls | toggled by the update | restored in one single frame | sights come back after a lockout |
| Model overrides (`NifOverride.hpp`) | `definedModels`, `defaultColors` | model loader hooks | raw-pointer keys | - |
| Light clones (`OCLightExtraData`) | extra data of forms | `Add` | ownership | - |
| Script commands (`CommandsOvercharge.hpp`) | the settings | console getters and setters | setters bypass every rule | - |
| Plugin entry (`main.cpp`) | frame counter | message handler | pause guard | - |
| Logger (`nvse/Logging.cpp`) | queue, destinations, worker thread | `log`, `processQueue`, destructor | the only real threads | every message is delivered; the program can end |
| Code patching, input hook (`nvse/SafeWrite.cpp`, `nvse/dinput8.cpp`) | code bytes; key states | | | |
| Engine classes (`CommonLib`), vendored code | | | declarations, third party | |

How they interact: a hook looks its weapon up in the registry (creating it, with a
configuration from the store), changes its heat state, and edits the base form for
the duration of the engine call it wraps. The main loop walks the registry, changes
the heat state, reads and overwrites the attack control, recolours the mesh, and
toggles sights and controls. Effects remember the heat data they were spawned by.

## Modules

| Module | Role |
|---|---|
| `HeatWeapon` | the heat state machine of one weapon of one actor, with the attack control and the world around it |
| `HeatCycle` | what a weapon promises, whatever the bookkeeping: ready, charging, locked |
| `HeatHistory` | `HeatWeapon` with two history variables: real time since the weapon was last drawn, fired or pressed in play, and shots since the lockout began |
| `HeatRegistry` | the two containers of heat, with several actors and weapons |
| `HeatMap` | what the registry promises: a map from actor and weapon to heat |
| `HeatRegistryClock` | `HeatRegistry` with a history variable, the frames since a heat was last made, fired or drawn |
| `ConfigStore` | loading and looking up configurations |
| `BaseForm` | the hooks that edit the shared form of a weapon around a call into the engine |
| `VatsAmmo` | `BaseForm` with the menu and the playback of VATS, and the projection of its ammo |
| `TempEffects` | the materials and emitters of flashes, projectiles, impacts and explosions |
| `Logger` | the queue, the destinations and the worker thread of the logger |
| `HeatWeaponProofs`, `HeatHistoryProofs`, `HeatRegistryProofs`, `ConfigStoreProofs`, `BaseFormProofs`, `VatsAmmoProofs`, `TempEffectsProofs`, `LoggerProofs` | the theorems |
| `WeaponConfigs`, `MCHeatWeapon`, `MCHeatHistory`, `MCHeatRegistry`, `MCConfigStore`, `MCVatsAmmo` | small instances for TLC |

`HeatWeapon`, `HeatRegistry` and `ConfigStore` meet in `GetOrCreateHeat`: it takes a
configuration from the store, looks the heat up in the registry, and hands the heat to
the state machine. `BaseForm` and `TempEffects` start where the heat is known: they read
it, and `HeatWeapon` and `HeatRegistry` say how it changes. Each module keeps what its own
properties depend on and leaves the rest to the choice of TLC: `HeatWeapon` picks a
configuration for each ammo, `HeatRegistry` cools and heats by whole units, `BaseForm`
lets a frame cool, drop or charge a heat at will, `ConfigStore` says where values come
from. Such a choice has more behaviours than the code, so that what holds in the module
holds in the program.

### HeatWeapon

State. `st` is `HeatData::state` without the statistics; `config` is
`HeatData::config`; `present` says whether the registry holds the weapon. `key` holds
the two samples of the attack control; `polled` says that the engine has not acted on
the current one. `anim` is the attack of the engine from the animation to the shot.
`queued` is the attack the engine has queued, which `PlayFireAnimation` clears when it
refuses. `ammo`, `equipped`, `dying` and `menu` are the world.

Actions.

| Action | Code |
|---|---|
| `FrameStep` | sampling of the control, then `NVSEMessageHandler` (main loop) with `UpdateActiveWeapons`: activation, `UpdateOverheat`, the tick, the player's charge mechanics, erasing, cooling |
| `ActorUpdate` | `GetEquippedOCWeapon`: `GetOrCreateHeat` |
| `PlayFireAnimation` | the hook of the same name |
| `ShotStep` | `FireWeaponWrapper` and the `ProjectileWrapper` call it leads to |
| `SetMenu`, `Unequip`, `Equip`, `SwapAmmo`, `Die` | the game |
| `PostLoadGame` | `ClearOCWeapons` |

Data. Heat, rates and time are naturals: the code only compares them with its
thresholds, which are constants with the order they have in the code
(`ThresholdsAssumption`). The skill curve of `InitializeHeatData` is folded into the
rates; what it does, and its early return for a zero rate, is kept. A rate is never
negative here, while one that was never set is -1 in the code and passes the guard of
`OverchargeHooks.hpp:149`: such a weapon would heat where it should cool, and nothing here
speaks of it. `fireOnce` is one function static, shared by all weapons of the player, and a
field of the one weapon here. `IsPlayer` selects
the container, and with it whether the charge mechanics run; the frame of an NPC stands
for the 15 frames its loop waits.

Left out of this module: the statistics of a shot (they are in `BaseForm`), sound and the
shake of the weapon, and `SetOCWeaponState`, with which a console user can write any field.

### HeatRegistry

State. `vec` are the vectors, as sequences of addresses; `data` is what the shared
pointers point to. `walk` is the iteration of `remove_if`: container, next slot, slots
kept, and the end when it began. `frames` is `OCFrameCounter`.

`UpdateActiveWeapons`, the predicate of `remove_if`, calls `InitializeHeatFX`, which
may `push_back` into the vector under the walk. So the walk is modelled slot by slot
(`WalkStep`), with the null a move leaves behind, and the `erase` at its end
(`EndOfWalk`) frees what was not kept. Hooks run only between walks, as they do on the
one thread of the game. Whether the weapon has a mesh, a charge is held, or a block of
the mesh was lost is chosen freely for each slot. `HeatMap` sees a heat as registered
until the walk decides to drop it.

### ConfigStore

`LoadWeaponConfigs` as steps: one file is opened (`OpenFile`, with its `Default`
section) or skipped, its sections follow in any order (`LoadSection`), and it is closed
(`CloseFile`). A section is the set of the keys it sets, and a value is the weapon and
the section it was read from. Four keys stand for the four ways a value is inherited: a
plain one, one that is read only with `bStats`, the effects (not inherited when the key
is missing), and the nodes (taken from the defaults before the section is looked at,
and attached to the models of the weapon as they are read).

### BaseForm and VatsAmmo

State. `form` are the weapon forms, shared by every actor that carries the weapon;
`stack` the hooks that have not returned, each with the forms it found (`og`) and the ones
it called the engine with (`edited`); `heat`, `charged` and `blocked` what the hooks read
of each actor's `HeatData`; `bStats` the setting. Four kinds of field are told apart:
`ammoUse`, `numProjectiles`, `usAttackDamage` (for the critical damage and the spread as
well) and `animAttackMult`, which two different hooks edit.

The engine runs other hooked functions inside the ones it is called for: an animation asks
for the multiplier, a shot sets off scripts and other actors' attacks. So any hook may be
entered on top of any other, for the same actor or weapon too, `Return` unwinds the
innermost, and `SetOCSettings` may come anywhere. Which nestings the engine has is not in
the repository; the module allows all of them, to the depth `MaxDepth`.

`InterpolateBase` and `ScaleByPercentRange` are the code's, on a scale where a ratio of 1
is `FULL`; rounding and truncation are kept. `ammoUse` and `numProjectiles` are 8 bits
wide (`BYTE`).

`VatsAmmo` adds the player's menu of queued attacks and its playback. `QueueAttack` asks
`CalcOCAmmoRequired` for the ammo of one more attack and is refused when the clip lacks
it; `FireQueued` is `FireWeaponWrapper`, after which the game takes `ammoUse` of the
edited form from the clip. Menu and playback are the engine's and marked external. The code
finds the shots of an attack by dividing its ammo, a byte, by that of one shot (`Shots`); a
weapon that takes no ammo would have it divide by zero, and queues nothing in the model.

Left out: the factors on damage of Overclocker and of Galvanic Relativist
(`OverchargeHooks.hpp:552-558`, `567-574`). They multiply a field that is saved and
restored with the others, and no property depends on its value.

### TempEffects

State. `scene` is what lives at each address, `material` the material of its geometry,
`activeTempEffects` the recorded materials in the order of the vector, `activeEmitters`
the heat noted for each emitter, with `Cold` for a null heat. Graphs come and go by the
engine's choice: graphs of flashes and impacts are used again, addresses are reused, a
recorded graph lives as long as its record, because that holds a reference. A colour is the
weapon it comes from.

Every wrapper takes the weapon it finds, `None` if it finds none, and whether it finds the
node of its graph, and returns early as the code does: with `bVFX` off; without a weapon or
a source (`OverchargeHooks.cpp:378`, `507`, `565`), an actor that owns the explosion
(`666`) or killed (`757`); without a node (`568`, `685`); and, for a flash or projectile,
when the weapon wants no effects (`388`, `440`). An effect on which it returned early was
*passed over*: nothing is noted and nothing is given back, and what an earlier effect left
at the address stays. `InitializeParticleWrapper` asks neither for `bVFX` nor for who noted
the entry it finds. An explosion takes the weapon its owner has in hand *when it goes off*
(`671`, `761`); that need not be the one that fired, and the module speaks of the one found.

Three variables are history, which no action reads: `source` is the weapon of the last
effect in each graph that was handled, `passed` the graphs whose present effect was passed
over, `due` the colour that the last hit handled in the graph asked for.

### Logger

The only threads of the project. `removeDestination` is public and modelled, but nothing in
the repository calls it: `RemovedStaysSilent` is about an operation that is not used yet. State: the queue and the destinations with a mutex each
(`mutex`, `destMutex` name their owner), where each caller is in `log`, where the worker is
in `processQueue`, and the process. Every lock, unlock, push, pop and notification is a
step of its own; `SpuriousWakeup` is what a condition variable may do. A message is its
number. `Refuse` is `NVSEPlugin_Query` returning false after it has logged why; `Exit` ends
the process, which kills every thread but one; `Destroy` is the destructor.

## Runs

In the state machine, thresholds are scaled down with their order kept: hot 6, cool 3,
charge cap 5 (5, 2 and 4 in `cycle`), shots of heat 1 or 2, cooling 1 per unit of time;
delays of 1, 2 and 3 units, and a tick counter that saturates at 4. With these a weapon
overheats after three to six shots, charges to the cap in four frames, saturates its
counter, cools and is erased, all within one run. The bound `HeatBound` (8, or 7 in
`cycle`) stops shots that would heat the weapon past it: heat above the hot threshold
behaves the same whatever its value, except for the time it takes to cool. No other
quantity of `HeatWeapon` is bounded.

| Run | Property | Shows |
|---|---|---|
| `charged` | `TypeOK`, `LockoutClearsCharge`, `ChargeNeedsTrigger`, `OnlyShotsOverheat`, `LockoutEnds`, `AbandonedIsErased`, `LockoutWearsOff`, `AbandonedWearsOff` | the overcharge shot, with every action of the model; safety and liveness |
| `twin` | `ChargeNeedsTrigger`, `CriticalMassNeverOverheats`, `BlockedAttackIsDropped` | an automatic weapon with both charge mechanics, which act in the same frame; frames of two lengths; Critical Mass with Circuit Bender |
| `cycle` | `OneShotPerLockout`, `ImplementsCycle`, `EraseIsTimely`, `ChargeIsTimely` | refinement of `HeatCycle`; ticks measure time when frames have one length; ammo swaps, Coolant Leak, menus and the start menu |
| `band` | `TypeOK`, `OneHeatPerWeapon`, `WalkNeverGrows`, `ImplementsMap` | the player and another actor, two weapons each, both containers |
| `throttle` | `EraseIsTimely` (of `HeatRegistryClock`), `AbandonedAreErased`, `AbandonedWearsOff` | the throttled loop measures time in frames, and drops what was put away |
| `load` | `TypeOK`, `SectionsAreFound`, `NoCrossTalk`, `DefaultNodesOnce` | every mix of good and bad files |
| `shots` | `TypeOK`, `OthersUntouched`, `CallKeepsItsEdit`, `AlternatesArePaid`, `ClipCovers` | nested hooks of three actors, two of whom share a form; VATS |
| `pool` | `TypeOK`, `TintIsReversible`, `PaintedByItsWeapon`, `ImpactShowsItsWeapon` | reused graphs, effects handled and passed over, two addresses, two weapons |
| `threads` | `TypeOK`, `RemovedStaysSilent`, `NoLostWakeup`, `InOrder`, `EveryMessageIsTold` | three logging threads, the worker, two destinations |

`cycle` and `throttle` have frames of one length. With frames of two lengths
`EraseIsTimely` and `ChargeIsTimely` do not hold: ticks are multiplied by the duration of
the current frame (`OverchargeHooks.cpp:49`), so that one long frame makes all the ticks
before it long. What does hold is the bound of `DelaysAreNearlyKept`, below. In `cycle` the
two properties say that the one counter is restarted whenever one of the three things it
times begins: the drawing of the weapon, a shot, and a press of the trigger *in play*, that
is, where the charge mechanics run. A press made in a menu, a pause or a lockout restarts
neither the ticks (`OverchargeHooks.hpp:291`) nor the age: a trigger pressed there and still
held back in the game may earn the alternate projectile at once, and `ChargeIsTimely`
allows it.

`AlternatesArePaid` counts a shot as paid when it was fired charged. The triple use of ammo
that goes with it is an edit of the base form, which is made only with `bStats` on.

All runs of `HeatWeapon` are of the player. The heat of another actor's weapon moves by
the same operations without the charge mechanics and without the setting of `iCanOverheat`
by the last round, and the theorems about it hold for both.

`ChargeNeedsTrigger` has two limits, and both are the code's. It fails once the start menu
or the console may be open (`Menus` with `"paused"`): the update is skipped there
(`main.cpp:48`) while the control is still sampled, a release goes unseen, and the charge
goes on with the trigger up until the next press. And it fails when ammo of a charging
configuration is swapped, outside menus, for ammo of one that does not charge: the flag
stays, and nothing looks at it any more until the weapon is put away or a menu opens. A
wind-up may also never end: its target is the heat at the press plus the threshold
(`OverchargeHooks.hpp:357`), which from a warm weapon may lie beyond the cap.

In the registry a frame is one unit of time, the throttle 2 frames, and the delays 1 to 3,
so that the two loops round them differently. `Addresses` bounds the heats that exist at
once: three in `band`, where a container then holds up to two of them and the walk has
something to move, and two in `throttle`, one for each pair. `HeatBound` bounds the shots.
Symmetry is used for addresses, weapons and actors other than the player, in the safety
runs only. In the store, one weapon has every file over the four keys, one ammo and a
misspelt section; the other has every combination of failures. There are 8 form IDs,
enough for two weapons and two kinds of ammo with distinct IDs.

`shots` has a stack two deep: a hook inside a hook is where saving and restoring can go
wrong, and deeper nestings repeat it (the theorems hold for any depth). `FULL` is 3 and
`BYTE` 8, so that a charged shot at full heat wraps its tripled ammo. Attacks of VATS are
bursts of two shots; the clip has ammo for two attacks from a cold weapon, one short or
enough, and between them the projected heat crosses the whole scale. `ClipCovers` is about a use of ammo that grows with the
heat: with a threshold the code still projects in proportion, a sum above 255 wraps, a
script may switch `bStats` between queueing and playing, and Coolant Leak heats by leaps;
in each of these the clip may fall short, and `Proportional` or the
guards of `VatsAmmo` exclude it.

`pool` has two addresses and two weapons. A graph's history is what matters, and with two
addresses one may be reused while the other keeps its colour. The two properties about
colour say less than that an effect always shows its weapon, because the code does less:

* `ImpactShowsItsWeapon`: an impact shows what the last hit *handled* in its graph asked
  for, its weapon's colour or the graph's own. A hit that is passed over gives nothing back,
  so that a hit by nothing, or with effects switched off, in a graph that a heated weapon
  coloured keeps that colour.
* `PaintedByItsWeapon`: an effect that was handled paints its particles by the weapon its
  wrapper found, or by none, although `activeEmitters` is full of stale addresses. An effect
  that was passed over is not covered: an entry left by another graph at the address paints
  it, even with `bVFX` off (`OverchargeHooks.cpp:799`).

`threads` bounds the messages by `MaxLogged`, 4, one more than the callers, so that one
thread logs twice.

Three runs are expected to fail; each shows that the code does not do what the
repository says of it.

| Run | Property | What the repository says | What the code does |
|---|---|---|---|
| `swapped` | `LockoutEnds` | `README.md:9`: a "temporary shutdown until the weapon cools" | ammo that does not overheat makes the shutdown permanent |
| `default` | `DefaultApplies` | `README.md:3`: "fully configurable globally, per weapon, and per ammo type" | the configuration of a weapon is stored under a key the lookup never tries; with ammo that no section names, the weapon has none |
| `refused` | `RefusalIsHarmless` | `main.cpp:83`: "Plugin will NOT load!" | the message creates the logger, whose destructor joins a thread that was never started: `std::terminate` ends the game |

### Fairness

`FairSpec` of `HeatWeapon` assumes weak fairness of `FrameStep` and `ActorUpdate`: the main
loop keeps running, and the engine updates the actor in hand outside menus. Nothing is
assumed of the player, the menus or the shots; `LockoutEnds` and `AbandonedIsErased`
therefore state their own premises (no menu from some time on, no more juggling of weapons
or ammo). Both premises are needed: cooling stops in menus, and each time a weapon is
drawn its tick counter restarts (`OverchargeHooks.cpp:41`).

`FairSpec` of `HeatRegistry` assumes weak fairness of the loop alone, and
`AbandonedAreErased` again that the menus are closed from some time on.

`FairSpec` of `Logger` assumes weak fairness of the worker's own steps and of a caller
inside `log`: threads that hold a mutex are scheduled. It does not assume that waiting
wakes up by itself, nor that the worker is ever started.

## Proofs

Every theorem holds for all values of the constants its module's assumptions allow:
any number of actors, weapons, threads, addresses, any thresholds in their order.

* `TypeCorrect` (`HeatWeaponProofs`): `Spec => []TypeOK`. One lemma per operation on a
  `HeatState` shows that it yields one; `TypeStep` has one case per action. `TypeOK` is
  inductive.

The safety properties reduce a step to one relation. `Moves(s, t)` says what every
operation of a frame but `UpdateOverheat` may do to a state: change charge effects only,
add none to an overheated weapon, raise the heat at most to the charge cap. It is
transitive, each operation satisfies it, and so does their composition (`FrameMoves`).
`StepCases` then says that a step of the specification is `UpdateOverheat` and `Moves`,
or gives a new state, or is a shot, whose effect `ShotEffects` describes.

* `LockoutClears`: `LockoutClearsCharge` is inductive by these cases.
* `OnlyShots`: the action property `OnlyShotsOverheat`, from `Moves` and
  `CHARGE_CAP < HOT_THRESHOLD`.
* `CriticalMass`: `CriticalMassNeverOverheats`, assuming that the actor lacks Coolant
  Leak. The property is not inductive: a hot weapon that may still overheat would be
  locked by the next update, and a weapon already marked with self damage would skip the
  line that disables overheating. The inductive invariant `Disabled` excludes both.
* `BlockedIsDropped`: `BlockedAttackIsDropped`, from the invariant that the engine's
  queue is empty when the last attack was refused.
* `ChargesNeedTheTrigger`: `ChargeNeedsTrigger`, assuming `AmmoAgrees` (every ammo the
  actor may load has the same charge effects) and that the menus of the model leave the
  start menu and the console out. Both assumptions are the limits of the code told under
  Runs. The inductive invariant `TriggerInv` adds that the charge effects are ones of the
  current configuration (an effect that is not is looked at by no release) and that only
  the player has them; a new `HeatData` has none, so that `Bare` is needed as well.

`HeatHistoryProofs` proves what is about whole stretches of a weapon's life. First the
refinement: `RefinesCycle`, `Spec => ImplementsCycle`. A frame
is a tick of the cycle, an attack its attack or (refused) nothing, a shot its shot; every
other step keeps the mode and the heat or forgets them. What the mapping hides is kept by
`CycleInv`: `LockoutClearsCharge` (so that heat that rises rises while charging, not while
locked), `Bare` (a weapon without a `HeatData` is cold and without effects, so that making
one changes nothing the cycle sees) and `Able` (only Critical Mass disables overheating, so
that a lockout without it ends cool).

Then the history variables. `HistoryAddsNothing`, `HSpec => Spec`, lets the theorems about
the weapon be used.

* `LockoutStopsTheGun`: `OneShotPerLockout`. The invariant `LockInv` counts the attack
  that is firing with the shots of the lockout: `PlayFireAnimation` lets no attack begin
  in a lockout, so that the one that was under way is the only one.
* `DelaysAreNearlyKept`: with frames between `short` and `long`, a weapon is erased and
  the alternate projectile earned no sooner than `short/long` of the delay after the weapon
  was last drawn, fired or pressed in play. Ticks are
  multiplied by the length of the *present* frame, and this is what that costs. The
  invariant `ClockInv(short)`: ticks, taken for frames of the shortest length, do not
  exceed the age, unless the age has reached the delay of the erasure (where it stops).
  The saturated counter only helps.
* `EraseKeepsItsDelay`, `ChargeKeepsItsDelay`: with `FrameTimes = {short}`, which is what
  the run `cycle` has, the properties `EraseIsTimely` and `ChargeIsTimely`, exactly. Like
  the properties they count from the last draw, shot or press in play, and say nothing of
  how long the trigger was down when it was pressed in a menu or a lockout. The second, like the bound above, assumes `CHARGE_THRESHOLD <= ERASE_DELAY`, the order the
  two constants have in the code.
* `LockoutsWearOff`, `AbandonedWearOff`: the properties `LockoutWearsOff` and
  `AbandonedWearsOff`, the safety half of the two liveness properties of `charged`. The
  measure `Remaining` is the ticks that the delay still lacks plus the heat. During a
  lockout only the shot under way and the drawing of the weapon raise it, and every frame
  outside menus that may cool lowers it; while a weapon is put away nothing raises it at
  all. So no lockout outlasts `Remaining + 1` such frames, and a weapon put away is dropped
  within as many: fairness only adds that the frames come. The theorems assume that the
  tick counter can reach the delay (`COOLDOWN_DELAY <= MAX_TICKS`, `AwayDelay <=
  MAX_TICKS`): in the code it counts to 65535, and the delays are half a second and five
  seconds, so that this holds even for frames of a millisecond. The invariant `RestInv`
  says that nothing is left that would stop the cooling or raise the heat: no charge in a
  lockout (`LockoutClearsCharge`) nor of any actor but the player, whose own is taken away
  with the weapon, and no attack under way with a weapon that is not in hand.

`HeatRegistryProofs`. The invariant `IInv` types the walk (`WalkTyped`), says that the
slots it has kept and those ahead of it hold heats and not the nulls of moved pointers
(`Filled`), that every address in a container has data (`Known`), and
`OneHeatPerWeapon`.

* `RegistryTyped`, `OneHeat`: from `IInv`. A heat is pushed only when the lookup found
  none for its actor and weapon, and a walk only moves what it keeps.
* `WalkIsSafe`: `WalkNeverGrows`. `InitializeHeatFX`, called for the heat that is being
  visited, finds that heat in its own slot, because the walk has not moved it yet.
* `RefinesMap`: `Spec => ImplementsMap`. `Owned(R, d)` is the map that the heats `R` with
  the contents `d` stand for; three lemmas say what it becomes when a heat is stored, taken
  away or moved. A turn of the walk that keeps its heat moves it from the slots ahead to
  the slots kept and cools one entry of the map; one that passes a heat over takes a cold
  entry away; the erase at the end and the start of a walk change nothing.
* `AbandonedWearOff`: `AbandonedWearsOff` of the registry, assuming `AwayDelay <=
  MAX_TICKS` as above. Hooks touch only the heat of the weapon in hand
  (`HookSparesAbandoned`), the erase of a walk leaves what it keeps as it is
  (`EndOfWalkKeeps`), and the one update of a walk that concerns an abandoned heat lowers
  its `Remaining`, or drops it (`VisitWearsOff`). No throttle, compaction or other actor
  puts its end off.
* `ClockAddsNothing`, `EraseKeepsItsDelay`: `EraseIsTimely` of `HeatRegistryClock`, for
  every throttle. Ticks of the throttled container are worth `NPC_UPDATE_THROTTLE` frames
  each, although the first of them may come one frame after the shot. The invariant
  `ClockInv` accounts for it: ticks times the pace of the container, plus the frames since
  the last turn (`Waited`: a whole turn for a slot the walk has yet to reach, else the
  frame counter), exceed the clock by at most one turn. A heat is dropped by the walk
  before its tick is counted, when that turn is still owed, and so on time. A heat made
  at a free address starts a new clock, because nothing but what is in the vectors has
  data between walks.

`BaseFormProofs`. The invariant is that the stack is a chain: what each hook saved is
what the hook below it called the engine with, the first saved the original forms, each
edited only fields it saves of its own weapon, and `form` is what the innermost edited.

* `FormsTyped`, `OnlyTheWeaponAtHand`, `NestingIsInvisible`, `NoFreeAlternate`: the
  properties of `shots` that are about the forms, for any depth.
`VatsAmmoProofs`.

* `VatsTakesFormSteps`: `VSpec => Spec`. Opening the menu drops a charge, the playback is
  shots and the rest of the game: each is a step of `BaseForm` or changes nothing of it,
  so that the four theorems hold of `VatsAmmo`, which is what the run checks.
* `ClipIsEnough`: `ClipCovers`, assuming `Proportional`: no Coolant Leak, and for a
  configured rifle a use of ammo without a threshold whose minimum is not above its maximum;
  an attack fits in a byte. These are the limits of the code told under Runs, and the
  configuration of the run is within them, as `MCVatsAmmo` assumes and TLC evaluates.
  `Need(edits, h, n)` is what `n` shots take from heat `h` on. The invariant `VInv` says
  that the ammo reserved covers the need of all the shots queued while the menu is open,
  that the clip covers the need of those left while they are played, and that the weapon
  stays `Drawn`: not charged, its `HeatData` there, and its ammo changed by its own shots or
  by nothing. An attack keeps it because the projected heat is not below the heat the
  earlier attacks leave (`ProjectedHeatIsHigh`), so that the projection covers its share of
  the need (`ProjectionCovers`); a shot takes its share and leaves the rest (`NeedFirst`);
  what cools in between only lowers the need (`NeedGrows`).

  A need is a sum over any number of shots, and `SumFunction` is a fold. Its first section
  makes induction available: the order of the naturals is well-founded, so that a set of
  naturals has a least element, so that a set with 0 and all successors is `Nat`. With it
  the sum over a finite set is shown to exist, to be the sum of its parts whatever is taken
  first, and over `1..n` to split, to be ordered as its values are and to be bounded by `n`
  times the largest.

`TempEffectsProofs`.

* `EffectsTyped`, and `WayBack`, `TintIsReversible`, which is inductive.
* `NoForeignPaint`: `PaintedByItsWeapon`, for the effects that were handled: a wrapper that
  does not return early overwrites the entry of its address, with a null heat if need be.
* `ImpactsAreTrue`: `ImpactShowsItsWeapon`, over every sequence of handled and passed-over
  hits. It needs `WayBack`, since what is given back is to be the graph's own material, and
  that a free address is plain, so that a new graph owes nothing to the last one there.

`LoggerProofs`. The invariant says that the queue holds the numbers after the last task
(`Numbered`), that a thread between lock and unlock owns the mutex (`Exclusive`), that the
worker owns `destMutex` while it broadcasts (`Guarded`), and how far each destination is
(`UpToDate`).

* `LoggerTyped`, `NoCallAfterRemove`, `MessagesInOrder`: `TypeOK`, `RemovedStaysSilent`
  and the action property `InOrder`.
* `NoWakeupIsLost`: `NoLostWakeup`, the safety half of `EveryMessageIsTold`. While the
  worker waits and the queue is not empty, some caller is between its push and its
  `notify_one`. `log` notifies after it has freed the mutex, so that the mutex alone does
  not give this: it is inductive by itself, since the worker starts to wait only on an
  empty queue and every push leaves its caller about to notify.

`ConfigStoreProofs` assumes `FormAssumption` and `LibraryAssumption`.

* `KeysAreUnique`: `MakeHashKey` is injective, whatever the number of form IDs.
* `StoreTyped`: `TypeOK`, with the invariant that sections are left to read only while a
  file is open (`Reading`).
* `ConfigsStayApart`: `Spec => []NoCrossTalk`. The inductive invariant `Owned` adds that
  each key of the store is the key of a weapon whose file all values under it come from,
  and that the base configuration is that of the open file. The fallback of the lookup
  cannot hit: an ID is less than every key, by `KeysAreUnique`.
* `EverySectionIsFound`: `SectionsAreFound`. The invariant `Found` says of the store what
  the property says of the lookup, and says it of the file that is being read too: what is
  no longer in `todo` is in the store, and what is there is its section over the defaults.
* `DefaultIsNeverFound`: the lookup finds a configuration for an ammo only if the file has
  a section for it. That is the finding of the run `default`, for every directory.
* `NodesOnce`: `DefaultNodesOnce`. The nodes of a weapon are attached when its file is
  opened, never before it and never again.

Only model-checked: liveness (`LockoutEnds`, `AbandonedIsErased`, `AbandonedAreErased`,
`EveryMessageIsTold`), which rests on fairness and `ENABLED` and is out of the prover's
reach. What each of the four rests on besides is proved: the measures of `LockoutWearsOff`
and the two `AbandonedWearsOff`, which are natural numbers and cannot fall for ever, and
`NoLostWakeup`. Every other property of the passing runs is a theorem.

## Not modelled

* The geometry of a frame: `UpdateHeatFX`, colours, rotations, particle colour modifiers,
  model overrides. Nothing else reads it.
* State the engine owns and assigns on its own: the sight node and control flags
  (`OverheatSightToggle`, `OverheatLockout`), extra data that owns cloned lights.
* `SetOCWeaponState`, which writes any field of a state from the console.
* Start-up code: patching of code memory, interface lookup, the settings file.
* The key hook `DIHookControl`: it is NVSE's; the plugin fetches the pointer and never
  uses it.
* Vendored code (a profiler, a JSON and an INI library, the classes of the engine), which
  is most of the repository's lines: the map covers most of the plugin's own logic and a
  small share of the whole.

## Left to do

`HeatRegistry` knows heat and not effects, so that what is proved of lockouts is proved of
one weapon. `RefinesMap` relates the registry to a map, and each entry's life to
`HeatWeapon` only by the correspondence of their actions; a module with the full state at
each address would make that a refinement too.
