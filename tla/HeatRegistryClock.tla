------------------------- MODULE HeatRegistryClock --------------------------
(***************************************************************************)
(* HeatRegistry with a history variable: the frames that really passed     *)
(* since each heat was made, fired or made active again.  The throttled    *)
(* loop counts its own passes and takes each for NPC_UPDATE_THROTTLE       *)
(* frames.                                                                 *)
(***************************************************************************)
EXTENDS HeatRegistry

VARIABLE clock

cvars == <<vars, clock>>

CInit == Init /\ clock = [h \in Addresses |-> 0]

(* The hook made the heat, or fired it.                                     *)
Restarted(h) ==
  h \in DOMAIN data' /\ (h \in DOMAIN data => data'[h].fHeatVal > data[h].fHeatVal)

CHook ==
  /\ \E actor \in Actors : GetEquippedOCWeapon(actor) \/ FireWeaponWrapper(actor)
  /\ clock' = [h \in Addresses |-> IF Restarted(h) THEN 0 ELSE clock[h]]

(* The clock stops once it passes the delay of the erasure by a pass.       *)
CMainLoop ==
  /\ MainLoop
  /\ clock' = [h \in Addresses |->
       IF clock[h] < ERASE_DELAY + NPC_UPDATE_THROTTLE THEN clock[h] + 1 ELSE clock[h]]

CWalk ==
  /\ WalkStep
  /\ clock' = [h \in Addresses |->
       IF h \in DOMAIN data /\ data'[h].bIsActive /\ ~data[h].bIsActive THEN 0 ELSE clock[h]]

COther ==
  /\ \/ EndOfWalk
     \/ \E actor \in Actors :
          Die(actor) \/ \E weap \in Weapons \cup {NoWeapon} : Draw(actor, weap)
     \/ SetMenu
     \/ ClearOCWeapons
  /\ UNCHANGED clock

CNext == CHook \/ CMainLoop \/ CWalk \/ COther

CSpec == CInit /\ [][CNext]_cvars

CFairSpec == CSpec /\ WF_cvars(Loop /\ CNext)

(* A heat is dropped, by either loop, only when ERASE_DELAY frames have     *)
(* passed since it was last made, fired or drawn.                           *)
EraseIsTimely ==
  [][~Quiet /\ walk'.at > walk.at /\ walk'.kept = walk.kept
       => clock[vec[walk.on][walk.at]] >= ERASE_DELAY]_cvars
=============================================================================
