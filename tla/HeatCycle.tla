------------------------------ MODULE HeatCycle -----------------------------
(***************************************************************************)
(* What the heat system promises of a weapon, whatever the bookkeeping: it *)
(* is ready, charging or locked out; heat rises by shots and, up to a cap, *)
(* by charging; a lockout starts hot, ends cool and never lets a new       *)
(* attack begin.                                                           *)
(***************************************************************************)
EXTENDS Integers

CONSTANTS
  Hot,         (* heat at which a lockout may start               *)
  Cool,        (* heat at which it ends                           *)
  Cap,         (* the most heat charging may reach                *)
  MayDisable   (* can overheating be switched off while locked?   *)

VARIABLES mode, heat, attacking

cycle == <<mode, heat, attacking>>

Init == mode = "ready" /\ heat = 0 /\ attacking = FALSE

(* Time passes: the mode and the heat follow the rules of the lockout.     *)
Tick ==
  /\ mode' \in {"ready", "charging", "locked"}
  /\ heat' \in Nat
  /\ mode # "locked" /\ mode' = "locked" => heat >= Hot
  /\ mode = "locked" /\ mode' # "locked" => heat <= Cool \/ MayDisable
  /\ heat' > heat => mode' = "charging" /\ heat' <= Cap
  /\ UNCHANGED attacking

(* An attack begins only with a weapon that is neither locked nor charging. *)
Attack ==
  /\ mode = "ready" /\ ~attacking
  /\ attacking' = TRUE
  /\ UNCHANGED <<mode, heat>>

(* The shot of the attack leaves and changes the heat.                     *)
Shoot ==
  /\ attacking
  /\ attacking' = FALSE
  /\ heat' \in Nat
  /\ UNCHANGED mode

Cancel ==
  /\ attacking' = FALSE
  /\ UNCHANGED <<mode, heat>>

(* The weapon is forgotten: a new one is cold and ready.                   *)
Forget == mode' = "ready" /\ heat' = 0 /\ attacking' = FALSE

Next == Tick \/ Attack \/ Shoot \/ Cancel \/ Forget

Spec == Init /\ [][Next]_cycle
=============================================================================
