------------------------------- MODULE HeatMap ------------------------------
(***************************************************************************)
(* What the registry of heat promises: one heat per actor and weapon.      *)
(* Shots raise it, time lowers it, and nothing but cooling down and the    *)
(* loading of a save ever takes it away.                                   *)
(***************************************************************************)
EXTENDS Naturals, Functions

CONSTANT Pairs   (* actors with a weapon *)

VARIABLE heatOf  (* the heat of the registered pairs *)

Init == heatOf = <<>>

HeatAt(p) == IF p \in DOMAIN heatOf THEN heatOf[p] ELSE 0

Put(p, heat) == heatOf' = [q \in DOMAIN heatOf \cup {p} |-> IF q = p THEN heat ELSE heatOf[q]]

Register(p) == Put(p, HeatAt(p))

Shoot(p) == Put(p, HeatAt(p) + 1)

Cool(p) == p \in DOMAIN heatOf /\ \E heat \in 0..heatOf[p] : Put(p, heat)

Forget(p) ==
  /\ p \in DOMAIN heatOf /\ heatOf[p] = 0
  /\ heatOf' = Restrict(heatOf, DOMAIN heatOf \ {p})

Clear == heatOf' = <<>>

Next == Clear \/ \E p \in Pairs : Register(p) \/ Shoot(p) \/ Cool(p) \/ Forget(p)

Spec == Init /\ [][Next]_heatOf
=============================================================================
