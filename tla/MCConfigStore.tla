---------------------------- MODULE MCConfigStore ---------------------------
(* A small instance of ConfigStore: one weapon with every file that sets    *)
(* some of the keys in a Default section, in a section for an ammo and in a *)
(* misspelt section; another that is as full, or as empty, as it can be.    *)
EXTENDS ConfigStore, TLC

TwoWeapons == {1, 2}
TwoAmmo    == {4, 5}

Sections(names) == [names -> {{}, {"sOverchargeEffects", "OCNode"}, Keys}]

VariedFiles ==
  {f \in [known : {TRUE}, readable : {TRUE}, hasDefault : BOOLEAN, default : SUBSET Keys,
          sections : Sections({4}) \cup Sections({4, Misspelt}) \cup Sections({})] :
     f.hasDefault \/ f.default = {}}

OtherFiles ==
  {[known |-> k, readable |-> r, hasDefault |-> d, default |-> IF d THEN Keys ELSE {},
    sections |-> [a \in TwoAmmo |-> IF d THEN {} ELSE {"fDamage"}]] : k, r, d \in BOOLEAN}

SmallLibraries == {1 :> f @@ 2 :> g : f \in VariedFiles, g \in OtherFiles}
=============================================================================
