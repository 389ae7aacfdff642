-------------------------- MODULE MCFeatureTasks --------------------------
(***************************************************************************)
(* Instances of FeatureTasks.                                              *)
(***************************************************************************)
EXTENDS FeatureTasks

CONSTANTS d, f, g, r1, r2, r3

(* Three intervals of a join.  Two get the block g of a feature, which is  *)
(* calculated from f, which is calculated from synthetic data; one gets    *)
(* the block d of data.  g found in the cache leaves nobody to wait for f, *)
(* which is to be stored.                                                  *)
MCNodes    == <<r3, r1, r2>>
MCJoinsOf  == [r \in {r1, r2, r3} |-> IF r = r3 THEN {d} ELSE {g}]
MCDepsOf   == [b \in {d, f, g} |-> IF b = g THEN {f} ELSE {}]

MCRefCount == [b \in {d, f, g} |-> IF b = d THEN 1 ELSE 2]

=============================================================================
