---------------------------- MODULE MCEnforcement ----------------------------
(* Enforcement for TLC: officers of chosen ranks.                            *)
EXTENDS Enforcement, TLC

(* A constable and an inspector. *)
CONSTANT s1
OneConstable == [s \in Sessions |-> IF s = s1 THEN "CONSTABLE" ELSE "INSPECTOR"]

Exchangeable == Permutations(Arrests) \cup Permutations(Bails) \cup Permutations(Sessions \ {s1})
=============================================================================
