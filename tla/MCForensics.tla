----------------------------- MODULE MCForensics -----------------------------
(* Forensics for TLC: two programs, two requests about one case, one item of   *)
(* that case and one of another case.                                          *)
EXTENDS Forensics, TLC

CONSTANTS p1, p2, r1, r2, e1, e2

MCCaseOf == r1 :> 1 @@ r2 :> 1 @@ e1 :> 1 @@ e2 :> 2

Symmetries == Permutations({p1, p2}) \cup Permutations({r1, r2})
=============================================================================
