------------------------------ MODULE MCSessions ------------------------------
(* Sessions for TLC: the command line and two connections, four officers, one   *)
(* of them with a rank that login cannot read, and a lifetime of two steps.     *)
EXTENDS Sessions, TLC

CONSTANTS c1, c2

RankOf == <<"CONSTABLE", "DSP", "INSPECTOR", "ASI">>

Symmetries == Permutations({c1, c2})
=============================================================================
