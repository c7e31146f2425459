---------------------------- MODULE MCSupervisor -----------------------------
(* Supervisor for TLC: a few process ids, any of which may be exchanged for  *)
(* another.                                                                  *)
EXTENDS Supervisor, TLC

Exchangeable == Permutations(Pids)
=============================================================================
