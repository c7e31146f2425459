----------------------------- MODULE MCGateway ------------------------------
(* Gateway for TLC: connections that may be exchanged for one another.      *)
EXTENDS Gateway, TLC

Exchangeable == Permutations(Clients)
=============================================================================
