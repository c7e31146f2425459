----------------------------- MODULE MCNumbering -----------------------------
(* Numbering for TLC.  The cfg gives one digit instead of four: a scope is   *)
(* full after nine records, so that both its beginning and its end are       *)
(* within reach, and no other bound is needed.                               *)
EXTENDS Numbering

=============================================================================
