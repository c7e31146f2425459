------------------------------ MODULE MCDbLocks ------------------------------
(* DbLocks for TLC: three threads are a reader, a writer and the holder of   *)
(* db_mutex; the state is per token, so one token is enough.                 *)
EXTENDS DbLocks

=============================================================================
