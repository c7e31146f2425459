----------------------------- MODULE MCCaseFiles -----------------------------
(* CaseFiles for TLC: two threads of a program that is restarted once (its    *)
(* earlier run is the other program whose numbers it may meet), two clerks,   *)
(* officer 1, who may file a case but not close it, and an officer who may    *)
(* close a case but not file it.  A behaviour is about numbers, and then the   *)
(* clerks do nothing, or about officers, and then cases are opened by           *)
(* registerFIR alone: of numbers and assignments each reads of the other         *)
(* only which cases there are and whether they are closed.                       *)
EXTENDS CaseFiles, TLC

CONSTANTS p1, t1, t2, k1, k2, o1, o2

VARIABLE about

MCHome == t1 :> p1 @@ t2 :> p1
MCRank == o1 :> "SI" @@ o2 :> "DSP"

(* One officer, in two roles in the first case and in one in the second        *)
MCJobs ==
    {[case |-> 1, officer |-> o1, role |-> "IO"], [case |-> 1, officer |-> o1, role |-> "SIO"],
     [case |-> 2, officer |-> o1, role |-> "IO"]}

MCInit == FilesInit /\ about \in {"numbers", "officers"}

MCNext ==
    /\ UNCHANGED about
    /\ \/ about = "numbers" /\ FilesNext /\ UNCHANGED staff
       \/ about = "officers" /\ FilesNext /\ UNCHANGED <<fir_seq, call, runs>>

MCSpec == MCInit /\ [][MCNext]_<<filesVars, about>>

Symmetries == Permutations({k1, k2}) \cup Permutations({t1, t2})
=============================================================================
