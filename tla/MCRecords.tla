------------------------------- MODULE MCRecords -------------------------------
(* Three components that share no variable: Exhibits, Parties and AuditTrail.   *)
(* A behaviour is one of one of them, while the others stay as they are: what    *)
(* is said of each is said of it alone, so nothing is lost.  Two threads, two     *)
(* files, three rows of evidence, two charge sheets and one restart; two persons, *)
(* two officers and one vehicle in two roles, three parties.                      *)
EXTENDS Exhibits, Parties, AuditTrail, TLC

CONSTANTS t1, t2, f1, f2, q1, q2, v1, r1, r2, o1, o2

VARIABLE component

RecordsInit ==
    /\ ExhibitsInit /\ PartiesInit /\ AuditInit
    /\ component \in {"exhibits", "parties", "audit"}

RecordsNext ==
    /\ UNCHANGED component
    /\ \/ component = "exhibits" /\ ExhibitsNext /\ UNCHANGED <<partyVars, auditVars>>
       \/ component = "parties" /\ PartiesNext /\ UNCHANGED <<exhibitVars, auditVars>>
       \/ component = "audit" /\ AuditNext /\ UNCHANGED <<exhibitVars, partyVars>>

RecordsSpec == RecordsInit /\ [][RecordsNext]_<<exhibitVars, partyVars, auditVars, component>>

(* The types of all three *)
RecordsTypeOK == ExhibitsTypeOK /\ PartiesTypeOK /\ AuditTypeOK

Symmetries ==
    Permutations({t1, t2}) \cup Permutations({f1, f2}) \cup Permutations({q1, q2})
      \cup Permutations({r1, r2})
=============================================================================
