------------------------------- MODULE Parties -------------------------------
(***************************************************************************)
(* The people and vehicles of the cases, as CaseFacade writes them: one      *)
(* statement for each operation, on the caller's own connection.  A statement *)
(* may fail or be refused, and the reply to one that was committed may be     *)
(* lost; a caller who was told of an error may call again.                    *)
(***************************************************************************)
EXTENDS Integers, FiniteSets

CONSTANTS
    Persons,        \* CNICs in the table Persons
    Vehicles,
    Roles,          \* values of vehicle_role_enum
    Recorders,      \* officers
    FirstRecorder,  \* the officer whose officer_id is 1
    NoRecorder,     \* no valid session, or NULL in a column
    MaxParties      \* bound: rows of Victims, Witnesses and Accused together

ASSUME PartiesAssumption ==
    /\ FirstRecorder \in Recorders
    /\ NoRecorder \notin Recorders
    /\ MaxParties \in Nat

VARIABLES
    parties,       \* rows of Victims, Witnesses and Accused
    associations,  \* rows of Accused_Associations
    vehicle_cases  \* rows of Vehicle_cases (of one case)

partyVars == <<parties, associations, vehicle_cases>>

PartiesInit ==
    /\ parties = {}
    /\ associations = {}
    /\ vehicle_cases = {}

Acting(s) == IF s = NoRecorder THEN FirstRecorder ELSE s

Of(kind) == {r \in parties : r.kind = kind}

(* The INSERT with its references; nothing makes a person unique in a case.   *)
Insert(kind, person, by, recorded_by) ==
    /\ Cardinality(parties) < MaxParties
    /\ parties' = parties \cup
          {[id |-> Cardinality(parties) + 1, kind |-> kind, person |-> person,
            added_by |-> by, recorded_by |-> recorded_by]}
    /\ UNCHANGED <<associations, vehicle_cases>>

AddVictim(s, person)  == Insert("victim", person, Acting(s), NoRecorder)
AddAccused(s, person) == Insert("accused", person, Acting(s), NoRecorder)

(* chk_statement_exists: an empty text counts as none                         *)
AddWitness(s, person, statement, file_path) ==
    /\ statement \/ file_path
    /\ Insert("witness", person, Acting(s), Acting(s))

(* The caller goes into recorded_by, the column that named the officer who      *)
(* took the statement.                                                           *)
UpdateWitnessProtection(s, w) ==
    /\ parties' = (parties \ {w}) \cup {[w EXCEPT !.recorded_by = Acting(s)]}
    /\ UNCHANGED <<associations, vehicle_cases>>

LinkAccusedAssociation(a, b) ==
    /\ a # b                                   \* chk_no_self_association
    /\ <<a.id, b.id>> \notin associations      \* the primary key
    /\ associations' = associations \cup {<<a.id, b.id>>}
    /\ UNCHANGED <<parties, vehicle_cases>>

LinkVehicleToCase(s, v, role) ==
    /\ \A l \in vehicle_cases : l.vehicle # v \/ l.role # role   \* uq_vehicle_case_role
    /\ vehicle_cases' = vehicle_cases \cup {[vehicle |-> v, role |-> role, added_by |-> Acting(s)]}
    /\ UNCHANGED <<parties, associations>>

(* A statement that fails or is refused: INVALID_INPUT, ALREADY_EXISTS,        *)
(* FOREIGN_KEY_VIOLATION, NOT_FOUND or DB_ERROR; and the four lists.           *)
PartiesUnchanged == UNCHANGED partyVars

GetVictimsByCase  == PartiesUnchanged
GetWitnessesByCase == PartiesUnchanged
GetAccusedByCase  == PartiesUnchanged
GetVehiclesByCase == PartiesUnchanged

PartiesNext ==
    \/ \E s \in Recorders \cup {NoRecorder}, person \in Persons :
          \/ AddVictim(s, person)
          \/ AddAccused(s, person)
          \/ \E statement, file_path \in BOOLEAN : AddWitness(s, person, statement, file_path)
    \/ \E s \in Recorders \cup {NoRecorder}, w \in Of("witness") : UpdateWitnessProtection(s, w)
    \/ \E a, b \in Of("accused") : LinkAccusedAssociation(a, b)
    \/ \E s \in Recorders \cup {NoRecorder}, v \in Vehicles, role \in Roles :
          LinkVehicleToCase(s, v, role)
    \/ GetVictimsByCase
    \/ GetWitnessesByCase
    \/ GetAccusedByCase
    \/ GetVehiclesByCase

PartiesSpec == PartiesInit /\ [][PartiesNext]_partyVars

-----------------------------------------------------------------------------
(* Types; associations are of accused, and no vehicle has a role twice.       *)
PartiesTypeOK ==
    /\ parties \subseteq
          [id : 1..MaxParties, kind : {"victim", "witness", "accused"}, person : Persons,
           added_by : Recorders, recorded_by : Recorders \cup {NoRecorder}]
    /\ \A r, q \in parties : r.id = q.id => r = q
    /\ associations \subseteq {<<a.id, b.id>> : a, b \in Of("accused")}
    /\ vehicle_cases \subseteq [vehicle : Vehicles, role : Roles, added_by : Recorders]
    /\ \A l, m \in vehicle_cases : l.vehicle = m.vehicle /\ l.role = m.role => l = m
=============================================================================
