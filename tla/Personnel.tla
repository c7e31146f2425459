------------------------------ MODULE Personnel ------------------------------
(***************************************************************************)
(* The statements of subsystem 1 (duties, patrol routes, officers, ranks and *)
(* deployments) against the tables they are about.  Each is sent as a text    *)
(* over the connection of the program; the database refuses it before it      *)
(* looks at a row if it names a column that its table does not have, or gives *)
(* a number for a column whose type is an enumeration of names.                *)
(***************************************************************************)
EXTENDS FiniteSets

Columns ==
    [Duty_Roster |->
        {"duty_id", "duty_number", "officer_id", "station_id", "patrol_route_id", "shift_type",
         "duty_date", "scheduled_start", "scheduled_end", "actual_start", "actual_end",
         "duty_status", "absence_reason", "assigned_by"},
     Patrol_Routes |->
        {"route_id", "beat_code", "route_name", "area_description", "landmarks", "station_id",
         "is_active"},
     Officers |->
        {"officer_id", "belt_number", "cnic", "qualification", "joining_date", "joining_rank",
         "current_rank", "retirement_date", "bps_scale", "station_id", "status"},
     Officer_Rank_History |->
        {"history_id", "officer_id", "old_rank", "new_rank", "old_belt_number",
         "new_belt_number", "promotion_type", "effective_date", "order_date", "promoted_by"},
     Officer_Deployments |->
        {"deployment_id", "officer_id", "from_station_id", "to_station_id", "deployment_reason",
         "order_number", "deployed_from", "deployed_until", "deployed_by", "is_active"}]

(* Columns of these tables that are enumerations of names                    *)
Enums == {"shift_type", "duty_status", "joining_rank", "current_rank", "old_rank", "new_rank",
          "status"}

(* A statement: the columns it names, those among them that it gives a number *)
(* or the text of one, and whether it writes.                                  *)
Select(name, table, columns, numbers) ==
    [name |-> name, table |-> table, columns |-> columns, numbers |-> numbers, writes |-> FALSE]
Update(name, table, columns, numbers) ==
    [Select(name, table, columns, numbers) EXCEPT !.writes = TRUE]

DutyWrites ==
    {Update("scheduleDuty", "Duty_Roster",
            {"duty_id", "officer_id", "station_id", "patrol_route_id", "shift_type", "duty_date",
             "scheduled_start", "scheduled_end", "status"}, {"shift_type"}),
     Update("markDutyStart", "Duty_Roster", {"duty_id", "status", "actual_start"}, {}),
     Update("markDutyEnd", "Duty_Roster", {"duty_id", "status", "actual_end"}, {}),
     Update("updateDutyStatus", "Duty_Roster", {"duty_id", "status", "absence_reason"}, {"status"}),
     Update("cancelDuty", "Duty_Roster", {"duty_id", "status"}, {})}

RosterOf(name, more) ==
    Select(name, "Duty_Roster", {"duty_id", "officer_id", "status", "duty_date"} \cup more, {})

RosterReads == {RosterOf("getDutyRoster", {"station_id"})}

DutyReads ==
    {RosterOf("getActiveDuties", {"station_id"}),
     RosterOf("getOfficerDutyHistory", {"scheduled_start", "scheduled_end"})}

RouteStatements ==
    {Update("createPatrolRoute", "Patrol_Routes",
            {"route_id", "station_id", "beat_code", "route_name", "area_description", "active"}, {}),
     Update("deactivatePatrolRoute", "Patrol_Routes", {"route_id", "active"}, {}),
     Select("getPatrolRoutesByStation", "Patrol_Routes",
           {"route_id", "station_id", "beat_code", "route_name", "active"}, {})}

OfficersBy(name, key, numbers) ==
    Select(name, "Officers",
          {"officer_id", "belt_number", "cnic", "current_rank", "status", key}, numbers)

OfficerById == {OfficersBy("getOfficerById", "officer_id", {})}

OfficerReads ==
    {OfficersBy("getOfficerByCnic", "cnic", {}),
     OfficersBy("getOfficersByStation", "station_id", {}),
     OfficersBy("getOfficersByStatus", "station_id", {"status"})}

OfficerWrites_ByName ==
    {Update("updateOfficerStatus", "Officers", {"officer_id", "status"}, {})}
OfficerWrites ==
    {Update("updateOfficerStatus", "Officers", {"officer_id", "status"}, {"status"}),
     Update("promoteOfficer", "Officer_Rank_History",
            {"history_id", "officer_id", "new_rank", "belt_number", "promotion_type",
             "effective_date", "order_date"}, {"new_rank"})}

RankHistory ==
    {Select("getOfficerRankHistory", "Officer_Rank_History",
           {"history_id", "officer_id", "new_rank", "effective_date"}, {})}

DeploymentStatements ==
    {Update("deployOfficer", "Officer_Deployments",
            {"deployment_id", "officer_id", "station_id", "reason", "order_number",
             "deployed_from", "deployed_until", "active"}, {}),
     Update("endDeployment", "Officer_Deployments", {"deployment_id", "active"}, {}),
     Select("getOfficerDeployments", "Officer_Deployments",
           {"deployment_id", "officer_id", "station_id", "active"}, {})}

(* What the duty part and the personnel part of the adapter hand over        *)
DutyStatements == DutyWrites \cup RosterReads \cup DutyReads \cup RouteStatements
PersonnelStatements ==
    OfficerById \cup OfficerReads \cup OfficerWrites \cup RankHistory \cup DeploymentStatements

(* What PostgreSQL accepts, whatever the rows are                            *)
Understood(q) ==
    /\ q.columns \subseteq Columns[q.table]
    /\ q.numbers \cap Enums = {}

(* What a call comes to: the answer, and whether a row has changed.  The name *)
(* of a rank is read with std::stoi: a row of Officers is never returned, and  *)
(* only a list without rows is.                                                *)
Unchanged(codes) == {[code |-> c, wrote |-> FALSE] : c \in codes}

ReadEffects(q) ==
    CASE ~Understood(q) -> {}
      [] Understood(q) /\ "current_rank" \notin q.columns -> Unchanged({"OK"})
      [] Understood(q) /\ "current_rank" \in q.columns ->
            Unchanged(IF q.name = "getOfficersByStation" THEN {"OK", "throws"} ELSE {"throws"})

WriteEffects(q) == IF Understood(q) THEN {[code |-> "OK", wrote |-> TRUE]} ELSE {}

(* Any call may also fail: AUTH_FAILED without a session, NOT_FOUND, DB_ERROR  *)
Effects(statements) ==
    Unchanged({"error"})
      \cup UNION {IF q.writes THEN WriteEffects(q) ELSE ReadEffects(q) : q \in statements}

DutyEffects      == Effects(DutyStatements)
PersonnelEffects == Effects(PersonnelStatements)
=============================================================================
