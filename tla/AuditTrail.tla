------------------------------ MODULE AuditTrail ------------------------------
(***************************************************************************)
(* The life of SystemManager and of the audit subsystem's connection: a      *)
(* dedicated connection that is opened by init() or, once, by a query that    *)
(* finds it lost; set to read-only by a statement of its own, which may fail   *)
(* too; and closed by shutdown().  The database may go away and come back      *)
(* between any two of these steps; the client notices when it sends its next   *)
(* statement.  All calls come from one thread (audit_manager.h asks for that,  *)
(* and there is no lock).                                                       *)
(***************************************************************************)
EXTENDS FiniteSets

VARIABLES
    initialized,  \* of SystemManager; the facades are wired while it is set
    injected,     \* an adapter was injected for subsystem 3
    conninfo,     \* conninfo_ has been stored
    conn,         \* conn_: nullptr, or what PQstatus says of it
    backend,      \* the session at the other end, and whether it may write
    purpose,      \* the call that is under way
    step,         \* what it does next
    answer,       \* what the last call returned
    unguarded     \* history: a query was run in a session that may write

auditVars ==
    <<initialized, injected, conninfo, conn, backend, purpose, step, answer, unguarded>>

AuditInit ==
    /\ initialized = FALSE
    /\ injected = FALSE
    /\ conninfo = FALSE
    /\ conn = "null"
    /\ backend = "none"
    /\ purpose = "none"
    /\ step = "idle"
    /\ answer = "none"
    /\ unguarded = FALSE

-----------------------------------------------------------------------------
(* The five queries: all name the same columns of audit.Audit_Log, and some     *)
(* read tables of other schemas.                                                 *)

Queries == {"case_history", "officer_actions", "table_changes", "time_window", "suspicious"}

LogColumns ==
    {"audit_id", "table_name", "record_id", "action", "old_value", "new_value",
     "changed_by_user", "changed_by_officer_id", "changed_by_belt", "client_process_id",
     "client_ip", "changed_at"}
Schemas == {"public", "audit", "analytics"}

SelectCols ==
    {"audit_log_id", "table_name", "record_pk", "operation", "officer_id", "belt_number",
     "backend_pid", "client_addr", "old_values", "new_values", "changed_at"}

SchemasOf(q) ==
    CASE q = "case_history" -> {"audit", "subsystem2", "subsystem3"}
      [] q = "suspicious"   -> {"audit", "subsystem1", "subsystem2"}
      [] OTHER              -> {"audit"}

Readable(q) == SelectCols \subseteq LogColumns /\ SchemasOf(q) \subseteq Schemas

(* _executeAndMap; an empty result is NOT_FOUND, which detectSuspiciousActivity *)
(* turns into OK.                                                                *)
Executed(q) ==
    IF ~Readable(q) THEN {"DB_ERROR"}
    ELSE IF q = "suspicious" THEN {"OK"} ELSE {"OK", "NOT_FOUND"}

-----------------------------------------------------------------------------
(* Opening a connection, for init() and for a query.                            *)

AfterOpening == IF purpose = "init" THEN "wire" ELSE "run"

(* PQfinish; init() goes on with audit disabled, a query answers DB_ERROR        *)
GiveUp ==
    /\ conn' = "null" /\ backend' = "none"
    /\ IF purpose = "init"
       THEN step' = "wire" /\ UNCHANGED <<purpose, answer>>
       ELSE step' = "idle" /\ purpose' = "none" /\ answer' = "DB_ERROR"

Connect ==
    /\ step = "connect"
    /\ \/ /\ conninfo
          /\ conn' = "ok" /\ backend' = "writing"
          /\ step' = "set" /\ UNCHANGED <<purpose, answer>>
       \/ GiveUp
    /\ UNCHANGED <<initialized, injected, conninfo, unguarded>>

(* SET default_transaction_read_only = on, which needs the server and may be     *)
(* refused                                                                        *)
AfterRefusedSet_Unchecked == step' = AfterOpening /\ UNCHANGED <<conn, backend, purpose, answer>>
AfterRefusedSet == GiveUp

SetReadOnly ==
    /\ step = "set"
    /\ \/ /\ backend = "writing" /\ backend' = "reading"
          /\ step' = AfterOpening /\ UNCHANGED <<conn, purpose, answer>>
       \/ AfterRefusedSet
    /\ UNCHANGED <<initialized, injected, conninfo, unguarded>>

-----------------------------------------------------------------------------
(* SystemManager                                                                *)

InjectS3 ==
    /\ step = "idle"
    /\ IF initialized
       THEN answer' = "logic_error" /\ UNCHANGED injected
       ELSE answer' = "OK" /\ injected' = TRUE
    /\ UNCHANGED <<initialized, conninfo, conn, backend, purpose, step, unguarded>>

(* Up to initAudit, which stores the connection string unless it is empty.      *)
SystemInit ==
    /\ step = "idle" /\ ~initialized
    /\ injected' = TRUE  \* stage 1: the default adapter
    /\ purpose' = "init"
    /\ \/ conninfo' = TRUE /\ step' = "connect"
       \/ step' = "wire" /\ UNCHANGED conninfo
    /\ UNCHANGED <<initialized, conn, backend, answer, unguarded>>

(* Stage 5, whether or not the audit subsystem is connected                      *)
WireFacades ==
    /\ step = "wire"
    /\ initialized' = TRUE
    /\ answer' = "OK" /\ step' = "idle" /\ purpose' = "none"
    /\ UNCHANGED <<injected, conninfo, conn, backend, unguarded>>

SystemInitAgain ==  \* returns at once
    /\ step = "idle" /\ initialized
    /\ answer' = "OK"
    /\ UNCHANGED <<initialized, injected, conninfo, conn, backend, purpose, step, unguarded>>

SystemShutdown ==
    /\ step = "idle" /\ initialized
    /\ initialized' = FALSE
    /\ injected' = FALSE
    /\ conn' = "null" /\ backend' = "none"
    /\ answer' = "none"
    /\ UNCHANGED <<conninfo, purpose, step, unguarded>>

ServerGoes ==
    /\ backend \in {"reading", "writing"}
    /\ backend' = "gone"
    /\ UNCHANGED <<initialized, injected, conninfo, conn, purpose, step, answer, unguarded>>

-----------------------------------------------------------------------------
(* A query.  ensureConnected finds the connection as libpq last saw it: one that *)
(* is lost is finished before the one attempt to open another.                   *)

Reconnects_Always == {"bad", "null"}
Reconnects == {"bad"}

BeginQuery(q) ==
    /\ step = "idle" /\ initialized
    /\ \/ conn = "ok" /\ step' = "run" /\ purpose' = q /\ UNCHANGED <<conn, backend, answer>>
       \/ /\ conn \in Reconnects
          /\ step' = "connect" /\ purpose' = q
          /\ conn' = "null" /\ backend' = "none" /\ UNCHANGED answer
       \/ /\ conn \notin Reconnects \cup {"ok"}
          /\ answer' = "DB_ERROR" /\ UNCHANGED <<conn, backend, purpose, step>>
    /\ UNCHANGED <<initialized, injected, conninfo, unguarded>>

RunStatement ==
    /\ step = "run"
    /\ step' = "idle" /\ purpose' = "none"
    /\ IF backend = "gone"
       THEN conn' = "bad" /\ answer' = "DB_ERROR" /\ UNCHANGED unguarded
       ELSE /\ answer' \in Executed(purpose)
            /\ unguarded' = (unguarded \/ backend = "writing")
            /\ UNCHANGED conn
    /\ UNCHANGED <<initialized, injected, conninfo, backend>>

GetAuditChangeHistory    == BeginQuery("case_history")
GetAuditOfficerActions   == BeginQuery("officer_actions")
GetAuditTableChanges     == BeginQuery("table_changes")
AuditQueryByTimeWindow   == BeginQuery("time_window")
DetectSuspiciousActivity == BeginQuery("suspicious")

AuditNext ==
    \/ InjectS3
    \/ SystemInit \/ WireFacades \/ SystemInitAgain \/ SystemShutdown
    \/ ServerGoes
    \/ Connect \/ SetReadOnly
    \/ GetAuditChangeHistory \/ GetAuditOfficerActions \/ GetAuditTableChanges
    \/ AuditQueryByTimeWindow \/ DetectSuspiciousActivity
    \/ RunStatement

AuditSpec == AuditInit /\ [][AuditNext]_auditVars

-----------------------------------------------------------------------------
(* Types; there is a session at the other end just if there is a connection,    *)
(* and no connection after shutdown.                                             *)
AuditTypeOK ==
    /\ initialized \in BOOLEAN /\ injected \in BOOLEAN /\ conninfo \in BOOLEAN
    /\ conn \in {"null", "ok", "bad"}
    /\ backend \in {"none", "reading", "writing", "gone"}
    /\ purpose \in {"none", "init"} \cup Queries
    /\ step \in {"idle", "connect", "set", "run", "wire"}
    /\ step = "idle" <=> purpose = "none"
    /\ conn = "null" <=> backend = "none"
    /\ conn = "bad" => backend = "gone"
    /\ conn # "null" => conninfo /\ (initialized \/ purpose = "init")
    /\ answer \in {"none", "OK", "NOT_FOUND", "DB_ERROR", "logic_error"}
    /\ unguarded \in BOOLEAN

(* "Read-only guarantee": no query of the audit subsystem is run in a session    *)
(* that may write, although each session begins as one that may, the statement    *)
(* that changes it may be refused or lost, and init() and any query may be the    *)
(* one to open it.                                                                 *)
StatementsAreReadOnly == ~unguarded

(* One attempt that fails is the last: without a connection between two calls,   *)
(* every query is refused without an attempt, and init() called again changes     *)
(* nothing, until the system is shut down, also when the database has been back    *)
(* for long.                                                                        *)
Blind == initialized /\ step = "idle" /\ conn = "null"
BlindUntilShutdown == [][Blind /\ initialized' => Blind']_auditVars
=============================================================================
