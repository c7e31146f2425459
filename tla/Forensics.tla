------------------------------ MODULE Forensics ------------------------------
(***************************************************************************)
(* Requests to the forensic laboratory and the evidence that is sent with   *)
(* them: ForensicManager, the statements of ForensicRepository, and the two *)
(* triggers that keep evidence_status in step.  An operation looks first    *)
(* and writes later, in statements that are transactions of their own, and  *)
(* several programs do so at the same time.                                  *)
(*                                                                         *)
(* _authAndConn leaves db_mutex locked when it succeeds (module DbLocks), so *)
(* a program makes one forensic call until it is started again, and that     *)
(* call hangs when the duty cache has to ask the database.                    *)
(*                                                                         *)
(* The statements name columns that db/schema does not create                 *)
(* (linked_at, examination_start_date, report_ready_date), and the duty cache *)
(* reads officers.status as if it were a truth value.  schema tells the       *)
(* tables as they are shipped from tables that these statements fit.          *)
(***************************************************************************)
EXTENDS FiniteSets

CONSTANTS
    Programs,          \* running programs that share the database
    Requests,          \* rows of Forensic_Lab_Requests
    Items,             \* rows of Evidence
    CaseOf,            \* the case of each request and each item
    Schemas,           \* the schemas that are looked at
    InitialEvidence,   \* statuses of items before the first link
    Nothing            \* no request, no item

Statuses == {"REQUESTED", "RECEIVED_BY_LAB", "UNDER_EXAMINATION", "REPORT_READY",
             "REPORT_DELIVERED", "CONTESTED"}
EvidenceStatuses == {"RECEIVED", "SEALED", "SENT_TO_LAB", "RETURNED_FROM_LAB",
                     "PRODUCED_IN_COURT", "DISPOSED"}
Linkable == {"RECEIVED", "SEALED", "RETURNED_FROM_LAB"}

ASSUME ForensicsAssumption ==
    /\ DOMAIN CaseOf = Requests \cup Items
    /\ Schemas \subseteq {"shipped", "expected"}
    /\ InitialEvidence \subseteq EvidenceStatuses
    /\ Nothing \notin Requests \cup Items

VARIABLES
    schema,      \* the tables the programs meet
    status,      \* request_status of each request
    evidence,    \* evidence_status of each item
    links,       \* rows of Forensic_Request_Evidence
    db_mutex,    \* whether each program still has it, "free" or "kept"
    duty,        \* what its duty cache says of the officer, if it is fresh
    lab_call,    \* the forensic call each program is executing
    overlapped,  \* history: requests that two calls were about at the same time
    reported     \* history: requests whose report a program has delivered

labRows == <<status, evidence, links>>
history == <<overlapped, reported>>
labVars == <<schema, status, evidence, links, db_mutex, duty, lab_call, overlapped, reported>>

(* A call is at "duty", about to ask the duty cache; at "read", about to look *)
(* at the request; at "item", about to look at the evidence; at "fields",      *)
(* about to write what goes with the new status; at "status" or "deliver",     *)
(* about to write the status; at "link"; or "hung".                             *)
NoCall  == [op |-> "none", at |-> "idle", request |-> Nothing, item |-> Nothing]
Ops     == {"create", "link", "receipt", "start", "findings", "amend", "contest"}

Goal(op) ==  \* the status an operation asks _validateTransition about
    CASE op = "receipt"  -> "RECEIVED_BY_LAB"
      [] op = "start"    -> "UNDER_EXAMINATION"
      [] op = "findings" -> "REPORT_READY"
      [] op = "contest"  -> "CONTESTED"

ForensicsInit ==
    /\ schema \in Schemas
    /\ status \in [Requests -> Statuses]
    /\ links \in SUBSET {l \in Requests \X Items : CaseOf[l[1]] = CaseOf[l[2]]}
    /\ \E first \in [Items -> InitialEvidence] :
          evidence = [i \in Items |-> IF \E r \in Requests : <<r, i>> \in links
                                      THEN "SENT_TO_LAB" ELSE first[i]]
    /\ db_mutex = [p \in Programs |-> "free"]
    /\ duty = [p \in Programs |-> "none"]
    /\ lab_call = [p \in Programs |-> NoCall]
    /\ overlapped = {} /\ reported = {}

-----------------------------------------------------------------------------
(* The duty cache.  It is asked by the facade, which takes db_mutex for the   *)
(* statement alone, and an answer is fresh for a while.  "true", "t" and "1"   *)
(* mean that the officer is on duty; officers.status as shipped is a word      *)
(* such as 'ACTIVE'.                                                           *)

DutyAnswers_AnyWord == {"on", "off"}
DutyAnswers == IF schema = "expected" THEN {"on", "off"} ELSE {"off"}

AskDuty(p) ==
    /\ db_mutex[p] = "free" /\ duty[p] = "none"
    /\ duty' \in {[duty EXCEPT ![p] = d] : d \in DutyAnswers}
    /\ UNCHANGED <<schema, labRows, db_mutex, lab_call, history>>

DutyGoesStale(p) ==  \* later than that no call of the program asks again
    /\ duty[p] # "none" /\ (db_mutex[p] = "free" \/ lab_call[p].at = "duty")
    /\ duty' = [duty EXCEPT ![p] = "none"]
    /\ UNCHANGED <<schema, labRows, db_mutex, lab_call, history>>

-----------------------------------------------------------------------------
(* The beginning of every call, _authAndConn and the duty check.             *)

At(p, place) == lab_call[p].at = place
Goes(p, place) == lab_call' = [lab_call EXCEPT ![p].at = place]
Returns(p) == lab_call' = [lab_call EXCEPT ![p] = NoCall]

TurnedAway(p) ==  \* no connection, or the token is not valid: db_mutex is released
    /\ db_mutex[p] = "free"
    /\ UNCHANGED labVars

(* The three queries end with their SELECT, whatever it answers.             *)
Query(p) ==
    /\ db_mutex[p] = "free"
    /\ db_mutex' = [db_mutex EXCEPT ![p] = "kept"]
    /\ UNCHANGED <<schema, labRows, duty, lab_call, history>>

Enter(p, op, r, i) ==
    /\ db_mutex[p] = "free"
    /\ (i # Nothing) <=> (op = "link")
    /\ db_mutex' = [db_mutex EXCEPT ![p] = "kept"]
    /\ lab_call' = [lab_call EXCEPT ![p] = [op |-> op, at |-> "duty", request |-> r, item |-> i]]
    /\ UNCHANGED <<schema, labRows, duty, history>>

(* The cache takes db_mutex for a query of its own when it has no fresh       *)
(* answer, and the call already holds it.                                      *)
CheckDuty(p) ==
    /\ At(p, "duty")
    /\ \/ duty[p] = "on" /\ Goes(p, "read")
       \/ duty[p] = "off" /\ Returns(p)
       \/ duty[p] = "none" /\ lab_call' = [lab_call EXCEPT ![p] = [NoCall EXCEPT !.at = "hung"]]
    /\ UNCHANGED <<schema, labRows, db_mutex, duty, history>>

(* createForensicRequest and recordAmendment compare the rank with an answer   *)
(* that nothing sets: rank_ok is false, so they go no further, and no request   *)
(* is ever created or amended by the program.                                  *)
CheckRank(p, op) ==
    /\ At(p, "read") /\ lab_call[p].op = op
    /\ Returns(p)
    /\ UNCHANGED <<schema, labRows, db_mutex, duty, history>>

CreateForensicRequest(p) == CheckRank(p, "create")
RecordAmendment(p)       == CheckRank(p, "amend")

-----------------------------------------------------------------------------
(* Looking.  Inputs that are empty or malformed, dates in the future or before *)
(* the receipt, and statements that fail end the call.                         *)

GivesUp(p) ==
    /\ lab_call[p].at \in {"read", "item", "fields", "status", "deliver", "link"}
    /\ Returns(p)
    /\ UNCHANGED <<schema, labRows, db_mutex, duty, history>>

Edges == {<<"REQUESTED", "RECEIVED_BY_LAB">>, <<"RECEIVED_BY_LAB", "UNDER_EXAMINATION">>,
          <<"UNDER_EXAMINATION", "REPORT_READY">>, <<"REPORT_READY", "REPORT_DELIVERED">>,
          <<"REPORT_DELIVERED", "CONTESTED">>}

ValidateTransition_Anything(from, to) == TRUE
ValidateTransition(from, to) == <<from, to>> \in Edges

InFlight(r) == {q \in Programs : lab_call[q].request = r /\ lab_call[q].at \notin {"duty", "read"}}

Looks(r) == overlapped' = IF InFlight(r) = {} THEN overlapped ELSE overlapped \cup {r}

ReadStatus(p, op) ==
    LET r == lab_call[p].request IN
    /\ At(p, "read") /\ lab_call[p].op = op
    /\ ValidateTransition(status[r], Goal(op))
    /\ Goes(p, "fields")
    /\ Looks(r)
    /\ UNCHANGED <<schema, labRows, db_mutex, duty, reported>>

RecordLabReceipt(p)       == ReadStatus(p, "receipt")
RecordExaminationStart(p) == ReadStatus(p, "start")
RecordFindings(p)         == ReadStatus(p, "findings")
ContestReport(p)          == ReadStatus(p, "contest")

TakesEvidence_Always(r) == TRUE
TakesEvidence(r) == status[r] \in {"REQUESTED", "RECEIVED_BY_LAB"}

LinkEvidence(p) ==
    LET r == lab_call[p].request IN
    /\ At(p, "read") /\ lab_call[p].op = "link"
    /\ TakesEvidence(r)
    /\ Goes(p, "item")
    /\ Looks(r)
    /\ UNCHANGED <<schema, labRows, db_mutex, duty, reported>>

(* No row is ever marked as deleted.                                          *)
MayBeSent(i, r) == evidence[i] \in Linkable /\ CaseOf[i] = CaseOf[r]

ReadItem(p) ==
    /\ At(p, "item")
    /\ MayBeSent(lab_call[p].item, lab_call[p].request)
    /\ Goes(p, "link")
    /\ UNCHANGED <<schema, labRows, db_mutex, duty, history>>

-----------------------------------------------------------------------------
(* Writing.  A statement that is committed may still be reported as failed,    *)
(* and then the call ends there.                                               *)

Fits(op) == schema = "expected" \/ op \in {"receipt", "contest"}

WriteFields(p) ==  \* received_date; the start; the findings; the contest
    /\ At(p, "fields") /\ Fits(lab_call[p].op)
    /\ Goes(p, "status")
    /\ UNCHANGED <<schema, labRows, db_mutex, duty, history>>

(* ON CONFLICT DO NOTHING, and the trigger on a row that is inserted          *)
InsertLink(p) ==
    LET r == lab_call[p].request  i == lab_call[p].item IN
    /\ At(p, "link") /\ Fits("link")
    /\ links' = links \cup {<<r, i>>}
    /\ evidence' = IF <<r, i>> \in links THEN evidence
                   ELSE [evidence EXCEPT ![i] = "SENT_TO_LAB"]
    /\ Returns(p)
    /\ UNCHANGED <<schema, status, db_mutex, duty, history>>

(* updateStatus does not look at the status that it overwrites.               *)
WriteStatus(p) ==
    LET r == lab_call[p].request  op == lab_call[p].op IN
    /\ At(p, "status")
    /\ status' = [status EXCEPT ![r] = Goal(op)]
    /\ \/ op = "findings" /\ Goes(p, "deliver")
       \/ Returns(p)
    /\ UNCHANGED <<schema, evidence, links, db_mutex, duty, history>>

(* sync_evidence_returned_from_lab                                             *)
Returned(r) ==
    [i \in Items |-> IF <<r, i>> \in links THEN "RETURNED_FROM_LAB" ELSE evidence[i]]

Deliver(p) ==
    LET r == lab_call[p].request IN
    /\ At(p, "deliver")
    /\ status' = [status EXCEPT ![r] = "REPORT_DELIVERED"]
    /\ evidence' = IF status[r] # "REPORT_DELIVERED" THEN Returned(r) ELSE evidence
    /\ reported' = reported \cup {r}
    /\ Returns(p)
    /\ UNCHANGED <<schema, links, db_mutex, duty, overlapped>>

-----------------------------------------------------------------------------
(* A program ends, wherever its call is, and is started again.                *)
Restart(p) ==
    /\ db_mutex[p] = "kept" \/ duty[p] # "none"
    /\ db_mutex' = [db_mutex EXCEPT ![p] = "free"]
    /\ duty' = [duty EXCEPT ![p] = "none"]
    /\ Returns(p)
    /\ UNCHANGED <<schema, labRows, history>>

ForensicsStep(p) ==
    \/ AskDuty(p) \/ DutyGoesStale(p)
    \/ TurnedAway(p) \/ Query(p)
    \/ \E op \in Ops, r \in Requests, i \in Items \cup {Nothing} : Enter(p, op, r, i)
    \/ CheckDuty(p) \/ GivesUp(p)
    \/ CreateForensicRequest(p) \/ RecordAmendment(p)
    \/ RecordLabReceipt(p) \/ RecordExaminationStart(p) \/ RecordFindings(p)
    \/ ContestReport(p) \/ LinkEvidence(p) \/ ReadItem(p)
    \/ WriteFields(p) \/ InsertLink(p) \/ WriteStatus(p) \/ Deliver(p)
    \/ Restart(p)

ForensicsNext == \E p \in Programs : ForensicsStep(p)

ForensicsSpec == ForensicsInit /\ [][ForensicsNext]_labVars

-----------------------------------------------------------------------------
Places == {"idle", "duty", "hung", "read", "item", "fields", "status", "deliver", "link"}

(* Types; evidence is only ever linked to requests of its own case.           *)
ForensicsTypeOK ==
    /\ schema \in Schemas
    /\ status \in [Requests -> Statuses]
    /\ evidence \in [Items -> EvidenceStatuses]
    /\ links \subseteq Requests \X Items
    /\ \A l \in links : CaseOf[l[1]] = CaseOf[l[2]]
    /\ db_mutex \in [Programs -> {"free", "kept"}]
    /\ duty \in [Programs -> {"none", "on", "off"}]
    /\ lab_call \in [Programs -> [op : Ops \cup {"none"}, at : Places,
                              request : Requests \cup {Nothing}, item : Items \cup {Nothing}]]
    /\ \A p \in Programs : lab_call[p] # NoCall => db_mutex[p] = "kept"
    /\ overlapped \subseteq Requests
    /\ reported \subseteq Requests

(* "Legal edges only. No skipping. CONTESTED is terminal."  The status is read *)
(* in one statement and written in another, so that holds of a request as long *)
(* as no call has looked at it while another one was between the two: then      *)
(* every change, also after calls that failed or died half-way, is one edge.    *)
EdgesWhenAlone ==
    [][\A r \in Requests :
          status'[r] # status[r] /\ r \notin overlapped => <<status[r], status'[r]>> \in Edges]_status

(* Evidence that one request alone has sent to the laboratory is at the         *)
(* laboratory until the report of that request is delivered, and is back from    *)
(* it when a program has delivered the report, unless calls about that request   *)
(* have overlapped: then a link may come after the delivery and is never undone. *)
EvidenceFollowsReport ==
    \A r \in Requests \ overlapped, i \in Items :
       {q \in Requests : <<q, i>> \in links} = {r} =>
          evidence[i] = IF r \in reported THEN "RETURNED_FROM_LAB" ELSE "SENT_TO_LAB"

(* With the tables as they are shipped no forensic call changes anything: the   *)
(* duty cache says of every officer that he is off duty, the two operations      *)
(* that could write stop there, and no other statement would be accepted.        *)
NothingMovesAsShipped ==
    [][schema = "shipped" => UNCHANGED labRows]_labVars
=============================================================================
