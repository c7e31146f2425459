------------------------------ MODULE CaseFiles ------------------------------
(***************************************************************************)
(* The case files: the table Cases with its triggers, the log of status    *)
(* changes, the officers assigned to a case, and the two ways a program    *)
(* opens a file, CaseFacade::registerCase and subsystem 2's registerFIR.    *)
(* Every statement is a transaction of its own and one action.  Several    *)
(* programs share the database, each of them calls from several threads,    *)
(* and a program that is restarted counts its FIR numbers from 1 again.     *)
(*                                                                         *)
(* A statement may fail before it runs, and the reply to one that was       *)
(* committed may be lost: the caller is told DB_ERROR both times.  Officers *)
(* are assigned by other clients of the database (the data generator; the   *)
(* program's own assignOfficerToCase is a stub), in transactions of many     *)
(* rows, each of which is checked when it is inserted and seen by others     *)
(* when all of them are committed.                                           *)
(***************************************************************************)
EXTENDS Integers, FiniteSets, Sequences, Personnel

CONSTANTS
    Programs,        \* running programs that share the database
    Callers,         \* their threads
    Home,            \* the program of each thread
    Clerks,          \* other clients, which assign officers
    Officers,
    Rank,            \* current_rank of each officer
    FirstOfficer,    \* the officer whose officer_id is 1
    Jobs,            \* rows of Case_Officers that clerks insert: case, officer, role
    Nobody,          \* no officer: officerId <= 0, or NULL in a column
    Existing,        \* statuses of the case that is there at the start
    CaseIds,         \* values of case_id, used in ascending order
    Times,           \* values of filed_time
    CaseLimit,       \* 10 in validate_officer_case_limit
    MaxSeq,          \* bound: FIR numbers one incarnation draws
    MaxRuns          \* bound: restarts of a program

Ranks   == {"CONSTABLE", "HEAD_CONSTABLE", "ASI", "SI", "INSPECTOR", "DSP", "SP", "SSP",
            "DIG", "ADDL_IG", "IGP"}
Filers  == {"ASI", "SI", "INSPECTOR"}
Seniors == {"INSPECTOR", "DSP", "SP", "SSP", "DIG", "ADDL_IG", "IGP"}
Statuses == {"REGISTERED", "UNDER_INVESTIGATION", "EVIDENCE_COLLECTED", "PENDING_TRIAL",
             "CLOSED", "REOPENED"}

ASSUME CaseFilesAssumption ==
    /\ IsFiniteSet(Clerks) /\ Clerks # {}
    /\ Home \in [Callers -> Programs]
    /\ Rank \in [Officers -> Ranks]
    /\ FirstOfficer \in Officers
    /\ Nobody \notin Officers
    /\ Existing \subseteq Statuses
    /\ CaseIds \subseteq Nat
    /\ \A j \in Jobs : j.case \in CaseIds /\ j.officer \in Officers
    /\ CaseLimit \in Nat \ {0}
    /\ MaxSeq \in Nat /\ MaxRuns \in Nat

VARIABLES
    cases,      \* the rows of Cases that exist, by case_id
    log,        \* Case_Status_Log of each case, in order
    assigned,   \* rows of Case_Officers
    relieved,   \* those with a relieved_at
    fit,        \* of the officers that clerks assign: whose status and duty today allow it
    checked,    \* the row of each clerk that has passed the triggers and is not yet inserted
    pending,    \* the rows each clerk has inserted and not yet committed
    fir_seq,    \* the static counter of each program
    call,       \* the INSERT of registerCase each thread is about to execute
    runs,       \* history: restarts of each program
    maker,      \* history: who drew the number of each case
    reclosed,   \* history: cases closed again when they were CLOSED
    last        \* history: the answer of the call that has just returned

fileVars == <<cases, log, maker, reclosed>>
staff    == <<assigned, relieved, checked, pending, fit>>
filesVars == <<cases, log, assigned, relieved, checked, pending, fit, fir_seq, call, runs, maker, reclosed, last>>

NoCall  == [fir |-> <<>>, by |-> Nobody]
Silent  == [code |-> "none", fir |-> <<>>, maker |-> <<>>]

Open(c)   == c \in DOMAIN cases
(* The next value of the BIGSERIAL; the gaps that refused rows leave do not  *)
(* matter here.                                                              *)
NextId    == CHOOSE c \in CaseIds : ~Open(c) /\ \A d \in CaseIds : ~Open(d) => c <= d
Full      == \A c \in CaseIds : Open(c)
(* The officers of whom clerks insert rows                                    *)
Assignable == {j.officer : j \in Jobs}

Incarnation(t) == <<Home[t], runs[Home[t]]>>

(* session.officerId > 0 ? session.officerId : 1                             *)
OnBehalfOf(s) == IF s = Nobody THEN FirstOfficer ELSE s

(* An answer is "OK", "error" for any error code but ALREADY_EXISTS, or an     *)
(* exception.                                                                 *)
Answered(code) == last' = [Silent EXCEPT !.code = code]

(* The data generator files cases in every status, with no lead, parent or    *)
(* approver; their numbers come from the trigger.                             *)
FilesInit ==
    /\ \E c \in CaseIds, o \in Officers, s \in Existing :
          /\ \A d \in CaseIds : c <= d
          /\ Rank[o] \in Filers
          /\ cases = [d \in {c} |->
                        [fir |-> <<"db", 0, 0>>, status |-> s, filed_by |-> o, approved_by |-> Nobody]]
          /\ log = [d \in {c} |-> <<>>]
          /\ maker = [d \in {c} |-> <<>>]
    /\ assigned = {} /\ relieved = {} /\ fit \in SUBSET Assignable
    /\ checked = [k \in Clerks |-> {}]
    /\ pending = [k \in Clerks |-> {}]
    /\ fir_seq = [p \in Programs |-> 0]
    /\ call = [t \in Callers |-> NoCall]
    /\ runs = [p \in Programs |-> 0]
    /\ reclosed = {}
    /\ last = Silent

-----------------------------------------------------------------------------
(* Opening a file.  registerCase draws a number and only then executes the   *)
(* INSERT; other threads run between the two.                                *)

RefuseRegisterCase(t) ==  \* no connection, or no CNIC of the complainant
    /\ call[t] = NoCall
    /\ Answered("error")
    /\ UNCHANGED <<fileVars, staff, fir_seq, call, runs>>

(* fetch_add(1) + 1: the number drawn and the counter after it               *)
NumberDrawn_NotStatic(p) == 1
NumberDrawn(p) == fir_seq[p] + 1

DrawNumber(t, s, time) ==
    LET p == Home[t] IN
    /\ call[t] = NoCall /\ fir_seq[p] < MaxSeq
    /\ fir_seq' = [fir_seq EXCEPT ![p] = NumberDrawn(p)]
    /\ call' = [call EXCEPT ![t] = [fir |-> <<"app", time, NumberDrawn(p)>>, by |-> OnBehalfOf(s)]]
    /\ last' = Silent
    /\ UNCHANGED <<fileVars, staff, runs>>

MayFile(by) == Rank[by] \in Filers

Clash(fir) == \E c \in DOMAIN cases : cases[c].fir = fir

(* What the database says to a row: first trg_validate_fir_filing_rank, then *)
(* fir_number UNIQUE, then the references to station and complainant.        *)
Verdict(fir, by, known) ==
    CASE ~MayFile(by) -> "error"
      [] MayFile(by) /\ Clash(fir) -> "ALREADY_EXISTS"
      [] OTHER -> IF known THEN "OK" ELSE "error"

(* f @@ (x :> y) for an x that is not in f's domain                          *)
With(f, x, y) == [z \in DOMAIN f \cup {x} |-> IF z = x THEN y ELSE f[z]]

File(fir, by, who) ==
    /\ ~Full
    /\ cases' = With(cases, NextId,
                     [fir |-> fir, status |-> "REGISTERED", filed_by |-> by, approved_by |-> Nobody])
    /\ log' = With(log, NextId, <<>>)
    /\ maker' = With(maker, NextId, who)
    /\ UNCHANGED reclosed

InsertCase(t, known) ==
    LET fir == call[t].fir  by == call[t].by
        Returned(code) ==
            IF code = "ALREADY_EXISTS"
            THEN last' = [code |-> code, fir |-> fir, maker |-> Incarnation(t)]
            ELSE Answered(code)
    IN
    /\ call[t] # NoCall
    /\ call' = [call EXCEPT ![t] = NoCall]
    /\ \/ /\ Verdict(fir, by, known) = "OK"
          /\ File(fir, by, Incarnation(t))
          /\ \E code \in {"OK", "error"} : Returned(code)  \* the reply may be lost
       \/ /\ Verdict(fir, by, known) # "OK"
          /\ Returned(Verdict(fir, by, known))
          /\ UNCHANGED fileVars
       \/ /\ Returned("error")
          /\ UNCHANGED fileVars
    /\ UNCHANGED <<staff, fir_seq, runs>>

(* Subsystem 2 checks the rank in the session, and files for the officer that *)
(* the request names; its number comes from the trigger (module Numbering).   *)
(* A type other than MURDER and THEFT becomes 'OTHER', which is no value of   *)
(* case_type_enum.                                                            *)
RegisterFIR(t, s) ==
    LET fir == <<"db", 0, Cardinality({c \in DOMAIN cases : cases[c].fir[1] = "db"})>> IN
    /\ call[t] = NoCall
    /\ \/ /\ Answered("error")
          /\ UNCHANGED fileVars
       \/ /\ s # Nobody /\ Rank[s] \in Filers
          /\ \E by \in Officers : MayFile(by) /\ File(fir, by, <<>>)
          /\ \E code \in {"OK", "error"} : Answered(code)
    /\ UNCHANGED <<staff, fir_seq, call, runs>>

-----------------------------------------------------------------------------
(* Closing a file: the UPDATE, the trigger before it and the one after it.   *)

MayApprove_Unranked(old, by) == TRUE
MayApprove(old, by) == old = "CLOSED" \/ Rank[by] \in Seniors

(* log_case_status_change: app.current_officer_id is not set in this          *)
(* transaction, so the change is put down to the lead (there is none) or to   *)
(* the officer who filed the case.                                            *)
StatusLogged(c, old, new) ==
    IF old = new THEN log[c]
    ELSE Append(log[c], [old |-> old, new |-> new, by |-> cases[c].filed_by])

CloseCase(t, s, c) ==
    LET by == OnBehalfOf(s) IN
    /\ Open(c) /\ MayApprove(cases[c].status, by)
    /\ cases' = [cases EXCEPT ![c].status = "CLOSED", ![c].approved_by = by]
    /\ log' = [log EXCEPT ![c] = StatusLogged(c, cases[c].status, "CLOSED")]
    /\ reclosed' = IF cases[c].status = "CLOSED" THEN reclosed \cup {c} ELSE reclosed
    /\ call[t] = NoCall
    /\ \E code \in {"OK", "error"} : Answered(code)
    /\ UNCHANGED <<maker, staff, fir_seq, call, runs>>

RefuseClosing(t) ==  \* no such case; or refused by the trigger, or failed
    /\ call[t] = NoCall
    /\ Answered("error")
    /\ UNCHANGED <<fileVars, staff, fir_seq, call, runs>>

-----------------------------------------------------------------------------
(* Reading.  Case by case, by station and by status over the caller's own    *)
(* connection; without one, getCaseById falls back on subsystem 2's           *)
(* fetchCase, whose parser takes every column for a number that is not "0",   *)
(* also the empty text that stands for NULL.  parent_case_id and reopened_by   *)
(* are NULL in every row.                                                      *)

GetCase(t, c) ==
    /\ call[t] = NoCall
    /\ \/ Open(c) /\ Answered("OK")
       \/ Answered("error")  \* NOT_FOUND, or the query fails
    /\ UNCHANGED <<fileVars, staff, fir_seq, call, runs>>

FetchCase(t, c) ==
    /\ call[t] = NoCall
    /\ \/ Open(c) /\ Answered("throws")
       \/ Answered("error")  \* NOT_FOUND, also when the query fails
    /\ UNCHANGED <<fileVars, staff, fir_seq, call, runs>>

ListCases(t) ==
    /\ call[t] = NoCall
    /\ \E code \in {"OK", "error"} : Answered(code)
    /\ UNCHANGED <<fileVars, staff, fir_seq, call, runs>>

(* updateCaseStatus, reopenCase, transferCase, assignOfficerToCase and the     *)
(* others that are not written yet                                             *)
NotImplemented(t) ==
    /\ call[t] = NoCall
    /\ Answered("error")
    /\ UNCHANGED <<fileVars, staff, fir_seq, call, runs>>

-----------------------------------------------------------------------------
(* Assigning officers: the triggers look at what is committed and at the       *)
(* rows of their own transaction; the rows become visible to others when the   *)
(* transaction commits.                                                         *)

ActiveIn(rows, o) ==
    {a \in rows \ relieved : a.officer = o /\ cases[a.case].status # "CLOSED"}

Active(o) == ActiveIn(assigned, o)

Admits_OffByOne(k, o) == Cardinality(ActiveIn(assigned \cup pending[k], o)) <= CaseLimit
Admits(k, o) == Cardinality(ActiveIn(assigned \cup pending[k], o)) < CaseLimit

CheckAssignment(k, j) ==
    /\ checked[k] = {}
    /\ Open(j.case) /\ j.officer \in fit /\ Admits(k, j.officer)
    /\ checked' = [checked EXCEPT ![k] = {j}]
    /\ last' = Silent
    /\ UNCHANGED <<fileVars, assigned, relieved, pending, fit, fir_seq, call, runs>>

(* The primary key (case, officer, role): a row that another transaction has   *)
(* inserted is waited for, one that is there is skipped (ON CONFLICT DO         *)
(* NOTHING).                                                                    *)
InsertAssignment(k) ==
    /\ checked[k] # {}
    /\ \A m \in Clerks \ {k} : checked[k] \cap pending[m] = {}
    /\ pending' = [pending EXCEPT ![k] = @ \cup (checked[k] \ assigned)]
    /\ checked' = [checked EXCEPT ![k] = {}]
    /\ last' = Silent
    /\ UNCHANGED <<fileVars, assigned, relieved, fit, fir_seq, call, runs>>

CommitAssignments(k) ==
    /\ checked[k] = {} /\ pending[k] # {}
    /\ assigned' = assigned \cup pending[k]
    /\ pending' = [pending EXCEPT ![k] = {}]
    /\ last' = Silent
    /\ UNCHANGED <<fileVars, relieved, checked, fit, fir_seq, call, runs>>

(* Refused by a trigger, broken off, or the victim of a deadlock               *)
RollBackAssignments(k) ==
    /\ checked[k] \cup pending[k] # {}
    /\ checked' = [checked EXCEPT ![k] = {}]
    /\ pending' = [pending EXCEPT ![k] = {}]
    /\ last' = Silent
    /\ UNCHANGED <<fileVars, assigned, relieved, fit, fir_seq, call, runs>>

Relieve(a) ==
    /\ a \in assigned \ relieved
    /\ relieved' = relieved \cup {a}
    /\ last' = Silent
    /\ UNCHANGED <<fileVars, assigned, checked, pending, fit, fir_seq, call, runs>>

(* Midnight, after which the duties of another day are those of CURRENT_DATE;  *)
(* or another client has written rows of Duty_Roster or Officers, as the        *)
(* generator does after the assignments.                                        *)
DutiesChange ==
    /\ fit' \in SUBSET Assignable
    /\ last' = Silent
    /\ UNCHANGED <<fileVars, assigned, relieved, checked, pending, fir_seq, call, runs>>

-----------------------------------------------------------------------------
(* Subsystem 1: the personnel and the duty roster, on which the trigger looks  *)
(* when an officer is assigned (module Personnel).                             *)

(* A statement that changes the row of an officer, or of a duty of today, may   *)
(* make the officer fit or unfit.                                               *)
CallPersonnel(t, effects) ==
    /\ call[t] = NoCall
    /\ \E e \in effects :
          /\ Answered(e.code)
          /\ IF e.wrote THEN \E o \in Assignable : fit' \in {fit \cup {o}, fit \ {o}}
             ELSE UNCHANGED fit
    /\ UNCHANGED <<fileVars, assigned, relieved, checked, pending, fir_seq, call, runs>>

DutyCall(t)      == CallPersonnel(t, DutyEffects)
PersonnelCall(t) == CallPersonnel(t, PersonnelEffects)

GenerateReport(t) ==  \* logs a line, or the type is unknown
    /\ call[t] = NoCall
    /\ \E code \in {"OK", "error"} : Answered(code)
    /\ UNCHANGED <<fileVars, staff, fir_seq, call, runs>>

-----------------------------------------------------------------------------
(* A program ends, whatever its threads are doing, and is started again: the *)
(* counter of registerCase is static, nothing of it is kept.                 *)

RestartProgram(p) ==
    /\ \A q \in Programs : runs[q] < MaxRuns
    /\ runs' = [runs EXCEPT ![p] = runs[p] + 1]
    /\ fir_seq' = [fir_seq EXCEPT ![p] = 0]
    /\ call' = [t \in Callers |-> IF Home[t] = p THEN NoCall ELSE call[t]]
    /\ last' = Silent
    /\ UNCHANGED <<fileVars, staff>>

FileStep(t) ==
    \/ RefuseRegisterCase(t)
    \/ \E s \in Officers \cup {Nobody}, time \in Times : DrawNumber(t, s, time)
    \/ \E known \in BOOLEAN : InsertCase(t, known)
    \/ \E s \in Officers \cup {Nobody} : RegisterFIR(t, s)
    \/ \E s \in Officers \cup {Nobody}, c \in DOMAIN cases : CloseCase(t, s, c)
    \/ RefuseClosing(t)
    \/ \E c \in CaseIds : GetCase(t, c) \/ FetchCase(t, c)
    \/ ListCases(t)
    \/ NotImplemented(t)
    \/ DutyCall(t)
    \/ PersonnelCall(t)
    \/ GenerateReport(t)

ClerkStep(k) ==
    \/ \E j \in Jobs : CheckAssignment(k, j)
    \/ InsertAssignment(k)
    \/ CommitAssignments(k)
    \/ RollBackAssignments(k)

FilesNext ==
    \/ \E t \in Callers : FileStep(t)
    \/ \E k \in Clerks : ClerkStep(k)
    \/ \E a \in assigned : Relieve(a)
    \/ DutiesChange
    \/ \E p \in Programs : RestartProgram(p)

FilesSpec == FilesInit /\ [][FilesNext]_filesVars

-----------------------------------------------------------------------------
Rows  == [fir : {"app"} \X Times \X (1..MaxSeq) \cup {"db"} \X {0} \X Nat,
          status : Statuses, filed_by : Officers, approved_by : Officers \cup {Nobody}]
Makers == {<<>>} \cup Programs \X (0..MaxRuns)

(* Types.  Every row of Cases was filed by an officer who may file one, no   *)
(* two rows have a number in common, a case that was not closed by this code *)
(* has no approver, and an assignment is of a case that exists.              *)
FilesTypeOK ==
    /\ DOMAIN cases \subseteq CaseIds
    /\ \A c \in DOMAIN cases :
          /\ cases[c] \in Rows
          /\ Rank[cases[c].filed_by] \in Filers
          /\ cases[c].approved_by # Nobody => cases[c].status = "CLOSED"
          /\ \A d \in DOMAIN cases \ {c} : cases[c].fir # cases[d].fir
    /\ DOMAIN log = DOMAIN cases
    /\ DOMAIN maker = DOMAIN cases
    /\ \A c \in DOMAIN cases : maker[c] \in Makers
    /\ assigned \subseteq Jobs
    /\ \A a \in assigned : Open(a.case)
    /\ relieved \subseteq assigned
    /\ fit \subseteq Assignable
    /\ checked \in [Clerks -> SUBSET Jobs] /\ pending \in [Clerks -> SUBSET Jobs]
    /\ \A k \in Clerks : \A a \in checked[k] \cup pending[k] : Open(a.case)
    /\ fir_seq \in [Programs -> 0..MaxSeq]
    /\ runs \in [Programs -> 0..MaxRuns]
    /\ reclosed \subseteq DOMAIN cases

(* "Only INSPECTOR (SHO) or above can approve case closure": the approver of   *)
(* a closed case has that rank as long as the case was not closed a second      *)
(* time.  Closing a closed case is no transition, so the trigger lets any       *)
(* officer, and a caller without a session, put another approver in the row.    *)
ClosersAreSenior ==
    \A c \in DOMAIN cases \ reclosed :
       cases[c].approved_by # Nobody => Rank[cases[c].approved_by] \in Seniors

(* registerCase never competes with itself: a number that is refused as        *)
(* ALREADY_EXISTS is on a case that another program, or this one before it was  *)
(* restarted, has filed, and never on one that this incarnation of the program  *)
(* filed in another thread or in a call whose reply was lost.                   *)
RefusedForAnothersCase ==
    last.code = "ALREADY_EXISTS" =>
       \E c \in DOMAIN cases : cases[c].fir = last.fir /\ maker[c] # last.maker

(* "Max 10 active cases per officer at any time": the trigger counts what is   *)
(* committed and what its own transaction has inserted, so each transaction on   *)
(* its own stays within the limit, and as many as run together may each fill it.  *)
(* No more comes of it, also when officers are relieved, cases closed and          *)
(* transactions rolled back while others wait for their rows.                       *)
OfficersWithinLimit ==
    \A o \in Officers : Cardinality(Active(o)) <= CaseLimit * Cardinality(Clerks)

(* No call of this program changes whom the trigger lets through: officers are  *)
(* suspended, and put on leave, by midnight and by other clients only.  Every    *)
(* statement of subsystem 1 that would write is refused by the database          *)
(* (updateOfficerStatus, updateDutyStatus and the others answer an error).        *)
FitnessIsOthersDoing ==
    [][fit' # fit => last'.code = "none"]_filesVars
=============================================================================
