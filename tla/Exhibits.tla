------------------------------- MODULE Exhibits -------------------------------
(***************************************************************************)
(* What subsystem 2 adds to a case: evidence, whose file is mapped into      *)
(* memory before its row is inserted, and charge sheets, whose submission    *)
(* is carried out in memory before it is sent to the database.               *)
(*                                                                         *)
(* EvidenceManager is part of a singleton and has one MmapHandler, which all *)
(* threads use without a lock.  Its fields are plain: a thread may be        *)
(* interrupted between the test of is_mapped, the assignment of              *)
(* file_descriptor and mmap, which uses the field.  A charge sheet belongs   *)
(* to the thread that drafted it.  A statement may fail, and the reply to    *)
(* one that was committed may be lost.                                        *)
(***************************************************************************)
EXTENDS Integers, FiniteSets

CONSTANTS
    Threads,       \* threads of the program
    Files,         \* files of evidence
    NoFile,        \* file_path is empty
    NoSheet,       \* the thread has no charge sheet
    MaxRows,       \* bound: rows of Evidence
    MaxSheets,     \* bound: rows of charge_sheets
    MaxRestarts    \* bound: restarts of the program

ASSUME ExhibitsAssumption ==
    /\ IsFiniteSet(Threads) /\ Threads # {}
    /\ NoFile \notin Files
    /\ MaxRows \in Nat /\ MaxSheets \in Nat /\ MaxRestarts \in Nat
    /\ NoSheet \notin Nat

VARIABLES
    epoch,       \* history: the incarnation of the program
    exhibits,    \* rows of Evidence that the program has inserted, in order
    stage,       \* where logAndSecureEvidence is in each thread
    file,        \* the file_path of that call
    is_mapped,   \* of the handler
    fd,          \* file_descriptor of the handler, as the file it is of
    mappings,    \* files that are mapped in the program
    raced,       \* history: two threads of this incarnation were in map at once
    sheet,       \* the charge sheet object of each thread
    submitting,  \* threads whose sheet is locked and whose UPDATE is not sent yet
    drafts,      \* rows of charge_sheets that the program has inserted
    sent         \* history: UPDATEs sent about each of them

evidenceVars == <<exhibits, stage, file, is_mapped, fd, mappings, raced>>
sheetVars    == <<sheet, submitting, drafts, sent>>
exhibitVars  == <<epoch, exhibits, stage, file, is_mapped, fd, mappings, raced,
                  sheet, submitting, drafts, sent>>

Blank == [id |-> NoSheet, laws |-> FALSE, locked |-> FALSE]

ExhibitsInit ==
    /\ epoch = 0
    /\ exhibits = {}
    /\ stage = [t \in Threads |-> "idle"]
    /\ file = [t \in Threads |-> NoFile]
    /\ is_mapped = FALSE
    /\ fd = NoFile
    /\ mappings = {}
    /\ raced = FALSE
    /\ sheet = [t \in Threads |-> Blank]
    /\ submitting = {}
    /\ drafts = {}
    /\ sent = [d \in 1..MaxSheets |-> 0]

Free(t) == stage[t] = "idle" /\ t \notin submitting

(* No valid session, or no sheet is given: nothing happens.                   *)
Refuse(t) ==
    /\ Free(t)
    /\ UNCHANGED exhibitVars

-----------------------------------------------------------------------------
(* logAndSecureEvidence.  The file is opened, and a handler that maps a file   *)
(* already refuses.                                                            *)

Mapping == {t \in Threads : stage[t] \in {"describe", "mmap"}}

MayMap_Again == TRUE
MayMap == ~is_mapped

BeginWithFile(t, f) ==
    /\ Free(t)
    /\ MayMap  \* else INVALID_STATE, and the call is over
    /\ stage' = [stage EXCEPT ![t] = "describe"]
    /\ file' = [file EXCEPT ![t] = f]
    /\ raced' = (raced \/ Mapping # {})
    /\ UNCHANGED <<epoch, exhibits, is_mapped, fd, mappings, sheetVars>>

BeginWithoutFile(t) ==
    /\ Free(t)
    /\ stage' = [stage EXCEPT ![t] = "insert"]
    /\ file' = [file EXCEPT ![t] = NoFile]
    /\ UNCHANGED <<epoch, exhibits, is_mapped, fd, mappings, raced, sheetVars>>

DescribeFile(t) ==  \* file_descriptor = fd; mapping_size = size
    /\ stage[t] = "describe"
    /\ fd' = file[t]
    /\ stage' = [stage EXCEPT ![t] = "mmap"]
    /\ UNCHANGED <<epoch, exhibits, file, is_mapped, mappings, raced, sheetVars>>

(* mmap of whatever the field says by now; the descriptor is closed after it.  *)
MapFile(t) ==
    /\ stage[t] = "mmap"
    /\ mappings' = mappings \cup {fd}
    /\ is_mapped' = TRUE
    /\ stage' = [stage EXCEPT ![t] = "insert"]
    /\ UNCHANGED <<epoch, exhibits, file, fd, raced, sheetVars>>

(* open and fstat fail before the handler is touched, mmap after the test; a   *)
(* failure of mapFileToMemory ends the call, so no row is without its mapping. *)
AfterFailedMap_GoesOn == "insert"
AfterFailedMap == "idle"

MapFails(t) ==
    /\ stage[t] = "mmap"
    /\ stage' = [stage EXCEPT ![t] = AfterFailedMap]
    /\ UNCHANGED <<epoch, exhibits, file, is_mapped, fd, mappings, raced, sheetVars>>

(* The row, or DB_ERROR with or without it; the handler keeps what it maps.    *)
InsertEvidence(t) ==
    /\ stage[t] = "insert"
    /\ stage' = [stage EXCEPT ![t] = "idle"]
    /\ \/ exhibits' = exhibits
       \/ /\ Cardinality(exhibits) < MaxRows
          /\ exhibits' = exhibits \cup
                {[id |-> Cardinality(exhibits) + 1, file |-> file[t], epoch |-> epoch]}
    /\ UNCHANGED <<epoch, file, is_mapped, fd, mappings, raced, sheetVars>>

-----------------------------------------------------------------------------
(* Charge sheets.  The row gets case and officer and the defaults of the       *)
(* table: DRAFT, no laws, no filing_date, not locked.                          *)

NextDraft == Cardinality(drafts) + 1

Draft(t) ==
    LET d == NextDraft IN
    /\ Free(t)
    /\ d <= MaxSheets
    /\ drafts' = drafts \cup
          {[id |-> d, status |-> "DRAFT", filing_date |-> FALSE, laws_invoked |-> FALSE,
            is_locked |-> FALSE]}
    /\ \/ sheet' = [sheet EXCEPT ![t] = [Blank EXCEPT !.id = d]]
       \/ UNCHANGED sheet  \* the reply is lost: DB_ERROR
    /\ UNCHANGED <<epoch, evidenceVars, submitting, sent>>

Has(t) == sheet[t].id # NoSheet

AddLawInvoked(t) ==  \* in memory only; an empty one is INVALID_INPUT
    /\ Free(t) /\ Has(t)
    /\ ~sheet[t].locked  \* else RECORD_LOCKED
    /\ sheet' = [sheet EXCEPT ![t].laws = TRUE]
    /\ UNCHANGED <<epoch, evidenceVars, submitting, drafts, sent>>

MaySubmit(s) == ~s.locked /\ s.laws  \* else RECORD_LOCKED or INVALID_STATE

SubmitToMagistrate(t) ==
    /\ Free(t) /\ Has(t) /\ MaySubmit(sheet[t])
    /\ sheet' = [sheet EXCEPT ![t].locked = TRUE]
    /\ submitting' = submitting \cup {t}
    /\ UNCHANGED <<epoch, evidenceVars, drafts, sent>>

(* prevent_locked_charge_sheet_update, chk_filed_date_required and              *)
(* chk_laws_invoked_not_empty, for a row that becomes SUBMITTED_TO_COURT        *)
Accepts_UnlessLocked(d) == ~d.is_locked
Accepts(d) == ~d.is_locked /\ d.filing_date /\ d.laws_invoked

Filed(d) == [d EXCEPT !.status = "SUBMITTED_TO_COURT", !.is_locked = TRUE]

UpdateSheet(t) ==
    LET id == sheet[t].id IN
    /\ t \in submitting
    /\ submitting' = submitting \ {t}
    /\ sent' = [sent EXCEPT ![id] = @ + 1]
    /\ drafts' \in {drafts, {IF d.id = id /\ Accepts(d) THEN Filed(d) ELSE d : d \in drafts}}
    /\ UNCHANGED <<epoch, evidenceVars, sheet>>

-----------------------------------------------------------------------------
(* The program ends, wherever its threads are, and is started again: nothing   *)
(* is mapped then, and no sheet is read back from the database.                *)
Restart ==
    /\ epoch < MaxRestarts
    /\ epoch' = epoch + 1
    /\ stage' = [t \in Threads |-> "idle"]
    /\ file' = [t \in Threads |-> NoFile]
    /\ is_mapped' = FALSE
    /\ fd' = NoFile
    /\ mappings' = {}
    /\ raced' = FALSE
    /\ sheet' = [t \in Threads |-> Blank]
    /\ submitting' = {}
    /\ UNCHANGED <<exhibits, drafts, sent>>

ExhibitsStep(t) ==
    \/ Refuse(t)
    \/ \E f \in Files : BeginWithFile(t, f)
    \/ BeginWithoutFile(t)
    \/ DescribeFile(t) \/ MapFile(t) \/ MapFails(t) \/ InsertEvidence(t)
    \/ Draft(t) \/ AddLawInvoked(t) \/ SubmitToMagistrate(t) \/ UpdateSheet(t)

ExhibitsNext == (\E t \in Threads : ExhibitsStep(t)) \/ Restart

ExhibitsSpec == ExhibitsInit /\ [][ExhibitsNext]_exhibitVars

-----------------------------------------------------------------------------
(* Types; no two rows share an id, and nobody submits without a sheet.        *)
ExhibitsTypeOK ==
    /\ epoch \in 0..MaxRestarts
    /\ exhibits \subseteq [id : 1..MaxRows, file : Files \cup {NoFile}, epoch : 0..epoch]
    /\ stage \in [Threads -> {"idle", "describe", "mmap", "insert"}]
    /\ file \in [Threads -> Files \cup {NoFile}]
    /\ is_mapped \in BOOLEAN
    /\ is_mapped <=> mappings # {}
    /\ fd \in Files \cup {NoFile}
    /\ mappings \subseteq Files
    /\ raced \in BOOLEAN
    /\ sheet \in [Threads -> [id : 1..MaxSheets \cup {NoSheet}, laws : BOOLEAN, locked : BOOLEAN]]
    /\ submitting \subseteq {t \in Threads : sheet[t].locked}
    /\ drafts \subseteq [id : 1..MaxSheets, status : {"DRAFT", "SUBMITTED_TO_COURT"},
                         filing_date : BOOLEAN, laws_invoked : BOOLEAN, is_locked : BOOLEAN]
    /\ \A d, e \in drafts : d.id = e.id => d = e
    /\ \A t, u \in Threads : t # u /\ Has(t) => sheet[t].id # sheet[u].id

Logged == {e \in exhibits : e.epoch = epoch /\ e.file # NoFile}

(* "Log & secure evidence": the file of every piece of evidence that this run   *)
(* of the program has logged is mapped, as long as no two threads were mapping  *)
(* at once.  When they were, mmap may use the descriptor of the other thread's   *)
(* file, and evidence is logged whose own file was never mapped.                 *)
LoggedFilesAreSecured ==
    ~raced => \A e \in Logged : e.file \in mappings

(* The handler is never unmapped, not even after an INSERT that failed: a run   *)
(* of the program logs one piece of evidence with a file, and then refuses every *)
(* other with INVALID_STATE.  Threads that race get at most one each.            *)
OneFilePerRun ==
    Cardinality(Logged) <= IF raced THEN Cardinality(Threads) ELSE 1

(* A sheet that the program calls submitted and locked never reaches the court:  *)
(* its row stays a DRAFT that is not locked, because nothing ever sets           *)
(* filing_date or laws_invoked; and since it is locked in memory before the       *)
(* UPDATE is refused, the UPDATE is sent at most once.                            *)
SheetsNeverReachCourt ==
    /\ \A d \in drafts : d.status = "DRAFT" /\ ~d.is_locked
    /\ \A t \in Threads : Has(t) =>
          sent[sheet[t].id] = IF sheet[t].locked /\ t \notin submitting THEN 1 ELSE 0
=============================================================================
