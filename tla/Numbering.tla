------------------------------ MODULE Numbering ------------------------------
(***************************************************************************)
(* The official numbers of FIRs, evidence, charge sheets and duty rosters. *)
(* A BEFORE INSERT trigger of the row calls get_next_seq, which counts in  *)
(* one row of Sequence_Registry per entity and scope (a station and year,  *)
(* or a FIR), prints the count with four digits into the number, and       *)
(* leaves it to the UNIQUE constraint on the number to accept the row.     *)
(*                                                                         *)
(* A client is a connection to the database: the service, a second         *)
(* instance of it, an administrator.  Each INSERT is a                     *)
(* transaction of its own (all of the C++ code commits automatically).     *)
(* PostgreSQL runs them at READ COMMITTED: a statement sees the rows       *)
(* committed before it began, waits for a row that somebody else has       *)
(* written, and then goes on with what was committed.                      *)
(***************************************************************************)
EXTENDS Integers, Sequences

CONSTANTS
    Clients,
    Scopes,   \* pairs of entity and scope_key
    None,     \* neither a client nor a scope
    Limit     \* the least count that does not fit: 10000 in the code

(* The least number with one digit more than LPAD keeps.                    *)
ASSUME NumberingAssumption ==
    /\ None \notin Clients
    /\ None \notin Scopes
    /\ Limit \in Nat
    /\ Limit >= 10
    /\ Limit % 10 = 0

VARIABLES
    at,        \* the statement each client is about to execute
    scope,     \* the scope of the row it is inserting
    taken,     \* v_next, 0 before get_next_seq has it
    registry,  \* last_value as committed, 0 without a row
    holder,    \* whose transaction has written the scope's registry row
    filed      \* the counts of the committed rows, in order of commit

vars == <<at, scope, taken, registry, holder, filed>>

Places == {"idle", "update", "insert", "row", "commit", "answer"}

Init ==
    /\ at = [c \in Clients |-> "idle"]
    /\ scope = [c \in Clients |-> None]
    /\ taken = [c \in Clients |-> 0]
    /\ registry = [s \in Scopes |-> 0]
    /\ holder = [s \in Scopes |-> None]
    /\ filed = [s \in Scopes |-> << >>]

-----------------------------------------------------------------------------
(* LPAD(v_seq::TEXT, 4, '0') fills up with zeros and cuts a longer text off *)
(* on the right: the last digit of 10000 is lost.  No count ever gets past  *)
(* that one (TypeOK).                                                       *)
Text(n) == IF n < Limit THEN n ELSE n \div 10

(* The registry row can be written: nobody else's transaction has.          *)
Unlocked_NotWaited(s) == TRUE
Unlocked(s) == holder[s] = None

(* The UNIQUE constraint on the number of the row.                          *)
Clashes(c) == \E i \in DOMAIN filed[scope[c]] : Text(filed[scope[c]][i]) = Text(taken[c])

HolderAfterRollback_Kept(c) == holder
HolderAfterRollback(c) ==
    [s \in Scopes |-> IF holder[s] = c THEN None ELSE holder[s]]

(* A transaction is answered when it has been committed.                    *)
AfterInsert == "commit"

(* INSERT INTO cases, evidence, charge_sheets or duty_roster                *)
Request(c, s) ==
    /\ at[c] = "idle"
    /\ at' = [at EXCEPT ![c] = "update"]
    /\ scope' = [scope EXCEPT ![c] = s]
    /\ UNCHANGED <<taken, registry, holder, filed>>

Take(c, p) ==
    /\ at[c] = p
    /\ Unlocked(scope[c])
    /\ at' = [at EXCEPT ![c] = "row"]
    /\ taken' = [taken EXCEPT ![c] = registry[scope[c]] + 1]
    /\ holder' = [holder EXCEPT ![scope[c]] = c]
    /\ UNCHANGED <<scope, registry, filed>>

(* UPDATE Sequence_Registry SET last_value = last_value + 1                 *)
UpdateRegistry(c) == Take(c, "update") /\ registry[scope[c]] > 0

(* IF NOT FOUND: a row that somebody has inserted without committing it is  *)
(* not seen                                                                 *)
NotFound(c) ==
    /\ at[c] = "update"
    /\ registry[scope[c]] = 0
    /\ at' = [at EXCEPT ![c] = "insert"]
    /\ UNCHANGED <<scope, taken, registry, holder, filed>>

(* INSERT ... ON CONFLICT DO UPDATE SET last_value = last_value + 1, which  *)
(* waits for the row of another and then inserts 1 or counts on             *)
InsertRegistry(c) == Take(c, "insert")

(* The row itself, with the number.                                         *)
InsertRow(c) ==
    /\ at[c] = "row"
    /\ ~Clashes(c)
    /\ at' = [at EXCEPT ![c] = AfterInsert]
    /\ UNCHANGED <<scope, taken, registry, holder, filed>>

Rollback(c) ==
    /\ at' = [at EXCEPT ![c] = "idle"]
    /\ scope' = [scope EXCEPT ![c] = None]
    /\ taken' = [taken EXCEPT ![c] = 0]
    /\ holder' = HolderAfterRollback(c)
    /\ UNCHANGED <<registry, filed>>

UniqueViolation(c) == at[c] = "row" /\ Clashes(c) /\ Rollback(c)

(* Any other failure: a later trigger refuses the row (the rank of the      *)
(* officer, a CHECK, the audit log), the connection is lost, the client or  *)
(* the server dies.                                                         *)
Fail(c) == at[c] \in {"update", "insert", "row", "commit"} /\ Rollback(c)

Commit(c) ==
    /\ at[c] = "commit"
    /\ at' = [at EXCEPT ![c] = "answer"]
    /\ registry' = [registry EXCEPT ![scope[c]] = taken[c]]
    /\ filed' = [filed EXCEPT ![scope[c]] = Append(@, taken[c])]
    /\ holder' = [holder EXCEPT ![scope[c]] = None]
    /\ UNCHANGED <<scope, taken>>

(* RETURNING gives the client its number; the connection may be lost before *)
(* it does, and then the client takes a row that exists for refused.        *)
Answer(c) ==
    /\ at[c] = "answer"
    /\ at' = [at EXCEPT ![c] = "idle"]
    /\ scope' = [scope EXCEPT ![c] = None]
    /\ taken' = [taken EXCEPT ![c] = 0]
    /\ UNCHANGED <<registry, holder, filed>>

Step(c) ==
    \/ UpdateRegistry(c) \/ NotFound(c) \/ InsertRegistry(c)
    \/ InsertRow(c) \/ UniqueViolation(c) \/ Commit(c) \/ Answer(c)

Next == \E c \in Clients : Step(c) \/ Fail(c) \/ \E s \in Scopes : Request(c, s)

Spec == Init /\ [][Next]_vars

(* PostgreSQL executes every statement, and queues those that wait for a    *)
(* row in the order in which they came, so that one that could go on again  *)
(* and again does.  Nothing obliges a client to insert, or to fail.         *)
FairSpec == Spec /\ \A c \in Clients : SF_vars(Step(c))

-----------------------------------------------------------------------------
TypeOK ==
    /\ at \in [Clients -> Places]
    /\ scope \in [Clients -> Scopes \cup {None}]
    /\ \A c \in Clients : at[c] = "idle" <=> scope[c] = None
    /\ taken \in [Clients -> 0..Limit]
    /\ registry \in [Scopes -> 0..(Limit - 1)]
    /\ holder \in [Scopes -> Clients \cup {None}]
    /\ filed \in [Scopes -> Seq(1..(Limit - 1))]

(* The committed rows of a scope are numbered 1, 2, 3, ... in the order in  *)
(* which they were committed, up to last_value: no count is used twice or   *)
(* left out, whatever is rolled back, and a later number is a later record. *)
NumbersInOrder ==
    \A s \in Scopes : filed[s] = [i \in 1..registry[s] |-> i]

(* A client that is given a number has a committed row with it, and no      *)
(* other client is given the same one.                                      *)
AnswersAreFiled ==
    \A c \in Clients : at[c] = "answer" =>
        /\ taken[c] \in 1..registry[scope[c]]
        /\ \A d \in Clients \ {c} :
               at[d] = "answer" /\ scope[d] = scope[c] => taken[d] # taken[c]

(* The count that no longer fits is not the end of one insertion but of the *)
(* scope: it clashes with an earlier number, the transaction that drew it   *)
(* is rolled back with its count, and so is every one after it.  For a      *)
(* station that is the 10000th record of a kind in a year.                  *)
FullScopeStaysFull ==
    [][\A s \in Scopes : registry[s] = Limit - 1 => registry'[s] = registry[s]]_vars

(* Every insertion is answered or refused: the waits for registry rows form *)
(* no cycle and starve nobody.                                              *)
EveryInsertEnds == \A c \in Clients : at[c] # "idle" ~> at[c] = "idle"

Abstract == INSTANCE SerialNumbers WITH
    asking <- scope,
    given <- [c \in Clients |-> IF at[c] = "answer" THEN taken[c] ELSE 0],
    book <- filed

(* Transactions that overlap, wait for each other and are rolled back are to *)
(* their clients what a book would be in which everybody enters the next     *)
(* number in one step, the commit: consecutive from 1, below the limit, and  *)
(* none is entered for a refused row (get_next_seq and the triggers).        *)
ImplementsSerialNumbers == Abstract!Spec
=============================================================================
