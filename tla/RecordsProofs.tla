---------------------------- MODULE RecordsProofs ----------------------------
(***************************************************************************)
(* What holds, for all values of the constants, of the five components      *)
(* whose state are rows the program writes, or reads back: Numbering (any    *)
(* clients, scopes and number of digits), AuditTrail, Parties (any persons,  *)
(* officers and vehicles), Exhibits (any threads, files and restarts) and    *)
(* CaseFiles (any programs, threads, clerks, officers, cases and restarts).  *)
(* They share no variable and no lemma; each part is about the specification *)
(* of its own component.                                                     *)
(***************************************************************************)
EXTENDS Numbering, Exhibits, Parties, AuditTrail, CaseFiles, FiniteSetTheorems,
        WellFoundedInduction, TLAPS

-----------------------------------------------------------------------------
(* Numbering.                                                                *)
Holding(c) == at[c] \in {"row", "commit"}

(* The lock on a registry row and the places of the clients go together.    *)
RowsLocked ==
    \A c \in Clients, s \in Scopes : holder[s] = c <=> Holding(c) /\ scope[c] = s

(* A count is drawn from what was committed last, which cannot change while *)
(* it is being used; it is only committed if it fits.                       *)
Drawn ==
    \A c \in Clients :
        /\ Holding(c) => taken[c] = registry[scope[c]] + 1
        /\ at[c] = "commit" => taken[c] < Limit

IInv == TypeOK /\ RowsLocked /\ Drawn /\ NumbersInOrder /\ AnswersAreFiled

-----------------------------------------------------------------------------
(* Counts that fit are printed as they are.  The first that does not is     *)
(* printed as a smaller one.                                                *)
LEMMA Cut ==
    /\ Limit \div 10 \in 1..(Limit - 1)
    /\ \A n \in 1..(Limit - 1) : Text(n) = n
    /\ Text(Limit) = Limit \div 10
<1>1. Limit \div 10 \in 1..(Limit - 1)
  BY NumberingAssumption
<1> QED
  BY <1>1, NumberingAssumption DEF Text

(* That one has been filed when the count is drawn, so the row is refused.  *)
LEMMA LimitClashes ==
    ASSUME IInv, NEW c \in Clients, at[c] = "row", taken[c] = Limit
    PROVE  Clashes(c)
<1> DEFINE s == scope[c]
<1> DEFINE n == Limit \div 10
<1>1. s \in Scopes
  BY NumberingAssumption DEF IInv, TypeOK
<1>2. registry[s] = Limit - 1
  BY <1>1, NumberingAssumption DEF IInv, TypeOK, Drawn, Holding
<1>3. filed[s] = [i \in 1..(Limit - 1) |-> i]
  BY <1>1, <1>2 DEF IInv, NumbersInOrder
<1>4. n \in DOMAIN filed[s] /\ filed[s][n] = n
  BY <1>3, Cut
<1>5. Text(n) = Text(Limit)
  <2>1. Text(n) = n
    BY Cut
  <2> QED
    BY <2>1, Cut
<1> HIDE DEF n, s
<1>6. Text(filed[s][n]) = Text(taken[c])
  BY <1>4, <1>5
<1> QED
  BY <1>4, <1>6 DEF Clashes, s

(* The next number is appended to those in order.                           *)
LEMMA OneMore ==
    ASSUME NEW n \in Nat, NEW q \in Seq(Int), q = [i \in 1..n |-> i]
    PROVE  Append(q, n + 1) = [i \in 1..(n + 1) |-> i]
<1>1. Len(q) = n
  OBVIOUS
<1>2. DOMAIN Append(q, n + 1) = 1..(n + 1)
  BY <1>1
<1>3. ASSUME NEW i \in 1..(n + 1) PROVE Append(q, n + 1)[i] = i
  BY <1>1
<1> QED
  BY <1>2, <1>3

-----------------------------------------------------------------------------
(* Every action keeps the invariant.                                        *)
LEMMA InitInv == Init => IInv
<1> SUFFICES ASSUME Init PROVE IInv
  OBVIOUS
<1>1. TypeOK
  BY NumberingAssumption DEF Init, TypeOK, Places
<1>2. RowsLocked /\ Drawn
  BY NumberingAssumption DEF Init, RowsLocked, Drawn, Holding
<1>3. NumbersInOrder
  BY DEF Init, NumbersInOrder
<1>4. AnswersAreFiled
  BY DEF Init, AnswersAreFiled
<1> QED
  BY <1>1, <1>2, <1>3, <1>4 DEF IInv

LEMMA RequestInv ==
    ASSUME IInv, NEW c \in Clients, NEW s \in Scopes, Request(c, s)
    PROVE  IInv'
<1> USE NumberingAssumption
<1>1. TypeOK'
  BY DEF IInv, Request, TypeOK, Places
<1>2. RowsLocked'
  BY DEF IInv, Request, TypeOK, RowsLocked, Holding
<1>3. Drawn'
  BY DEF IInv, Request, TypeOK, RowsLocked, Drawn, Holding
<1>4. NumbersInOrder'
  BY DEF IInv, Request, NumbersInOrder
<1>5. AnswersAreFiled'
  BY DEF IInv, Request, TypeOK, RowsLocked, Drawn, Holding, AnswersAreFiled
<1> QED
  BY <1>1, <1>2, <1>3, <1>4, <1>5 DEF IInv

LEMMA TakeInv ==
    ASSUME IInv, NEW c \in Clients, NEW p \in {"update", "insert"}, Take(c, p)
    PROVE  IInv'
<1> USE NumberingAssumption
<1>1. TypeOK'
  BY DEF IInv, Take, Unlocked, TypeOK, Places
<1>2. RowsLocked'
  BY DEF IInv, Take, Unlocked, TypeOK, RowsLocked, Holding
<1>3. Drawn'
  BY DEF IInv, Take, Unlocked, TypeOK, RowsLocked, Drawn, Holding
<1>4. NumbersInOrder'
  BY DEF IInv, Take, Unlocked, NumbersInOrder
<1>5. AnswersAreFiled'
  BY DEF IInv, Take, Unlocked, TypeOK, RowsLocked, Drawn, Holding, AnswersAreFiled
<1> QED
  BY <1>1, <1>2, <1>3, <1>4, <1>5 DEF IInv

LEMMA NotFoundInv ==
    ASSUME IInv, NEW c \in Clients, NotFound(c)
    PROVE  IInv'
<1> USE NumberingAssumption
<1>1. TypeOK'
  BY DEF IInv, NotFound, TypeOK, Places
<1>2. RowsLocked'
  BY DEF IInv, NotFound, TypeOK, RowsLocked, Holding
<1>3. Drawn'
  BY DEF IInv, NotFound, TypeOK, RowsLocked, Drawn, Holding
<1>4. NumbersInOrder'
  BY DEF IInv, NotFound, NumbersInOrder
<1>5. AnswersAreFiled'
  BY DEF IInv, NotFound, TypeOK, RowsLocked, Drawn, Holding, AnswersAreFiled
<1> QED
  BY <1>1, <1>2, <1>3, <1>4, <1>5 DEF IInv

LEMMA InsertRowInv ==
    ASSUME IInv, NEW c \in Clients, InsertRow(c)
    PROVE  IInv'
<1> USE NumberingAssumption
<1>1. TypeOK'
  BY DEF IInv, InsertRow, AfterInsert, TypeOK, Places
<1>2. RowsLocked'
  BY DEF IInv, InsertRow, AfterInsert, TypeOK, RowsLocked, Holding
<1>0. taken[c] # Limit
  BY LimitClashes DEF InsertRow
<1>3. Drawn'
  BY <1>0 DEF IInv, InsertRow, AfterInsert, TypeOK, RowsLocked, Drawn, Holding
<1>4. NumbersInOrder'
  BY DEF IInv, InsertRow, AfterInsert, NumbersInOrder
<1>5. AnswersAreFiled'
  BY DEF IInv, InsertRow, AfterInsert, TypeOK, RowsLocked, Drawn, Holding, AnswersAreFiled
<1> QED
  BY <1>1, <1>2, <1>3, <1>4, <1>5 DEF IInv

LEMMA RollbackInv ==
    ASSUME IInv, NEW c \in Clients, at[c] # "answer", Rollback(c)
    PROVE  IInv'
<1> USE NumberingAssumption
<1>1. TypeOK'
  BY DEF IInv, Rollback, HolderAfterRollback, TypeOK, Places
<1>2. RowsLocked'
  BY DEF IInv, Rollback, HolderAfterRollback, TypeOK, RowsLocked, Holding
<1>3. Drawn'
  BY DEF IInv, Rollback, HolderAfterRollback, TypeOK, RowsLocked, Drawn, Holding
<1>4. NumbersInOrder'
  BY DEF IInv, Rollback, HolderAfterRollback, NumbersInOrder
<1>5. AnswersAreFiled'
  BY DEF IInv, Rollback, HolderAfterRollback, TypeOK, RowsLocked, Drawn, Holding, AnswersAreFiled
<1> QED
  BY <1>1, <1>2, <1>3, <1>4, <1>5 DEF IInv

LEMMA CommitInv ==
    ASSUME IInv, NEW c \in Clients, Commit(c)
    PROVE  IInv'
<1> USE NumberingAssumption
<1> DEFINE s == scope[c]
<1>a. /\ s \in Scopes
      /\ registry[s] \in Nat
      /\ taken[c] = registry[s] + 1
      /\ taken[c] \in 1..(Limit - 1)
  BY DEF IInv, Commit, TypeOK, Drawn, Holding
<1>b. /\ filed[s] \in Seq(1..(Limit - 1))
      /\ filed[s] = [i \in 1..registry[s] |-> i]
  BY <1>a DEF IInv, TypeOK, NumbersInOrder
<1>c. Append(filed[s], taken[c]) = [i \in 1..taken[c] |-> i]
  BY <1>a, <1>b, OneMore
<1>d. Append(filed[s], taken[c]) \in Seq(1..(Limit - 1))
  BY <1>a, <1>b
<1>1. TypeOK'
  <2>1. filed' \in [Scopes -> Seq(1..(Limit - 1))]
    BY <1>a, <1>d DEF IInv, Commit, TypeOK
  <2>2. registry' \in [Scopes -> 0..(Limit - 1)]
    BY <1>a DEF IInv, Commit, TypeOK
  <2> QED
    BY <2>1, <2>2 DEF IInv, Commit, TypeOK, Places
<1>2. RowsLocked'
  BY DEF IInv, Commit, TypeOK, RowsLocked, Holding
<1>3. Drawn'
  BY DEF IInv, Commit, TypeOK, RowsLocked, Drawn, Holding
<1>4. NumbersInOrder'
  BY <1>a, <1>c DEF IInv, Commit, TypeOK, NumbersInOrder
<1>5. AnswersAreFiled'
  BY DEF IInv, Commit, TypeOK, RowsLocked, Drawn, Holding, AnswersAreFiled
<1> QED
  BY <1>1, <1>2, <1>3, <1>4, <1>5 DEF IInv

LEMMA AnswerInv ==
    ASSUME IInv, NEW c \in Clients, Answer(c)
    PROVE  IInv'
<1> USE NumberingAssumption
<1>1. TypeOK'
  BY DEF IInv, Answer, TypeOK, Places
<1>2. RowsLocked'
  BY DEF IInv, Answer, TypeOK, RowsLocked, Holding
<1>3. Drawn'
  BY DEF IInv, Answer, TypeOK, RowsLocked, Drawn, Holding
<1>4. NumbersInOrder'
  BY DEF IInv, Answer, NumbersInOrder
<1>5. AnswersAreFiled'
  BY DEF IInv, Answer, TypeOK, RowsLocked, Drawn, Holding, AnswersAreFiled
<1> QED
  BY <1>1, <1>2, <1>3, <1>4, <1>5 DEF IInv

-----------------------------------------------------------------------------
LEMMA NextInv == IInv /\ [Next]_vars => IInv'
<1> SUFFICES ASSUME IInv, [Next]_vars PROVE IInv'
  OBVIOUS
<1>1. ASSUME NEW c \in Clients, Step(c) PROVE IInv'
  BY <1>1, TakeInv, NotFoundInv, InsertRowInv, RollbackInv, CommitInv, AnswerInv
     DEF Step, UpdateRegistry, InsertRegistry, UniqueViolation
<1>2. ASSUME NEW c \in Clients, Fail(c) PROVE IInv'
  BY <1>2, RollbackInv DEF Fail
<1>3. ASSUME NEW c \in Clients, NEW s \in Scopes, Request(c, s) PROVE IInv'
  BY <1>3, RequestInv
<1>4. CASE UNCHANGED vars
  BY <1>4 DEF IInv, vars, TypeOK, RowsLocked, Drawn, Holding, NumbersInOrder, AnswersAreFiled
<1> QED
  BY <1>1, <1>2, <1>3, <1>4 DEF Next

LEMMA AlwaysInv == Spec => []IInv
<1> QED
  BY InitInv, NextInv, PTL DEF Spec

(* The variables have their types: last_value stops below the limit (the    *)
(* count at the limit is drawn again and again, and never committed).       *)
THEOREM TypeCorrect == Spec => []TypeOK
<1>1. IInv => TypeOK
  BY DEF IInv
<1> QED
  BY <1>1, AlwaysInv, PTL

(* get_next_seq and its callers: the committed rows of every scope are      *)
(* numbered 1, 2, 3, ... without a gap, in the order of their commits.      *)
THEOREM NumbersInOrderCorrect == Spec => []NumbersInOrder
<1>1. IInv => NumbersInOrder
  BY DEF IInv
<1> QED
  BY <1>1, AlwaysInv, PTL

(* INSERT ... RETURNING: the number a client is given is on a committed row *)
(* and given to nobody else.                                                *)
THEOREM AnswersAreFiledCorrect == Spec => []AnswersAreFiled
<1>1. IInv => AnswersAreFiled
  BY DEF IInv
<1> QED
  BY <1>1, AlwaysInv, PTL

(* With last_value one below the limit the next count is cut off to a       *)
(* number that is on file: the scope accepts no row any more, whoever       *)
(* inserts, and however often.                                              *)
THEOREM FullScopeStaysFullCorrect == Spec => FullScopeStaysFull
<1>1. ASSUME IInv, [Next]_vars, NEW s \in Scopes, registry[s] = Limit - 1
      PROVE  registry'[s] = registry[s]
  <2>1. ASSUME NEW c \in Clients, Commit(c) PROVE registry'[s] = registry[s]
    <3>1. scope[c] # s
      BY <1>1, <2>1, NumberingAssumption DEF IInv, TypeOK, Drawn, Holding, Commit
    <3> QED
      BY <1>1, <2>1, <3>1 DEF IInv, TypeOK, Commit
  <2> QED
    BY <1>1, <2>1
       DEF Next, Step, Fail, Request, UpdateRegistry, InsertRegistry, Take, NotFound, InsertRow,
           UniqueViolation, Rollback, Answer, vars
<1>2. IInv /\ [Next]_vars =>
          [\A s \in Scopes : registry[s] = Limit - 1 => registry'[s] = registry[s]]_vars
  BY <1>1
<1> QED
  BY <1>2, AlwaysInv, PTL DEF Spec, FullScopeStaysFull

-----------------------------------------------------------------------------
(* The refinement.  A client's transaction is seen when it begins, when it  *)
(* commits and when the client has its answer; what it draws and holds in    *)
(* between is not.                                                          *)
GivenBy == [c \in Clients |-> IF at[c] = "answer" THEN taken[c] ELSE 0]

LEMMA InitBook == Init => Abstract!Init
BY DEF Init, Abstract!Init

(* What goes on before the commit is hidden.                                *)
LEMMA UnseenStatements ==
    ASSUME UNCHANGED <<scope, filed>>,
           \A c \in Clients : (at[c] # "answer" /\ at'[c] # "answer") \/ (at'[c] = at[c] /\ taken'[c] = taken[c])
    PROVE  UNCHANGED Abstract!bookVars
<1>1. GivenBy' = GivenBy
  BY DEF GivenBy
<1> QED
  BY <1>1 DEF Abstract!bookVars, GivenBy

(* The commit enters the number that was drawn, which is the next in the    *)
(* book: nobody else has committed in the scope since.                      *)
LEMMA CommitGives ==
    ASSUME IInv, NEW c \in Clients, Commit(c)
    PROVE  Abstract!Give(c)
<1> USE NumberingAssumption
<1> DEFINE s == scope[c]
<1>1. /\ s \in Scopes /\ s # None
      /\ registry[s] \in Nat
      /\ taken[c] = registry[s] + 1
      /\ taken[c] < Limit
  BY DEF IInv, Commit, TypeOK, Drawn, Holding
<1>2. Len(filed[s]) = registry[s]
  <2>1. filed[s] \in Seq(1..(Limit - 1)) /\ filed[s] = [i \in 1..registry[s] |-> i]
    BY <1>1 DEF IInv, TypeOK, NumbersInOrder
  <2> QED BY <1>1, <2>1
<1>3. GivenBy[c] = 0 /\ GivenBy' = [GivenBy EXCEPT ![c] = taken[c]]
  BY DEF GivenBy, Commit, IInv, TypeOK
<1>4. filed' = [filed EXCEPT ![s] = Append(@, taken[c])] /\ scope' = scope
  BY DEF Commit
<1>5. Abstract!NextNumber(s) = taken[c]
  BY <1>1, <1>2 DEF Abstract!NextNumber
<1> QED
  BY <1>1, <1>3, <1>4, <1>5 DEF Abstract!Give, GivenBy

LEMMA RequestAsks ==
    ASSUME IInv, NEW c \in Clients, NEW s \in Scopes, Request(c, s)
    PROVE  Abstract!Ask(c, s)
<1>1. scope[c] = None /\ scope' = [scope EXCEPT ![c] = s] /\ filed' = filed
  BY DEF IInv, TypeOK, Request
<1>2. GivenBy' = GivenBy
  BY DEF GivenBy, Request, IInv, TypeOK
<1> QED
  BY <1>1, <1>2 DEF Abstract!Ask, GivenBy

(* Refused, or answered.                                                    *)
LEMMA EndReturns ==
    ASSUME IInv, NEW c \in Clients, at[c] # "idle", Rollback(c) \/ Answer(c)
    PROVE  Abstract!Return(c)
<1>1. scope[c] # None /\ scope' = [scope EXCEPT ![c] = None] /\ filed' = filed
  BY DEF IInv, TypeOK, Rollback, Answer
<1>2. GivenBy' = [GivenBy EXCEPT ![c] = 0]
  BY DEF GivenBy, Rollback, Answer, IInv, TypeOK
<1> QED
  BY <1>1, <1>2 DEF Abstract!Return, GivenBy

LEMMA StepBook ==
    ASSUME IInv, [Next]_vars
    PROVE  [Abstract!Next]_(Abstract!bookVars)
<1> DEFINE Seen == Abstract!Next \/ UNCHANGED Abstract!bookVars
<1>1. ASSUME NEW c \in Clients, Commit(c) PROVE Seen
  BY <1>1, CommitGives DEF Abstract!Next
<1>2. ASSUME NEW c \in Clients, NEW s \in Scopes, Request(c, s) PROVE Seen
  BY <1>2, RequestAsks DEF Abstract!Next
<1>3. ASSUME NEW c \in Clients, UniqueViolation(c) \/ Fail(c) \/ Answer(c) PROVE Seen
  <2>1. at[c] # "idle" /\ (Rollback(c) \/ Answer(c))
    BY <1>3 DEF UniqueViolation, Fail, Answer
  <2> QED BY <2>1, EndReturns DEF Abstract!Next
<1>4. ASSUME NEW c \in Clients, UpdateRegistry(c) \/ NotFound(c) \/ InsertRegistry(c) \/ InsertRow(c) PROVE Seen
  <2>1. /\ UNCHANGED <<scope, filed>>
        /\ at[c] # "answer" /\ at'[c] # "answer"
        /\ \A d \in Clients \ {c} : at'[d] = at[d] /\ taken'[d] = taken[d]
    BY <1>4 DEF UpdateRegistry, InsertRegistry, Take, NotFound, InsertRow, AfterInsert, IInv, TypeOK
  <2> QED BY <2>1, UnseenStatements
<1>5. ASSUME UNCHANGED vars PROVE Seen
  BY <1>5, UnseenStatements DEF vars
<1> QED
  BY <1>1, <1>2, <1>3, <1>4, <1>5 DEF Next, Step

(* For any clients, scopes and number of digits, overlapping transactions    *)
(* enter their numbers in a book one by one, each the next of its scope.     *)
THEOREM ImplementsSerialNumbersCorrect == Spec => ImplementsSerialNumbers
BY InitBook, StepBook, AlwaysInv, PTL DEF Spec, ImplementsSerialNumbers, Abstract!Spec

-----------------------------------------------------------------------------
(* AuditTrail.  A session that may write is at hand only between its opening  *)
(* and the statement that changes it, whoever opens it.                        *)
AuditSteps ==
    /\ backend = "writing" => step = "set"
    /\ step = "connect" => conn = "null"
    /\ step \in {"set", "run"} => conn = "ok"
    /\ step = "run" => purpose \in Queries
    /\ step = "wire" => purpose = "init"
    /\ purpose \in Queries => initialized

AuditInv == AuditTypeOK /\ StatementsAreReadOnly /\ AuditSteps

LEMMA AuditInitInv == AuditInit => AuditInv
<1> QED
  BY DEF AuditInit, AuditInv, AuditTypeOK, StatementsAreReadOnly, AuditSteps, Queries

(* What a statement may answer                                                 *)
LEMMA Answers ==
    ASSUME NEW q PROVE Executed(q) \subseteq {"OK", "NOT_FOUND", "DB_ERROR"}
<1> QED
  BY DEF Executed

LEMMA LifeInv ==
    ASSUME AuditInv,
           InjectS3 \/ SystemInit \/ WireFacades \/ SystemInitAgain \/ SystemShutdown \/ ServerGoes
    PROVE  AuditInv'
<1> USE DEF AuditInv, AuditTypeOK, StatementsAreReadOnly, AuditSteps, Queries
<1>1. CASE InjectS3
  BY <1>1 DEF InjectS3
<1>2. CASE SystemInit
  BY <1>2 DEF SystemInit
<1>3. CASE WireFacades
  BY <1>3 DEF WireFacades
<1>4. CASE SystemInitAgain
  BY <1>4 DEF SystemInitAgain
<1>5. CASE SystemShutdown
  BY <1>5 DEF SystemShutdown
<1>6. CASE ServerGoes
  BY <1>6 DEF ServerGoes
<1> QED
  BY <1>1, <1>2, <1>3, <1>4, <1>5, <1>6

(* The opening of a connection, which ends in a session that may not write or  *)
(* in none at all                                                               *)
LEMMA OpeningInv ==
    ASSUME AuditInv, Connect \/ SetReadOnly
    PROVE  AuditInv'
<1> USE DEF AuditInv, AuditTypeOK, StatementsAreReadOnly, AuditSteps, Queries
<1>1. CASE Connect
  BY <1>1 DEF Connect, GiveUp
<1>2. CASE SetReadOnly
  BY <1>2 DEF SetReadOnly, AfterRefusedSet, GiveUp, AfterOpening
<1> QED
  BY <1>1, <1>2

LEMMA QueryInv ==
    ASSUME AuditInv, (\E q \in Queries : BeginQuery(q)) \/ RunStatement
    PROVE  AuditInv'
<1> USE DEF AuditInv, AuditTypeOK, StatementsAreReadOnly, AuditSteps
<1>1. ASSUME NEW q \in Queries, BeginQuery(q) PROVE AuditInv'
  BY <1>1 DEF BeginQuery, Reconnects, Queries
<1>2. CASE RunStatement
  BY <1>2, Answers DEF RunStatement, Queries
<1> QED
  BY <1>1, <1>2

(* The steps by kind                                                            *)
LEMMA AuditCases ==
    ASSUME AuditNext
    PROVE  \/ InjectS3 \/ SystemInit \/ WireFacades \/ SystemInitAgain \/ SystemShutdown \/ ServerGoes
           \/ Connect \/ SetReadOnly
           \/ (\E q \in Queries : BeginQuery(q)) \/ RunStatement
<1> QED
  BY DEF AuditNext, GetAuditChangeHistory, GetAuditOfficerActions, GetAuditTableChanges,
         AuditQueryByTimeWindow, DetectSuspiciousActivity, Queries

LEMMA AuditNextInv == AuditInv /\ [AuditNext]_auditVars => AuditInv'
<1> SUFFICES ASSUME AuditInv, [AuditNext]_auditVars PROVE AuditInv'
  OBVIOUS
<1>1. CASE AuditNext
  BY <1>1, AuditCases, LifeInv, OpeningInv, QueryInv
<1>2. CASE UNCHANGED auditVars
  BY <1>2 DEF auditVars, AuditInv, AuditTypeOK, StatementsAreReadOnly, AuditSteps
<1> QED
  BY <1>1, <1>2

LEMMA AlwaysAuditInv == AuditSpec => []AuditInv
<1> QED
  BY AuditInitInv, AuditNextInv, PTL DEF AuditSpec

(* The variables have their types, and there is a session at the other end    *)
(* just if there is a connection.                                              *)
THEOREM AuditTypeCorrect == AuditSpec => []AuditTypeOK
<1>1. AuditInv => AuditTypeOK
  BY DEF AuditInv
<1> QED
  BY <1>1, AlwaysAuditInv, PTL

(* "Read-only guarantee": a session is never queried before it has been set   *)
(* to read-only, wherever the database goes away while it is opened, set,       *)
(* queried or opened again.                                                      *)
THEOREM StatementsAreReadOnlyCorrect == AuditSpec => []StatementsAreReadOnly
<1>1. AuditInv => StatementsAreReadOnly
  BY DEF AuditInv
<1> QED
  BY <1>1, AlwaysAuditInv, PTL

(* ensureConnected: a connection that is null between two calls is opened      *)
(* neither by a query nor by init(), which returns at once when the system is   *)
(* initialised.                                                                  *)
THEOREM BlindUntilShutdownCorrect == AuditSpec => BlindUntilShutdown
<1>1. ASSUME AuditInv, [AuditNext]_auditVars, Blind, initialized'
      PROVE  Blind'
  <2>1. CASE (\E q \in Queries : BeginQuery(q)) \/ RunStatement
    BY <1>1, <2>1 DEF BeginQuery, Reconnects, RunStatement, Blind
  <2>2. CASE InjectS3 \/ SystemInit \/ WireFacades \/ SystemInitAgain \/ SystemShutdown \/ ServerGoes
    BY <1>1, <2>2
       DEF InjectS3, SystemInit, WireFacades, SystemInitAgain, SystemShutdown, ServerGoes, Blind
  <2>3. CASE Connect \/ SetReadOnly
    BY <1>1, <2>3 DEF Connect, SetReadOnly, Blind
  <2>4. CASE UNCHANGED auditVars
    BY <1>1, <2>4 DEF auditVars, Blind
  <2> QED
    BY <1>1, <2>1, <2>2, <2>3, <2>4, AuditCases
<1>2. AuditInv /\ [AuditNext]_auditVars => [Blind /\ initialized' => Blind']_auditVars
  BY <1>1
<1> QED
  BY <1>2, AlwaysAuditInv, PTL DEF AuditSpec, BlindUntilShutdown

-----------------------------------------------------------------------------
(* Parties.  The ids of the rows are the first numbers, so that a new row      *)
(* never takes the id of another.                                              *)
PartyRow ==
    [id : 1..MaxParties, kind : {"victim", "witness", "accused"}, person : Persons,
     added_by : Recorders, recorded_by : Recorders \cup {NoRecorder}]

PartyIds ==
    /\ IsFiniteSet(parties)
    /\ \A r \in parties : r.id \in 1..Cardinality(parties)

PartiesInv == PartiesTypeOK /\ PartyIds

LEMMA ActingOfficer ==
    ASSUME NEW s \in Recorders \cup {NoRecorder} PROVE Acting(s) \in Recorders
<1> QED
  BY PartiesAssumption DEF Acting

LEMMA PartiesInitInv == PartiesInit => PartiesInv
<1> SUFFICES ASSUME PartiesInit PROVE PartiesInv
  OBVIOUS
<1>1. PartiesTypeOK
  BY DEF PartiesInit, PartiesTypeOK, Of
<1>2. PartyIds
  BY FS_EmptySet DEF PartiesInit, PartyIds
<1> QED
  BY <1>1, <1>2 DEF PartiesInv

LEMMA InsertInv ==
    ASSUME PartiesInv, NEW kind \in {"victim", "witness", "accused"}, NEW person \in Persons,
           NEW by \in Recorders, NEW recorder \in Recorders \cup {NoRecorder},
           Insert(kind, person, by, recorder)
    PROVE  PartiesInv'
<1> DEFINE n == Cardinality(parties)
<1> DEFINE new == [id |-> n + 1, kind |-> kind, person |-> person, added_by |-> by,
                   recorded_by |-> recorder]
<1>1. /\ n \in Nat /\ n < MaxParties /\ MaxParties \in Nat
      /\ parties' = parties \cup {new}
      /\ UNCHANGED <<associations, vehicle_cases>>
  BY FS_CardinalityType, PartiesAssumption DEF PartiesInv, PartyIds, Insert
<1>2. /\ new \in PartyRow /\ new.id = n + 1 /\ new.kind = kind
      /\ new.added_by = by /\ new.recorded_by = recorder
  BY <1>1 DEF PartyRow
<1>3. \A r \in parties : r \in PartyRow /\ r.id # new.id
  BY <1>1, <1>2 DEF PartiesInv, PartyIds, PartiesTypeOK, PartyRow
<1>4. IsFiniteSet(parties') /\ Cardinality(parties') = n + 1
  BY <1>1, <1>3, FS_AddElement DEF PartiesInv, PartyIds
<1> HIDE DEF n, new
<1>5. PartiesTypeOK'
  <2>1. parties' \subseteq PartyRow /\ \A r, q \in parties' : r.id = q.id => r = q
    BY <1>1, <1>2, <1>3 DEF PartiesInv, PartiesTypeOK
  <2>2. Of("accused") \subseteq Of("accused")' /\ Of("witness") \subseteq Of("witness")'
    BY <1>1 DEF Of
  <2> QED
    BY <1>1, <2>1, <2>2 DEF PartiesInv, PartiesTypeOK, PartyRow
<1>6. PartyIds'
  BY <1>1, <1>2, <1>4 DEF PartiesInv, PartyIds, n
<1> QED
  BY <1>5, <1>6 DEF PartiesInv

LEMMA ProtectionInv ==
    ASSUME PartiesInv, NEW s \in Recorders \cup {NoRecorder}, NEW w \in Of("witness"),
           UpdateWitnessProtection(s, w)
    PROVE  PartiesInv'
<1> DEFINE new == [w EXCEPT !.recorded_by = Acting(s)]
<1>1. /\ w \in parties /\ w \in PartyRow /\ w.kind = "witness"
      /\ parties' = (parties \ {w}) \cup {new}
      /\ UNCHANGED <<associations, vehicle_cases>>
  BY DEF PartiesInv, PartiesTypeOK, PartyRow, Of, UpdateWitnessProtection
<1>2. new \in PartyRow /\ new.id = w.id /\ new.kind = w.kind
  BY <1>1, ActingOfficer DEF PartyRow
<1>3. \A r \in parties \ {w} : r.id # new.id
  BY <1>1, <1>2 DEF PartiesInv, PartiesTypeOK
<1>4. IsFiniteSet(parties') /\ Cardinality(parties') = Cardinality(parties)
  <2>1. /\ IsFiniteSet(parties) /\ Cardinality(parties) \in Nat
        /\ IsFiniteSet(parties \ {w}) /\ Cardinality(parties \ {w}) = Cardinality(parties) - 1
    BY <1>1, FS_CardinalityType, FS_RemoveElement DEF PartiesInv, PartyIds
  <2>2. new \notin parties \ {w}
    BY <1>3
  <2> DEFINE others == parties \ {w}
  <2>3. IsFiniteSet(others \cup {new}) /\ Cardinality(others \cup {new}) = Cardinality(others) + 1
    <3> HIDE DEF others, new
    <3> QED
      BY <2>1, <2>2, FS_AddElement DEF others
  <2> QED
    BY <1>1, <2>1, <2>3
<1> HIDE DEF new
<1>5. PartiesTypeOK'
  <2>1. parties' \subseteq PartyRow /\ \A r, q \in parties' : r.id = q.id => r = q
    BY <1>1, <1>2, <1>3 DEF PartiesInv, PartiesTypeOK, PartyRow
  <2>2. Of("accused") \subseteq Of("accused")'
    BY <1>1 DEF Of
  <2>3. associations' \subseteq {<<a.id, b.id>> : a, b \in Of("accused")'}
    BY <1>1, <2>2 DEF PartiesInv, PartiesTypeOK
  <2> QED
    BY <1>1, <2>1, <2>3 DEF PartiesInv, PartiesTypeOK, PartyRow, Of
<1>6. PartyIds'
  BY <1>1, <1>2, <1>4 DEF PartiesInv, PartyIds
<1> QED
  BY <1>5, <1>6 DEF PartiesInv

LEMMA LinkInv ==
    ASSUME PartiesInv, NEW s \in Recorders \cup {NoRecorder},
           \/ \E a, b \in Of("accused") : LinkAccusedAssociation(a, b)
           \/ \E v \in Vehicles, role \in Roles : LinkVehicleToCase(s, v, role)
    PROVE  PartiesInv'
<1>1. CASE \E a, b \in Of("accused") : LinkAccusedAssociation(a, b)
  <2>1. PICK a \in Of("accused"), b \in Of("accused") : LinkAccusedAssociation(a, b)
    BY <1>1
  <2> QED
    BY <2>1 DEF LinkAccusedAssociation, PartiesInv, PartiesTypeOK, PartyIds, Of
<1>2. CASE \E v \in Vehicles, role \in Roles : LinkVehicleToCase(s, v, role)
  <2>1. PICK v \in Vehicles, role \in Roles : LinkVehicleToCase(s, v, role)
    BY <1>2
  <2> DEFINE new == [vehicle |-> v, role |-> role, added_by |-> Acting(s)]
  <2>2. /\ vehicle_cases' = vehicle_cases \cup {new}
        /\ new \in [vehicle : Vehicles, role : Roles, added_by : Recorders]
        /\ new.vehicle = v /\ new.role = role
        /\ \A l \in vehicle_cases : l.vehicle # v \/ l.role # role
        /\ UNCHANGED <<parties, associations>>
    BY <2>1, ActingOfficer DEF LinkVehicleToCase
  <2> HIDE DEF new
  <2>3. PartiesTypeOK'
    BY <2>2 DEF PartiesInv, PartiesTypeOK, Of
  <2> QED
    BY <2>2, <2>3 DEF PartiesInv, PartyIds, Of
<1> QED
  BY <1>1, <1>2

LEMMA PartiesNextInv == PartiesInv /\ [PartiesNext]_partyVars => PartiesInv'
<1> SUFFICES ASSUME PartiesInv, [PartiesNext]_partyVars PROVE PartiesInv'
  OBVIOUS
<1>1. ASSUME NEW s \in Recorders \cup {NoRecorder}, NEW person \in Persons,
             \/ AddVictim(s, person)
             \/ AddAccused(s, person)
             \/ \E statement, file_path \in BOOLEAN : AddWitness(s, person, statement, file_path)
      PROVE  PartiesInv'
  BY <1>1, ActingOfficer, InsertInv DEF AddVictim, AddAccused, AddWitness
<1>2. ASSUME NEW s \in Recorders \cup {NoRecorder}, NEW w \in Of("witness"),
             UpdateWitnessProtection(s, w)
      PROVE  PartiesInv'
  BY <1>2, ProtectionInv
<1>3. ASSUME NEW a \in Of("accused"), NEW b \in Of("accused"), LinkAccusedAssociation(a, b)
      PROVE  PartiesInv'
  <2>1. NoRecorder \in Recorders \cup {NoRecorder}
    OBVIOUS
  <2> QED
    BY <1>3, <2>1, LinkInv
<1>4. ASSUME NEW s \in Recorders \cup {NoRecorder}, NEW v \in Vehicles, NEW role \in Roles,
             LinkVehicleToCase(s, v, role)
      PROVE  PartiesInv'
  BY <1>4, LinkInv
<1>5. CASE UNCHANGED partyVars
  BY <1>5 DEF partyVars, PartiesInv, PartiesTypeOK, PartyIds, Of
<1>6. CASE PartiesNext
  BY <1>6, <1>1, <1>2, <1>3, <1>4, <1>5
     DEF PartiesNext, GetVictimsByCase, GetWitnessesByCase, GetAccusedByCase, GetVehiclesByCase,
         PartiesUnchanged
<1> QED
  BY <1>5, <1>6

LEMMA AlwaysPartiesInv == PartiesSpec => []PartiesInv
<1> QED
  BY PartiesInitInv, PartiesNextInv, PTL DEF PartiesSpec

(* The variables have their types; no two rows share an id, and associations  *)
(* are of accused.                                                             *)
THEOREM PartiesTypeCorrect == PartiesSpec => []PartiesTypeOK
<1>1. PartiesInv => PartiesTypeOK
  BY DEF PartiesInv
<1> QED
  BY <1>1, AlwaysPartiesInv, PTL

-----------------------------------------------------------------------------
(* Exhibits, first part: evidence and the handler.                            *)
EvidenceTypes ==
    /\ epoch \in 0..MaxRestarts
    /\ exhibits \subseteq [id : 1..MaxRows, file : Files \cup {NoFile}, epoch : 0..epoch]
    /\ stage \in [Threads -> {"idle", "describe", "mmap", "insert"}]
    /\ file \in [Threads -> Files \cup {NoFile}]
    /\ is_mapped \in BOOLEAN
    /\ is_mapped <=> mappings # {}
    /\ fd \in Files \cup {NoFile}
    /\ mappings \subseteq Files
    /\ raced \in BOOLEAN

(* Where the threads are, and what the handler's fields mean to them.          *)
Mapped ==
    /\ \A t \in Threads : stage[t] \in {"describe", "mmap"} => file[t] # NoFile
    /\ \A t \in Threads : stage[t] = "mmap" => fd # NoFile
    /\ ~is_mapped => \A t \in Threads : stage[t] = "insert" => file[t] = NoFile

(* As long as no two threads were in map at once, the field is the thread's own *)
Alone ==
    ~raced =>
      /\ \A t, u \in Mapping : t = u
      /\ \A t \in Threads : stage[t] = "mmap" => fd = file[t]
      /\ \A t \in Threads : stage[t] = "insert" /\ file[t] # NoFile => file[t] \in mappings

(* Threads that may still log evidence with a file; once something is mapped    *)
(* there are no new ones.                                                       *)
Busy == {t \in Threads : stage[t] \in {"describe", "mmap"} \/ (stage[t] = "insert" /\ file[t] # NoFile)}

Bound == IF raced THEN Cardinality(Threads) ELSE 1

Counted ==
    /\ IsFiniteSet(exhibits)
    /\ ~is_mapped => Logged = {}
    /\ Cardinality(Logged) + Cardinality(Busy) <= Bound

EvidenceInv == EvidenceTypes /\ Mapped /\ Alone /\ Counted /\ LoggedFilesAreSecured

LEMMA Numbers ==
    /\ \A T \in SUBSET Threads : IsFiniteSet(T) /\ Cardinality(T) \in 0..Cardinality(Threads)
    /\ Cardinality(Threads) \in Nat /\ Cardinality(Threads) >= 1
    /\ Cardinality({}) = 0
    /\ \A t : Cardinality({t}) = 1
<1>1. IsFiniteSet(Threads) /\ Threads # {} /\ Cardinality(Threads) \in Nat
  BY ExhibitsAssumption, FS_CardinalityType
<1>2. \A T \in SUBSET Threads :
          IsFiniteSet(T) /\ Cardinality(T) \in Nat /\ Cardinality(T) <= Cardinality(Threads)
  BY <1>1, FS_Subset, FS_CardinalityType
<1> QED
  BY <1>1, <1>2, FS_EmptySet, FS_Singleton

LEMMA LoggedIsFinite ==
    ASSUME IsFiniteSet(exhibits) PROVE IsFiniteSet(Logged) /\ Cardinality(Logged) \in Nat
<1> QED
  BY FS_Subset, FS_CardinalityType DEF Logged

LEMMA EvidenceInit == ExhibitsInit => EvidenceInv
<1> SUFFICES ASSUME ExhibitsInit PROVE EvidenceInv
  OBVIOUS
<1> USE DEF ExhibitsInit
<1>1. EvidenceTypes
  <2>1. epoch \in 0..MaxRestarts /\ exhibits \subseteq {}
    BY ExhibitsAssumption
  <2> QED
    BY <2>1 DEF EvidenceTypes
<1>2. Mapped /\ Alone
  BY DEF Mapped, Alone, Mapping
<1>3. Logged = {} /\ Busy = {} /\ IsFiniteSet({})
  BY FS_EmptySet DEF Logged, Busy
<1>4. Counted /\ LoggedFilesAreSecured
  BY <1>3, Numbers DEF Counted, LoggedFilesAreSecured, Bound
<1> QED
  BY <1>1, <1>2, <1>4 DEF EvidenceInv

LEMMA EvidenceSame ==
    ASSUME EvidenceInv, UNCHANGED <<epoch, evidenceVars>>
    PROVE  EvidenceInv'
<1> QED
  BY DEF evidenceVars, EvidenceInv, EvidenceTypes, Mapped, Alone, Mapping, Busy, Bound, Counted,
         Logged, LoggedFilesAreSecured

LEMMA BeginWithFileInv ==
    ASSUME EvidenceInv, NEW t \in Threads, NEW f \in Files, BeginWithFile(t, f)
    PROVE  EvidenceInv'
<1> USE DEF EvidenceInv, BeginWithFile, MayMap, Free
<1>1. EvidenceTypes'
  BY DEF EvidenceTypes
<1>2. Mapped'
  BY ExhibitsAssumption DEF EvidenceTypes, Mapped
<1>3. Alone'
  BY DEF EvidenceTypes, Alone, Mapping
<1>4. Logged' = {} /\ Logged = {}
  BY DEF Counted, Logged
<1>5. Counted'
  <2>1. Busy' \subseteq Threads /\ (~raced' => Busy' \subseteq {t})
    BY DEF EvidenceTypes, Mapped, Busy, Mapping
  <2>2. CASE raced'
    <3>1. Cardinality(Busy') \in Nat /\ Cardinality(Busy') <= Cardinality(Threads)
      BY <2>1, Numbers
    <3>2. Cardinality(Logged') = 0 /\ Bound' = Cardinality(Threads)
      BY <1>4, <2>2, Numbers DEF Bound
    <3> QED
      BY <1>4, <3>1, <3>2 DEF Counted
  <2>3. CASE ~raced'
    <3>1. Busy' = {} \/ Busy' = {t}
      BY <2>1, <2>3
    <3>2. Cardinality(Busy') \in {0, 1}
      BY <3>1, Numbers
    <3>3. Cardinality(Logged') = 0 /\ Bound' = 1
      BY <1>4, <2>3, Numbers DEF Bound
    <3> QED
      BY <1>4, <3>2, <3>3 DEF Counted
  <2> QED
    BY <2>2, <2>3
<1>6. LoggedFilesAreSecured'
  BY <1>4 DEF LoggedFilesAreSecured
<1> QED
  BY <1>1, <1>2, <1>3, <1>5, <1>6

(* A step after which nobody is busy who was not before, and which leaves the   *)
(* rows and the history as they are.                                            *)
LEMMA FewerBusy ==
    ASSUME EvidenceInv, UNCHANGED <<epoch, exhibits, raced>>, Busy' \subseteq Busy,
           ~is_mapped' => ~is_mapped
    PROVE  Counted'
<1>1. Logged' = Logged
  BY DEF Logged
<1>2. Busy \subseteq Threads /\ IsFiniteSet(Busy) /\ Cardinality(Busy) \in Nat
  BY Numbers DEF Busy
<1>3. Cardinality(Busy') \in Nat /\ Cardinality(Busy') <= Cardinality(Busy)
  BY <1>2, FS_Subset, FS_CardinalityType
<1>4. Cardinality(Logged) \in Nat /\ Bound \in Nat /\ Bound' = Bound
  BY LoggedIsFinite, Numbers DEF EvidenceInv, Counted, Bound
<1> QED
  BY <1>1, <1>2, <1>3, <1>4 DEF EvidenceInv, Counted

LEMMA BeginWithoutFileInv ==
    ASSUME EvidenceInv, NEW t \in Threads, BeginWithoutFile(t)
    PROVE  EvidenceInv'
<1> USE DEF EvidenceInv, BeginWithoutFile, Free
<1>1. EvidenceTypes'
  BY DEF EvidenceTypes
<1>2. Mapped' /\ Alone'
  BY DEF EvidenceTypes, Mapped, Alone, Mapping
<1>3. Counted'
  BY FewerBusy DEF EvidenceTypes, Busy
<1>4. LoggedFilesAreSecured'
  BY DEF LoggedFilesAreSecured, Logged
<1> QED
  BY <1>1, <1>2, <1>3, <1>4

LEMMA DescribeFileInv ==
    ASSUME EvidenceInv, NEW t \in Threads, DescribeFile(t)
    PROVE  EvidenceInv'
<1> USE DEF EvidenceInv, DescribeFile
<1>1. EvidenceTypes'
  BY DEF EvidenceTypes
<1>2. Mapped' /\ Alone'
  BY DEF EvidenceTypes, Mapped, Alone, Mapping
<1>3. Counted'
  BY FewerBusy DEF EvidenceTypes, Busy
<1>4. LoggedFilesAreSecured'
  BY DEF LoggedFilesAreSecured, Logged
<1> QED
  BY <1>1, <1>2, <1>3, <1>4

LEMMA MapFileInv ==
    ASSUME EvidenceInv, NEW t \in Threads, MapFile(t)
    PROVE  EvidenceInv'
<1> USE DEF EvidenceInv, MapFile
<1>1. fd \in Files
  BY DEF EvidenceTypes, Mapped
<1>2. EvidenceTypes'
  BY <1>1 DEF EvidenceTypes
<1>3. Mapped' /\ Alone'
  BY DEF EvidenceTypes, Mapped, Alone, Mapping
<1>4. Counted'
  BY FewerBusy DEF EvidenceTypes, Busy
<1>5. LoggedFilesAreSecured'
  BY DEF LoggedFilesAreSecured, Logged
<1> QED
  BY <1>2, <1>3, <1>4, <1>5

LEMMA MapFailsInv ==
    ASSUME EvidenceInv, NEW t \in Threads, MapFails(t)
    PROVE  EvidenceInv'
<1> USE DEF EvidenceInv, MapFails, AfterFailedMap
<1>1. EvidenceTypes'
  BY DEF EvidenceTypes
<1>2. Mapped' /\ Alone'
  BY DEF EvidenceTypes, Mapped, Alone, Mapping
<1>3. Counted'
  BY FewerBusy DEF EvidenceTypes, Busy
<1>4. LoggedFilesAreSecured'
  BY DEF LoggedFilesAreSecured, Logged
<1> QED
  BY <1>1, <1>2, <1>3, <1>4

LEMMA InsertEvidenceInv ==
    ASSUME EvidenceInv, NEW t \in Threads, InsertEvidence(t)
    PROVE  EvidenceInv'
<1> DEFINE new == [id |-> Cardinality(exhibits) + 1, file |-> file[t], epoch |-> epoch]
<1>1. /\ stage[t] = "insert" /\ stage' = [stage EXCEPT ![t] = "idle"]
      /\ UNCHANGED <<epoch, file, is_mapped, fd, mappings, raced>>
      /\ exhibits' = exhibits \/ (Cardinality(exhibits) < MaxRows /\ exhibits' = exhibits \cup {new})
  BY DEF InsertEvidence
<1>2. Cardinality(exhibits) \in Nat /\ MaxRows \in Nat /\ file[t] \in Files \cup {NoFile} /\ epoch \in 0..epoch
  BY FS_CardinalityType, ExhibitsAssumption DEF EvidenceInv, Counted, EvidenceTypes
<1>3. /\ new.file = file[t] /\ new.epoch = epoch
      /\ Cardinality(exhibits) < MaxRows =>
            new \in [id : 1..MaxRows, file : Files \cup {NoFile}, epoch : 0..epoch]
  BY <1>2
<1> HIDE DEF new
<1>4. EvidenceTypes'
  BY <1>1, <1>3 DEF EvidenceInv, EvidenceTypes
<1>5. Mapped' /\ Alone'
  BY <1>1 DEF EvidenceInv, EvidenceTypes, Mapped, Alone, Mapping
<1>6. Logged' = Logged \/ (file[t] # NoFile /\ Logged' = Logged \cup {new})
  BY <1>1, <1>3 DEF Logged
<1>7. Busy' = IF file[t] = NoFile THEN Busy ELSE Busy \ {t}
  BY <1>1 DEF EvidenceInv, EvidenceTypes, Busy
<1>8. t \in Busy <=> file[t] # NoFile
  BY <1>1 DEF Busy
<1>9. /\ IsFiniteSet(exhibits') /\ IsFiniteSet(Logged) /\ Cardinality(Logged) \in Nat
      /\ Cardinality(Logged') \in Nat
      /\ Cardinality(Logged') <= IF file[t] = NoFile THEN Cardinality(Logged) ELSE Cardinality(Logged) + 1
  BY <1>1, <1>6, LoggedIsFinite, FS_AddElement DEF EvidenceInv, Counted
<1>10. /\ Cardinality(Busy) \in Nat
       /\ Cardinality(Busy') = IF file[t] = NoFile THEN Cardinality(Busy) ELSE Cardinality(Busy) - 1
  <2>1. IsFiniteSet(Busy) /\ Cardinality(Busy) \in Nat
    BY Numbers DEF Busy
  <2> QED
    BY <1>7, <1>8, <2>1, FS_RemoveElement
<1>11. Counted'
  <2>1. Bound' = Bound /\ Bound \in Nat
    BY <1>1, Numbers DEF Bound
  <2>2. ~is_mapped => file[t] = NoFile /\ Logged' = {}
    BY <1>1, <1>6 DEF EvidenceInv, Mapped, Counted
  <2> QED
    BY <1>1, <1>9, <1>10, <2>1, <2>2 DEF EvidenceInv, Counted
<1>12. LoggedFilesAreSecured'
  <2>1. ~raced /\ file[t] # NoFile => file[t] \in mappings
    BY <1>1 DEF EvidenceInv, Alone
  <2>2. mappings' = mappings /\ raced' = raced
    BY <1>1
  <2> QED
    BY <1>3, <1>6, <2>1, <2>2 DEF EvidenceInv, LoggedFilesAreSecured
<1> QED
  BY <1>4, <1>5, <1>11, <1>12 DEF EvidenceInv

LEMMA RestartEvidence ==
    ASSUME EvidenceInv, Restart
    PROVE  EvidenceInv'
<1> USE DEF EvidenceInv, Restart
<1>1. EvidenceTypes'
  <2>1. epoch' \in 0..MaxRestarts /\ 0..epoch \subseteq 0..epoch'
    BY ExhibitsAssumption DEF EvidenceTypes
  <2>2. exhibits' \subseteq [id : 1..MaxRows, file : Files \cup {NoFile}, epoch : 0..epoch']
    BY <2>1 DEF EvidenceTypes
  <2> QED
    BY <2>1, <2>2 DEF EvidenceTypes
<1>2. Mapped' /\ Alone'
  BY DEF Mapped, Alone, Mapping
<1>3. Logged' = {} /\ Busy' = {}
  BY ExhibitsAssumption DEF EvidenceTypes, Logged, Busy
<1>4. Counted' /\ LoggedFilesAreSecured'
  BY <1>3, Numbers DEF Counted, LoggedFilesAreSecured, Bound
<1> QED
  BY <1>1, <1>2, <1>4

-----------------------------------------------------------------------------
(* Second part: charge sheets.  Their ids are the first numbers, so that a new *)
(* draft is no thread's sheet and no UPDATE was sent about it.                 *)
SheetTypes ==
    /\ sheet \in [Threads -> [id : 1..MaxSheets \cup {NoSheet}, laws : BOOLEAN, locked : BOOLEAN]]
    /\ submitting \subseteq {t \in Threads : sheet[t].locked}
    /\ drafts \subseteq [id : 1..MaxSheets, status : {"DRAFT", "SUBMITTED_TO_COURT"},
                         filing_date : BOOLEAN, laws_invoked : BOOLEAN, is_locked : BOOLEAN]
    /\ \A d, e \in drafts : d.id = e.id => d = e
    /\ \A t, u \in Threads : t # u /\ Has(t) => sheet[t].id # sheet[u].id
    /\ sent \in [1..MaxSheets -> Nat]

Drafted ==
    /\ IsFiniteSet(drafts)
    /\ \A d \in drafts : d.id <= Cardinality(drafts) /\ ~d.filing_date /\ ~d.laws_invoked
    /\ \A t \in Threads : Has(t) => sheet[t].id <= Cardinality(drafts)
    /\ \A t \in Threads : sheet[t].locked => Has(t)
    /\ \A d \in 1..MaxSheets : d > Cardinality(drafts) => sent[d] = 0

SheetInv == SheetTypes /\ Drafted /\ SheetsNeverReachCourt

LEMMA SheetInit == ExhibitsInit => SheetInv
<1> SUFFICES ASSUME ExhibitsInit PROVE SheetInv
  OBVIOUS
<1> USE DEF ExhibitsInit
<1>1. \A t \in Threads : sheet[t] = Blank /\ ~Has(t) /\ ~sheet[t].locked
  BY DEF Blank, Has
<1>2. SheetTypes
  BY <1>1 DEF SheetTypes, Blank, Has
<1>3. Drafted
  BY <1>1, FS_EmptySet DEF Drafted
<1>4. SheetsNeverReachCourt
  BY <1>1 DEF SheetsNeverReachCourt
<1> QED
  BY <1>2, <1>3, <1>4 DEF SheetInv

LEMMA SheetSame ==
    ASSUME SheetInv, UNCHANGED sheetVars
    PROVE  SheetInv'
<1> QED
  BY DEF sheetVars, SheetInv, SheetTypes, Drafted, Has, SheetsNeverReachCourt

LEMMA DraftInv ==
    ASSUME SheetInv, NEW t \in Threads, Draft(t)
    PROVE  SheetInv'
<1> DEFINE n == Cardinality(drafts)
<1> DEFINE new == [id |-> n + 1, status |-> "DRAFT", filing_date |-> FALSE, laws_invoked |-> FALSE,
                   is_locked |-> FALSE]
<1> DEFINE mine == [Blank EXCEPT !.id = n + 1]
<1>1. /\ n \in Nat /\ MaxSheets \in Nat /\ n + 1 <= MaxSheets
      /\ drafts' = drafts \cup {new}
      /\ sheet' = sheet \/ sheet' = [sheet EXCEPT ![t] = mine]
      /\ t \notin submitting
      /\ UNCHANGED <<submitting, sent>>
  BY FS_CardinalityType, ExhibitsAssumption DEF SheetInv, Drafted, Draft, NextDraft, Free
<1>2. /\ new \in [id : 1..MaxSheets, status : {"DRAFT", "SUBMITTED_TO_COURT"},
                  filing_date : BOOLEAN, laws_invoked : BOOLEAN, is_locked : BOOLEAN]
      /\ new.id = n + 1 /\ new.status = "DRAFT"
      /\ ~new.filing_date /\ ~new.laws_invoked /\ ~new.is_locked
  BY <1>1
<1>3. /\ mine \in [id : 1..MaxSheets \cup {NoSheet}, laws : BOOLEAN, locked : BOOLEAN]
      /\ mine.id = n + 1 /\ ~mine.locked /\ mine.id # NoSheet
  <2>1. n + 1 \in 1..MaxSheets /\ n + 1 # NoSheet
    BY <1>1, ExhibitsAssumption
  <2>2. Blank \in [id : 1..MaxSheets \cup {NoSheet}, laws : BOOLEAN, locked : BOOLEAN] /\ ~Blank.locked
    BY DEF Blank
  <2> HIDE DEF n
  <2> QED
    BY <2>1, <2>2
<1>4. \A d \in drafts : d.id \in 1..MaxSheets /\ d.id # n + 1 /\ d # new
  BY <1>1, <1>2 DEF SheetInv, SheetTypes, Drafted
<1>5. IsFiniteSet(drafts') /\ Cardinality(drafts') = n + 1
  BY <1>1, <1>4, FS_AddElement DEF SheetInv, Drafted
<1> HIDE DEF new, mine
<1>6. \A u \in Threads : u # t \/ sheet' = sheet => sheet'[u] = sheet[u]
  BY <1>1 DEF SheetInv, SheetTypes
<1>7. sheet'[t] = sheet[t] \/ sheet'[t] = mine
  BY <1>1 DEF SheetInv, SheetTypes
<1>8. \A u \in Threads : Has(u) => sheet[u].id \in 1..n
  BY <1>1 DEF SheetInv, SheetTypes, Drafted, Has
<1>9. SheetTypes'
  <2>1. sheet' \in [Threads -> [id : 1..MaxSheets \cup {NoSheet}, laws : BOOLEAN, locked : BOOLEAN]]
    BY <1>1, <1>3 DEF SheetInv, SheetTypes
  <2>2. submitting' \subseteq {u \in Threads : sheet'[u].locked}
    BY <1>1, <1>6 DEF SheetInv, SheetTypes
  <2>3. \A d, e \in drafts' : d.id = e.id => d = e
    BY <1>1, <1>2, <1>4 DEF SheetInv, SheetTypes
  <2>4. \A u, v \in Threads : u # v /\ sheet'[u].id # NoSheet => sheet'[u].id # sheet'[v].id
    BY <1>1, <1>3, <1>6, <1>7, <1>8, ExhibitsAssumption DEF SheetInv, SheetTypes, Has
  <2> QED
    BY <1>1, <1>2, <2>1, <2>2, <2>3, <2>4 DEF SheetInv, SheetTypes, Has
<1>10. Drafted'
  <2>1. \A d \in drafts' : d.id <= n + 1 /\ ~d.filing_date /\ ~d.laws_invoked
    BY <1>1, <1>2, <1>4 DEF SheetInv, Drafted, SheetTypes
  <2>2. \A u \in Threads : Has(u)' => sheet'[u].id <= n + 1
    BY <1>1, <1>3, <1>6, <1>7, <1>8 DEF Has
  <2>3. \A u \in Threads : sheet'[u].locked => Has(u)'
    BY <1>3, <1>6, <1>7 DEF SheetInv, Drafted, Has
  <2>4. \A d \in 1..MaxSheets : d > n + 1 => sent'[d] = 0
    BY <1>1 DEF SheetInv, Drafted
  <2> QED
    BY <1>5, <2>1, <2>2, <2>3, <2>4 DEF Drafted
<1>11. SheetsNeverReachCourt'
  <2>1. \A d \in drafts' : d.status = "DRAFT" /\ ~d.is_locked
    BY <1>1, <1>2 DEF SheetInv, SheetsNeverReachCourt
  <2>2. sent[n + 1] = 0
    BY <1>1 DEF SheetInv, Drafted
  <2>3. ASSUME NEW u \in Threads, Has(u)'
        PROVE  sent'[sheet'[u].id] = IF sheet'[u].locked /\ u \notin submitting' THEN 1 ELSE 0
    <3>1. CASE sheet'[u] = sheet[u]
      BY <1>1, <2>3, <3>1 DEF SheetInv, SheetsNeverReachCourt, Has
    <3>2. CASE u = t /\ sheet'[t] = mine
      BY <1>1, <1>3, <2>2, <3>2
    <3> QED
      BY <1>6, <1>7, <3>1, <3>2
  <2> QED
    BY <2>1, <2>3 DEF SheetsNeverReachCourt
<1> QED
  BY <1>9, <1>10, <1>11 DEF SheetInv

LEMMA AddLawInvokedInv ==
    ASSUME SheetInv, NEW t \in Threads, AddLawInvoked(t)
    PROVE  SheetInv'
<1> USE DEF SheetInv, AddLawInvoked
<1>1. /\ \A u \in Threads : sheet'[u].id = sheet[u].id /\ sheet'[u].locked = sheet[u].locked
      /\ sheet' \in [Threads -> [id : 1..MaxSheets \cup {NoSheet}, laws : BOOLEAN, locked : BOOLEAN]]
  BY DEF SheetTypes
<1>2. SheetTypes'
  BY <1>1 DEF SheetTypes, Has
<1>3. Drafted'
  BY <1>1 DEF Drafted, Has
<1>4. SheetsNeverReachCourt'
  BY <1>1 DEF SheetsNeverReachCourt, Has
<1> QED
  BY <1>2, <1>3, <1>4

(* The sheet was not locked, so no UPDATE has been sent, and none is now.      *)
LEMMA SubmitInv ==
    ASSUME SheetInv, NEW t \in Threads, SubmitToMagistrate(t)
    PROVE  SheetInv'
<1> USE DEF SheetInv, SubmitToMagistrate
<1>1. /\ \A u \in Threads : /\ sheet'[u].id = sheet[u].id
                            /\ u # t => sheet'[u].locked = sheet[u].locked
      /\ sheet'[t].locked /\ ~sheet[t].locked /\ Has(t)
      /\ sheet' \in [Threads -> [id : 1..MaxSheets \cup {NoSheet}, laws : BOOLEAN, locked : BOOLEAN]]
  BY DEF SheetTypes, MaySubmit
<1>2. SheetTypes'
  BY <1>1 DEF SheetTypes, Has
<1>3. Drafted'
  BY <1>1 DEF Drafted, Has
<1>4. SheetsNeverReachCourt'
  BY <1>1 DEF SheetsNeverReachCourt, Has
<1> QED
  BY <1>2, <1>3, <1>4

(* chk_filed_date_required refuses the UPDATE of every draft.                  *)
LEMMA UpdateSheetInv ==
    ASSUME SheetInv, NEW t \in Threads, UpdateSheet(t)
    PROVE  SheetInv'
<1> USE DEF SheetInv
<1> DEFINE id == sheet[t].id
<1>1. /\ t \in submitting /\ submitting' = submitting \ {t}
      /\ sent' = [sent EXCEPT ![id] = @ + 1]
      /\ UNCHANGED sheet
  BY DEF UpdateSheet
<1>2. drafts' = drafts
  BY DEF UpdateSheet, Drafted, Accepts
<1>3. sheet[t].locked /\ Has(t) /\ id \in 1..MaxSheets
  BY <1>1 DEF SheetTypes, Drafted, Has
<1>4. /\ sent' \in [1..MaxSheets -> Nat]
      /\ sent'[id] = sent[id] + 1
      /\ \A d \in 1..MaxSheets : d # id => sent'[d] = sent[d]
  BY <1>1, <1>3 DEF SheetTypes
<1>5. SheetTypes'
  BY <1>1, <1>2, <1>4 DEF SheetTypes, Has
<1>6. Drafted'
  <2>1. id <= Cardinality(drafts) /\ Cardinality(drafts) \in Nat
    BY <1>3, FS_CardinalityType DEF Drafted
  <2>2. \A d \in 1..MaxSheets : d > Cardinality(drafts) => sent'[d] = 0
    BY <1>3, <1>4, <2>1 DEF Drafted
  <2> QED
    BY <1>1, <1>2, <2>2 DEF Drafted, Has
<1>7. SheetsNeverReachCourt'
  <2>1. sent[id] = 0
    BY <1>1, <1>3 DEF SheetsNeverReachCourt
  <2>2. ASSUME NEW u \in Threads, Has(u), u # t
        PROVE  sent'[sheet[u].id] = sent[sheet[u].id]
    BY <1>3, <1>4, <2>2 DEF SheetTypes, Has
  <2> QED
    BY <1>1, <1>2, <1>3, <1>4, <2>1, <2>2 DEF SheetsNeverReachCourt, Has
<1> QED
  BY <1>5, <1>6, <1>7

LEMMA RestartSheets ==
    ASSUME SheetInv, Restart
    PROVE  SheetInv'
<1> USE DEF SheetInv, Restart
<1>1. \A t \in Threads : sheet'[t] = Blank /\ ~Has(t)' /\ ~sheet'[t].locked
  BY DEF Blank, Has
<1>2. SheetTypes'
  BY <1>1 DEF SheetTypes, Blank, Has
<1>3. Drafted' /\ SheetsNeverReachCourt'
  BY <1>1 DEF Drafted, SheetsNeverReachCourt
<1> QED
  BY <1>2, <1>3

-----------------------------------------------------------------------------
(* Both parts together: an action changes one of them.                         *)
LEMMA ExhibitsNextInv ==
    EvidenceInv /\ SheetInv /\ [ExhibitsNext]_exhibitVars => EvidenceInv' /\ SheetInv'
<1> SUFFICES ASSUME EvidenceInv, SheetInv, [ExhibitsNext]_exhibitVars
             PROVE  EvidenceInv' /\ SheetInv'
  OBVIOUS
<1>1. CASE UNCHANGED exhibitVars
  BY <1>1, EvidenceSame, SheetSame DEF exhibitVars, evidenceVars, sheetVars
<1>2. CASE Restart
  BY <1>2, RestartEvidence, RestartSheets
<1>3. ASSUME NEW t \in Threads,
             \/ \E f \in Files : BeginWithFile(t, f)
             \/ BeginWithoutFile(t) \/ DescribeFile(t) \/ MapFile(t) \/ MapFails(t) \/ InsertEvidence(t)
      PROVE  EvidenceInv' /\ SheetInv'
  <2>1. UNCHANGED sheetVars
    BY <1>3 DEF BeginWithFile, BeginWithoutFile, DescribeFile, MapFile, MapFails, InsertEvidence
  <2>2. EvidenceInv'
    BY <1>3, BeginWithFileInv, BeginWithoutFileInv, DescribeFileInv, MapFileInv, MapFailsInv,
       InsertEvidenceInv
  <2> QED
    BY <2>1, <2>2, SheetSame
<1>4. ASSUME NEW t \in Threads,
             Draft(t) \/ AddLawInvoked(t) \/ SubmitToMagistrate(t) \/ UpdateSheet(t)
      PROVE  EvidenceInv' /\ SheetInv'
  <2>1. UNCHANGED <<epoch, evidenceVars>>
    BY <1>4 DEF Draft, AddLawInvoked, SubmitToMagistrate, UpdateSheet
  <2>2. SheetInv'
    BY <1>4, DraftInv, AddLawInvokedInv, SubmitInv, UpdateSheetInv
  <2> QED
    BY <2>1, <2>2, EvidenceSame
<1>5. ASSUME NEW t \in Threads, Refuse(t) PROVE UNCHANGED exhibitVars
  BY <1>5 DEF Refuse
<1> QED
  BY <1>1, <1>2, <1>3, <1>4, <1>5 DEF ExhibitsNext, ExhibitsStep

LEMMA AlwaysExhibits == ExhibitsSpec => [](EvidenceInv /\ SheetInv)
<1> QED
  BY EvidenceInit, SheetInit, ExhibitsNextInv, PTL DEF ExhibitsSpec

(* The variables have their types, no two drafts share an id, and nobody        *)
(* submits without a sheet.                                                     *)
THEOREM ExhibitsTypeCorrect == ExhibitsSpec => []ExhibitsTypeOK
<1>1. EvidenceInv /\ SheetInv => ExhibitsTypeOK
  BY DEF EvidenceInv, SheetInv, EvidenceTypes, SheetTypes, ExhibitsTypeOK
<1> QED
  BY <1>1, AlwaysExhibits, PTL

(* logAndSecureEvidence: unless two threads were in MmapHandler::map at once,   *)
(* the file of what was logged is mapped, through any number of failures.        *)
THEOREM LoggedFilesAreSecuredCorrect == ExhibitsSpec => []LoggedFilesAreSecured
<1>1. EvidenceInv => LoggedFilesAreSecured
  BY DEF EvidenceInv
<1> QED
  BY <1>1, AlwaysExhibits, PTL

(* A handler that is never unmapped: one piece of evidence with a file for each *)
(* run of the program, or one for each of the threads that raced.               *)
THEOREM OneFilePerRunCorrect == ExhibitsSpec => []OneFilePerRun
<1>1. ASSUME EvidenceInv PROVE OneFilePerRun
  <2>1. Cardinality(Busy) \in Nat /\ Bound \in Nat
    BY Numbers DEF Busy, Bound
  <2>2. Cardinality(Logged) \in Nat
    BY <1>1, LoggedIsFinite DEF EvidenceInv, Counted
  <2>3. Cardinality(Logged) + Cardinality(Busy) <= Bound
    BY <1>1 DEF EvidenceInv, Counted
  <2> QED
    BY <2>1, <2>2, <2>3 DEF OneFilePerRun, Bound
<1> QED
  BY <1>1, AlwaysExhibits, PTL

(* submitChargeSheet: no row ever leaves DRAFT, and the UPDATE that would do it *)
(* is sent once.                                                                *)
THEOREM SheetsNeverReachCourtCorrect == ExhibitsSpec => []SheetsNeverReachCourt
<1>1. SheetInv => SheetsNeverReachCourt
  BY DEF SheetInv
<1> QED
  BY <1>1, AlwaysExhibits, PTL
-----------------------------------------------------------------------------
(* CaseFiles, for any programs, callers, clerks, officers and cases.           *)
Firs    == {"app"} \X Times \X (1..MaxSeq) \cup {"db"} \X {0} \X Nat
Entries == [old : Statuses, new : Statuses, by : Officers]
Calls   == [fir : {"app"} \X Times \X (1..MaxSeq), by : Officers] \cup {NoCall}

FileRows ==
    /\ DOMAIN cases \subseteq CaseIds /\ IsFiniteSet(DOMAIN cases)
    /\ cases \in [DOMAIN cases -> Rows]
    /\ log \in [DOMAIN cases -> Seq(Entries)]
    /\ maker \in [DOMAIN cases -> Makers]
    /\ reclosed \subseteq DOMAIN cases
    /\ \A c \in DOMAIN cases :
          /\ Rank[cases[c].filed_by] \in Filers
          /\ cases[c].approved_by # Nobody => cases[c].status = "CLOSED"

(* Numbers from the trigger count the cases that have one.                      *)
FromTrigger == {c \in DOMAIN cases : cases[c].fir[1] = "db"}
FirsDiffer ==
    /\ \A c, d \in DOMAIN cases : cases[c].fir = cases[d].fir => c = d
    /\ \A c \in FromTrigger : cases[c].fir[3] < Cardinality(FromTrigger)

FilesPart == FileRows /\ FirsDiffer /\ ClosersAreSenior

(* A run of a program draws each number once: the calls under way and the cases  *)
(* of that run have different ones, none above its counter.                       *)
NumbersPart ==
    /\ call \in [Callers -> Calls]
    /\ fir_seq \in [Programs -> 0..MaxSeq] /\ runs \in [Programs -> 0..MaxRuns]
    /\ \A t \in Callers : call[t] # NoCall => call[t].fir[3] <= fir_seq[Home[t]]
    /\ \A t, u \in Callers :
          call[t] # NoCall /\ call[u] # NoCall /\ Home[t] = Home[u] /\ call[t].fir[3] = call[u].fir[3]
          => t = u
    /\ \A c \in DOMAIN cases, p \in Programs, n \in 0..MaxRuns :
          maker[c] = <<p, n>> => /\ n <= runs[p]
                                 /\ n = runs[p] => cases[c].fir[3] <= fir_seq[p]
    /\ \A c \in DOMAIN cases, t \in Callers :
          maker[c] = Incarnation(t) /\ call[t] # NoCall => cases[c].fir[3] # call[t].fir[3]

(* What a clerk's transaction has checked or inserted; and what an officer has     *)
(* and would have if all transactions committed now.                                *)
InHand(k) == checked[k] \cup pending[k]
Burden(o) == Active(o) \cup UNION {ActiveIn(InHand(k), o) : k \in Clerks}

Limits ==
    /\ \A k \in Clerks, o \in Officers : Cardinality(ActiveIn(InHand(k), o)) <= CaseLimit
    /\ \A o \in Officers : Cardinality(Burden(o)) <= CaseLimit * Cardinality(Clerks)

StaffRows ==
    /\ assigned \subseteq Jobs /\ IsFiniteSet(assigned) /\ relieved \subseteq assigned
    /\ fit \subseteq Assignable
    /\ checked \in [Clerks -> SUBSET Jobs] /\ pending \in [Clerks -> SUBSET Jobs]
    /\ \A k \in Clerks : IsFiniteSet(InHand(k))
    /\ \A a \in assigned : Open(a.case)
    /\ \A k \in Clerks : \A a \in InHand(k) : Open(a.case)

StaffPart == StaffRows /\ Limits

FilesInv == FilesPart /\ NumbersPart /\ StaffPart /\ RefusedForAnothersCase

LEMMA LeastOne ==
    ASSUME NEW T, T \subseteq Nat, T # {}
    PROVE  \E x \in T : \A y \in T : x <= y
<1> DEFINE Less == {r \in Nat \X Nat : r[1] < r[2]}
<1>1. IsWellFoundedOn(Less, Nat)
  BY NatLessThanWellFounded DEF OpToRel
<1> HIDE DEF Less
<1>2. PICK x \in T : \A y \in T : ~(<<y, x>> \in Less)
  BY <1>1, WFMin
<1>3. \A y \in T : ~(y < x)
  BY <1>2 DEF Less
<1> QED BY <1>2, <1>3

LEMMA NextIdIsFree ==
    ASSUME ~Full
    PROVE  NextId \in CaseIds /\ NextId \notin DOMAIN cases
<1>1. {c \in CaseIds : ~Open(c)} \subseteq Nat /\ {c \in CaseIds : ~Open(c)} # {}
  BY CaseFilesAssumption DEF Full
<1>2. \E c \in CaseIds : ~Open(c) /\ \A d \in CaseIds : ~Open(d) => c <= d
  BY <1>1, LeastOne
<1> QED BY <1>2 DEF NextId, Open

(* No statement of subsystem 1 that writes is understood by the database, so no   *)
(* call has an effect on a row.                                                    *)
LEMMA NothingIsWritten ==
    ASSUME NEW e \in DutyEffects \cup PersonnelEffects
    PROVE  e.wrote = FALSE /\ e.code \in {"OK", "error", "throws"}
<1>1. \A q \in DutyWrites : "status" \in q.columns /\ q.table = "Duty_Roster"
  BY DEF DutyWrites, Update, Select
<1>2. \A q \in RouteStatements : q.writes => "active" \in q.columns /\ q.table = "Patrol_Routes"
  BY DEF RouteStatements, Update, Select
<1>3. \A q \in DeploymentStatements :
         q.writes => "active" \in q.columns /\ q.table = "Officer_Deployments"
  BY DEF DeploymentStatements, Update, Select
<1>4. \A q \in OfficerWrites :
         \/ q.numbers \cap Enums # {}
         \/ "belt_number" \in q.columns /\ q.table = "Officer_Rank_History"
  BY DEF OfficerWrites, Update, Select, Enums
<1>5. \A q \in RosterReads \cup DutyReads \cup OfficerById \cup OfficerReads \cup RankHistory : q.writes = FALSE
  BY DEF RosterReads, DutyReads, RosterOf, OfficerById, OfficerReads, OfficersBy, RankHistory, Select
<1>6. /\ "status" \notin Columns["Duty_Roster"] /\ "active" \notin Columns["Patrol_Routes"]
      /\ "active" \notin Columns["Officer_Deployments"]
      /\ "belt_number" \notin Columns["Officer_Rank_History"]
  BY DEF Columns
<1>7. \A q \in DutyStatements \cup PersonnelStatements : q.writes => ~Understood(q)
  BY <1>1, <1>2, <1>3, <1>4, <1>5, <1>6 DEF DutyStatements, PersonnelStatements, Understood
<1>8. \A q \in DutyStatements \cup PersonnelStatements : q.writes => WriteEffects(q) = {}
  BY <1>7 DEF WriteEffects
<1>9. \A q : ReadEffects(q) \subseteq Unchanged({"OK", "throws"})
  BY DEF ReadEffects, Unchanged
<1>10. e \in Unchanged({"error"}) \/ e \in Unchanged({"OK", "throws"})
  <2>1. PICK S \in {DutyStatements, PersonnelStatements} : e \in Effects(S)
    BY DEF DutyEffects, PersonnelEffects
  <2>2. CASE e \in UNION {IF q.writes THEN WriteEffects(q) ELSE ReadEffects(q) : q \in S}
    <3>1. PICK q \in S : e \in IF q.writes THEN WriteEffects(q) ELSE ReadEffects(q)
      BY <2>2
    <3>2. q \in DutyStatements \cup PersonnelStatements
      BY <2>1, <3>1
    <3> QED BY <3>1, <3>2, <1>8, <1>9
  <2> QED BY <2>1, <2>2 DEF Effects
<1> QED BY <1>10 DEF Unchanged

-----------------------------------------------------------------------------
(* Each part of the invariant only looks at some of the variables.               *)
LEMMA FilesFrame == ASSUME FilesPart, UNCHANGED fileVars PROVE FilesPart'
BY DEF FilesPart, FileRows, FirsDiffer, FromTrigger, ClosersAreSenior, fileVars

LEMMA NumbersFrame ==
    ASSUME NumbersPart, UNCHANGED <<cases, maker, call, fir_seq, runs>>
    PROVE  NumbersPart'
BY DEF NumbersPart, Incarnation

LEMMA LimitFrame ==
    ASSUME NEW A1, NEW A2, IsFiniteSet(A1), A2 \subseteq A1
    PROVE  IsFiniteSet(A2) /\ Cardinality(A2) \in Nat /\ Cardinality(A2) <= Cardinality(A1)
           /\ Cardinality(A1) \in Nat
BY FS_Subset, FS_CardinalityType

(* As many finite sets as K has members, none larger than L, have L times that      *)
(* many members together.                                                            *)
LEMMA FamilyBound ==
    ASSUME NEW K, IsFiniteSet(K), NEW L \in Nat, NEW F,
           \A k \in K : IsFiniteSet(F[k]) /\ Cardinality(F[k]) <= L,
           NEW S, S \subseteq UNION {F[k] : k \in K}
    PROVE  IsFiniteSet(S) /\ Cardinality(S) <= L * Cardinality(K)
<1> DEFINE Card(k) == Cardinality(F[k])
           Pairs == K \X (1..L)
           Count(k) == CHOOSE f : f \in Bijection(1..Card(k), F[k])
<1>1. ASSUME NEW k \in K PROVE Card(k) \in Nat /\ Card(k) <= L /\ Count(k) \in Bijection(1..Card(k), F[k])
  <2>1. Card(k) \in Nat /\ ExistsBijection(1..Card(k), F[k]) /\ Card(k) <= L
    BY FS_CardinalityType
  <2> QED BY <2>1, Zenon DEF ExistsBijection
<1>2. IsFiniteSet(Pairs) /\ Cardinality(Pairs) = Cardinality(K) * L /\ Cardinality(K) \in Nat
  <2>1. IsFiniteSet(1..L) /\ Cardinality(1..L) = L
    BY FS_Interval
  <2> QED BY <2>1, FS_Product, FS_CardinalityType
<1> HIDE DEF Card, Count
<1>3. ASSUME NEW k \in K, NEW x \in F[k] PROVE \E i \in 1..L : i <= Card(k) /\ Count(k)[i] = x
  <2>1. \E i \in 1..Card(k) : Count(k)[i] = x
    BY <1>1, <1>3 DEF Bijection, Surjection
  <2> QED BY <1>1, <2>1
<1>4. CASE S = {}
  BY <1>2, <1>4, FS_EmptySet
<1>5. CASE S # {}
  <2>1. PICK x0 : x0 \in S
    BY <1>5
  <2> DEFINE At(p) == Count(p[1])[p[2]]
             s == [p \in Pairs |-> IF At(p) \in S THEN At(p) ELSE x0]
  <2>2. s \in [Pairs -> S]
    BY <2>1
  <2>3. ASSUME NEW x \in S PROVE \E p \in Pairs : s[p] = x
    <3>1. PICK k \in K : x \in F[k]
      OBVIOUS
    <3>2. PICK i \in 1..L : Count(k)[i] = x
      BY <1>3, <3>1
    <3>3. <<k, i>> \in Pairs /\ At(<<k, i>>) = x
      BY <3>2
    <3> QED BY <3>3
  <2>4. s \in Surjection(Pairs, S)
    BY <2>2, <2>3 DEF Surjection
  <2>5. IsFiniteSet(S) /\ Cardinality(S) <= Cardinality(Pairs)
    BY <1>2, <2>4, FS_Surjection
  <2> QED BY <1>2, <2>5
<1> QED BY <1>4, <1>5

LEMMA LimitsAreNatural == CaseLimit \in Nat /\ CaseLimit * Cardinality(Clerks) \in Nat
<1>1. CaseLimit \in Nat /\ Cardinality(Clerks) \in Nat
  BY CaseFilesAssumption, FS_CardinalityType
<1>2. \A m, n \in Nat : m * n \in Nat
  OBVIOUS
<1> QED BY ONLY <1>1, <1>2

LEMMA LoadsAreFinite ==
    ASSUME StaffPart, NEW o \in Officers
    PROVE  /\ IsFiniteSet(Active(o)) /\ Cardinality(Active(o)) \in Nat
           /\ \A k \in Clerks : /\ IsFiniteSet(ActiveIn(InHand(k), o))
                                 /\ Cardinality(ActiveIn(InHand(k), o)) \in Nat
           /\ IsFiniteSet(Burden(o)) /\ Cardinality(Burden(o)) \in Nat
           /\ Cardinality(Clerks) \in Nat
<1>1. Active(o) \subseteq assigned /\ \A k \in Clerks : ActiveIn(InHand(k), o) \subseteq InHand(k)
  BY DEF Active, ActiveIn
<1>2. IsFiniteSet(Active(o)) /\ \A k \in Clerks : IsFiniteSet(ActiveIn(InHand(k), o))
  BY <1>1, FS_Subset DEF StaffPart, StaffRows
<1> DEFINE F == [k \in Clerks |-> ActiveIn(InHand(k), o)]
<1>4. IsFiniteSet(UNION {ActiveIn(InHand(k), o) : k \in Clerks})
  <2>1. \A k \in Clerks : F[k] = ActiveIn(InHand(k), o) /\ IsFiniteSet(F[k]) /\ Cardinality(F[k]) <= CaseLimit
    BY <1>2 DEF StaffPart, Limits
  <2> HIDE DEF F
  <2>2. UNION {ActiveIn(InHand(k), o) : k \in Clerks} \subseteq UNION {F[k] : k \in Clerks}
    BY <2>1
  <2> QED BY <2>1, <2>2, FamilyBound, CaseFilesAssumption
<1>5. IsFiniteSet(Burden(o))
  BY <1>2, <1>4, FS_Union DEF Burden
<1> QED BY <1>2, <1>5, FS_CardinalityType, CaseFilesAssumption

(* A step that gives nobody a row that nobody had keeps the limits.                  *)
LEMMA LimitsFrame ==
    ASSUME StaffPart, StaffRows',
           \A k \in Clerks, o \in Officers : ActiveIn(InHand(k), o)' \subseteq ActiveIn(InHand(k), o),
           \A o \in Officers : Burden(o)' \subseteq Burden(o)
    PROVE  StaffPart'
<1>1. ASSUME NEW k \in Clerks, NEW o \in Officers
      PROVE  Cardinality(ActiveIn(InHand(k), o)') <= CaseLimit
  <2>1. /\ IsFiniteSet(ActiveIn(InHand(k), o)) /\ ActiveIn(InHand(k), o)' \subseteq ActiveIn(InHand(k), o)
        /\ Cardinality(ActiveIn(InHand(k), o)) <= CaseLimit
    BY LoadsAreFinite DEF StaffPart, Limits
  <2>2. /\ Cardinality(ActiveIn(InHand(k), o)') <= Cardinality(ActiveIn(InHand(k), o))
        /\ Cardinality(ActiveIn(InHand(k), o)') \in Nat /\ Cardinality(ActiveIn(InHand(k), o)) \in Nat
    BY <2>1, LimitFrame
  <2> QED BY <2>1, <2>2, CaseFilesAssumption
<1>2. ASSUME NEW o \in Officers
      PROVE  Cardinality(Burden(o)') <= CaseLimit * Cardinality(Clerks)
  <2>1. /\ IsFiniteSet(Burden(o)) /\ Burden(o)' \subseteq Burden(o)
        /\ Cardinality(Burden(o)) <= CaseLimit * Cardinality(Clerks)
        /\ CaseLimit * Cardinality(Clerks) \in Nat
    BY LoadsAreFinite, LimitsAreNatural DEF StaffPart, Limits
  <2>2. /\ Cardinality(Burden(o)') <= Cardinality(Burden(o))
        /\ Cardinality(Burden(o)') \in Nat /\ Cardinality(Burden(o)) \in Nat
    BY <2>1, LimitFrame
  <2> HIDE DEF Burden
  <2> QED BY ONLY <2>1, <2>2
<1> QED BY <1>1, <1>2 DEF StaffPart, Limits

(* Files are opened and closed, never reopened and never removed.                 *)
LEMMA StaffFrame ==
    ASSUME StaffPart, UNCHANGED staff, DOMAIN cases \subseteq DOMAIN cases',
           \A c \in DOMAIN cases : cases[c].status = "CLOSED" => cases'[c].status = "CLOSED"
    PROVE  StaffPart'
<1> USE DEF staff
<1>1. StaffRows'
  BY DEF StaffPart, StaffRows, InHand, Open
<1>2. \A a \in assigned : Open(a.case)
  BY DEF StaffPart, StaffRows
<1>3. \A k \in Clerks : InHand(k)' = InHand(k) /\ \A a \in InHand(k) : Open(a.case)
  BY DEF StaffPart, StaffRows, InHand
<1>4. \A k \in Clerks, o \in Officers : ActiveIn(InHand(k), o)' \subseteq ActiveIn(InHand(k), o)
  BY <1>3 DEF ActiveIn, Open
<1>5. \A o \in Officers : Active(o)' \subseteq Active(o)
  BY <1>2 DEF Active, ActiveIn, Open
<1>6. \A o \in Officers : Burden(o)' \subseteq Burden(o)
  BY <1>4, <1>5 DEF Burden
<1> QED BY <1>1, <1>4, <1>6, LimitsFrame

(* A step that leaves the files, the numbers and the staff alone, and answers      *)
(* nothing like ALREADY_EXISTS.                                                     *)
LEMMA AnswerStep ==
    ASSUME FilesInv, UNCHANGED <<fileVars, staff, fir_seq, call, runs>>, last'.code # "ALREADY_EXISTS"
    PROVE  FilesInv'
<1>1. FilesPart' /\ NumbersPart'
  BY FilesFrame, NumbersFrame DEF FilesInv, fileVars
<1>2. StaffPart'
  BY StaffFrame DEF FilesInv, fileVars
<1> QED BY <1>1, <1>2 DEF FilesInv, RefusedForAnothersCase

LEMMA AnswerSteps ==
    ASSUME FilesInv, NEW t \in Callers,
           \/ RefuseRegisterCase(t) \/ RefuseClosing(t)
           \/ \E c \in CaseIds : GetCase(t, c) \/ FetchCase(t, c)
           \/ ListCases(t) \/ NotImplemented(t) \/ DutyCall(t) \/ PersonnelCall(t) \/ GenerateReport(t)
    PROVE  FilesInv'
<1>1. \A code \in {"OK", "error", "throws"} : Answered(code) => last'.code # "ALREADY_EXISTS"
  BY DEF Answered, Silent
<1>2. UNCHANGED <<fileVars, staff, fir_seq, call, runs>> /\ last'.code # "ALREADY_EXISTS"
  <2>1. CASE DutyCall(t) \/ PersonnelCall(t)
    BY <1>1, <2>1, NothingIsWritten DEF DutyCall, PersonnelCall, CallPersonnel, staff
  <2>2. CASE \/ RefuseRegisterCase(t) \/ RefuseClosing(t)
             \/ \E c \in CaseIds : GetCase(t, c) \/ FetchCase(t, c)
             \/ ListCases(t) \/ NotImplemented(t) \/ GenerateReport(t)
    BY <1>1, <2>2 DEF RefuseRegisterCase, RefuseClosing, GetCase, FetchCase, ListCases, NotImplemented,
       GenerateReport
  <2> QED BY <2>1, <2>2
<1> QED BY <1>2, AnswerStep

-----------------------------------------------------------------------------
(* Opening a file under a number that no other file has.                          *)
LEMMA FileStepRows ==
    ASSUME FilesPart, NEW fir \in Firs, NEW by \in Officers, NEW who \in Makers,
           File(fir, by, who), ~Clash(fir), Rank[by] \in Filers,
           fir[1] = "db" => fir[3] = Cardinality(FromTrigger)
    PROVE  FilesPart'
<1> USE CaseFilesAssumption DEF FilesPart
<1> DEFINE new == NextId
           row == [fir |-> fir, status |-> "REGISTERED", filed_by |-> by, approved_by |-> Nobody]
<1>1. new \in CaseIds /\ new \notin DOMAIN cases
  BY NextIdIsFree DEF File
<1>2. /\ cases' = With(cases, new, row) /\ log' = With(log, new, <<>>)
      /\ maker' = With(maker, new, who) /\ reclosed' = reclosed
  BY DEF File
<1>3. row \in Rows /\ row.fir = fir /\ row.filed_by = by /\ row.approved_by = Nobody
  BY DEF Rows, Firs, Statuses
<1> HIDE DEF new, row
<1>4. DOMAIN cases' = DOMAIN cases \cup {new} /\ DOMAIN log = DOMAIN cases /\ DOMAIN maker = DOMAIN cases
  BY <1>2 DEF With, FileRows
<1>5. /\ cases' \in [DOMAIN cases' -> Rows] /\ log' \in [DOMAIN cases' -> Seq(Entries)]
      /\ maker' \in [DOMAIN cases' -> Makers]
      /\ cases'[new] = row /\ log'[new] = <<>>
      /\ \A c \in DOMAIN cases : cases'[c] = cases[c] /\ log'[c] = log[c]
  <2>1. <<>> \in Seq(Entries)
    OBVIOUS
  <2>2. cases' \in [DOMAIN cases' -> Rows] /\ cases'[new] = row /\ \A c \in DOMAIN cases : cases'[c] = cases[c]
    BY <1>1, <1>2, <1>3, <1>4 DEF With, FileRows
  <2>3. log' \in [DOMAIN cases' -> Seq(Entries)] /\ log'[new] = <<>> /\ \A c \in DOMAIN cases : log'[c] = log[c]
    BY <1>1, <1>2, <1>4, <2>1 DEF With, FileRows
  <2>4. maker' \in [DOMAIN cases' -> Makers]
    BY <1>1, <1>2, <1>4 DEF With, FileRows
  <2> QED BY <2>2, <2>3, <2>4
<1>6. IsFiniteSet(DOMAIN cases')
  BY <1>4, FS_AddElement DEF FileRows
<1>7. FileRows'
  BY <1>1, <1>2, <1>3, <1>4, <1>5, <1>6 DEF FileRows
<1>8. FirsDiffer'
  <2>1. \A c, d \in DOMAIN cases' : cases'[c].fir = cases'[d].fir => c = d
    BY <1>3, <1>4, <1>5 DEF FirsDiffer, Clash
  <2>2. FromTrigger' = IF fir[1] = "db" THEN FromTrigger \cup {new} ELSE FromTrigger
    BY <1>1, <1>3, <1>4, <1>5 DEF FromTrigger
  <2>3. IsFiniteSet(FromTrigger) /\ Cardinality(FromTrigger) \in Nat /\ new \notin FromTrigger
    <3>1. FromTrigger \subseteq DOMAIN cases
      BY DEF FromTrigger
    <3> QED BY <1>1, <3>1, FS_Subset, FS_CardinalityType DEF FileRows
  <2>4. Cardinality(FromTrigger)' = IF fir[1] = "db" THEN Cardinality(FromTrigger) + 1
                                    ELSE Cardinality(FromTrigger)
    BY <2>2, <2>3, FS_AddElement
  <2>5. \A c \in FromTrigger : c \in DOMAIN cases /\ cases'[c] = cases[c] /\ cases[c].fir[3] \in Nat
    BY <1>5 DEF FromTrigger, FileRows, Rows
  <2>6. \A c \in FromTrigger' : cases'[c].fir[3] < Cardinality(FromTrigger)'
    BY <1>3, <1>5, <2>2, <2>3, <2>4, <2>5 DEF FirsDiffer
  <2> QED BY <2>1, <2>6 DEF FirsDiffer
<1>10. ClosersAreSenior'
  BY <1>2, <1>3, <1>4, <1>5 DEF ClosersAreSenior
<1> QED BY <1>7, <1>8, <1>10

LEMMA FileStepStaff ==
    ASSUME StaffPart, UNCHANGED staff, NEW fir, NEW by, NEW who, File(fir, by, who)
    PROVE  StaffPart'
<1>1. NextId \notin DOMAIN cases
  BY NextIdIsFree DEF File
<1>2. DOMAIN cases \subseteq DOMAIN cases' /\ \A c \in DOMAIN cases : cases'[c] = cases[c]
  BY <1>1 DEF File, With
<1> QED BY <1>2, StaffFrame

LEMMA RegisterFIRStep ==
    ASSUME FilesInv, NEW t \in Callers, NEW s \in Officers \cup {Nobody}, RegisterFIR(t, s)
    PROVE  FilesInv'
<1> USE CaseFilesAssumption
<1>1. UNCHANGED <<staff, fir_seq, call, runs>> /\ last'.code # "ALREADY_EXISTS"
  BY DEF RegisterFIR, Answered, Silent
<1>2. CASE UNCHANGED fileVars
  BY <1>1, <1>2, AnswerStep
<1>3. CASE ~UNCHANGED fileVars
  <2> DEFINE fir == <<"db", 0, Cardinality(FromTrigger)>>
  <2>1. PICK by \in Officers : Rank[by] \in Filers /\ File(fir, by, <<>>)
    BY <1>3 DEF RegisterFIR, MayFile, FromTrigger
  <2>2. IsFiniteSet(FromTrigger) /\ Cardinality(FromTrigger) \in Nat
    <3>1. FromTrigger \subseteq DOMAIN cases
      BY DEF FromTrigger
    <3> QED BY <3>1, FS_Subset, FS_CardinalityType DEF FilesInv, FilesPart, FileRows
  <2>3. fir \in Firs /\ fir[1] = "db" /\ fir[3] = Cardinality(FromTrigger)
    BY <2>2 DEF Firs
  <2>4. ~Clash(fir)
    <3> SUFFICES ASSUME NEW c \in DOMAIN cases, cases[c].fir = fir PROVE FALSE
      BY DEF Clash
    <3>1. c \in FromTrigger /\ cases[c].fir[3] = Cardinality(FromTrigger)
      BY <2>3 DEF FromTrigger
    <3> QED BY <2>2, <3>1 DEF FilesInv, FilesPart, FirsDiffer
  <2> HIDE DEF fir
  <2>5. <<>> \in Makers
    BY DEF Makers
  <2>6. FilesPart'
    BY <2>1, <2>3, <2>4, <2>5, FileStepRows DEF FilesInv
  <2>7. NumbersPart'
    <3>1. NextId \notin DOMAIN cases
      BY <2>1, NextIdIsFree DEF File
    <3>2. /\ DOMAIN cases' = DOMAIN cases \cup {NextId}
          /\ DOMAIN maker = DOMAIN cases
          /\ \A c \in DOMAIN cases : cases'[c] = cases[c]
      BY <2>1, <3>1 DEF File, With, FilesInv, FilesPart, FileRows
    <3>3. maker'[NextId] = <<>> /\ \A c \in DOMAIN cases : maker'[c] = maker[c]
      BY <2>1, <3>1, <3>2 DEF File, With
    <3>4. \A x, y : <<>> # <<x, y>>
      OBVIOUS
    <3>5. \A c \in DOMAIN cases' :
             \/ c \in DOMAIN cases /\ cases'[c] = cases[c] /\ maker'[c] = maker[c]
             \/ maker'[c] = <<>>
      BY <3>2, <3>3
    <3>6. \A u \in Callers : Incarnation(u) # <<>>
      BY <3>4 DEF Incarnation
    <3>7. \A c \in DOMAIN cases', p \in Programs, n \in 0..MaxRuns :
             maker'[c] = <<p, n>> => /\ n <= runs[p]
                                     /\ n = runs[p] => cases'[c].fir[3] <= fir_seq[p]
      BY <3>4, <3>5, ZenonT(30) DEF FilesInv, NumbersPart
    <3>8. \A c \in DOMAIN cases', u \in Callers :
             maker'[c] = Incarnation(u) /\ call[u] # NoCall => cases'[c].fir[3] # call[u].fir[3]
      <4> SUFFICES ASSUME NEW c \in DOMAIN cases', NEW u \in Callers,
                          maker'[c] = Incarnation(u), call[u] # NoCall
                   PROVE  cases'[c].fir[3] # call[u].fir[3]
        OBVIOUS
      <4>1. c \in DOMAIN cases /\ cases'[c] = cases[c] /\ maker[c] = Incarnation(u)
        BY ONLY <3>5, <3>6, maker'[c] = Incarnation(u), c \in DOMAIN cases', u \in Callers
      <4>2. cases[c].fir[3] # call[u].fir[3]
        BY ONLY <4>1, FilesInv, u \in Callers, call[u] # NoCall DEF FilesInv, NumbersPart
      <4> QED BY <4>1, <4>2
    <3>9. UNCHANGED <<call, fir_seq, runs>>
      BY <1>1
    <3>10. /\ call' \in [Callers -> Calls]
           /\ fir_seq' \in [Programs -> 0..MaxSeq] /\ runs' \in [Programs -> 0..MaxRuns]
           /\ \A u \in Callers : call'[u] # NoCall => call'[u].fir[3] <= fir_seq'[Home[u]]
           /\ \A u, v \in Callers :
                 call'[u] # NoCall /\ call'[v] # NoCall /\ Home[u] = Home[v] /\ call'[u].fir[3] = call'[v].fir[3]
                 => u = v
      BY <3>9 DEF FilesInv, NumbersPart
    <3>11. /\ \A c \in DOMAIN cases', p \in Programs, n \in 0..MaxRuns :
                 maker'[c] = <<p, n>> => /\ n <= runs'[p]
                                         /\ n = runs'[p] => cases'[c].fir[3] <= fir_seq'[p]
           /\ \A c \in DOMAIN cases', u \in Callers :
                 maker'[c] = <<Home[u], runs'[Home[u]]>> /\ call'[u] # NoCall => cases'[c].fir[3] # call'[u].fir[3]
      BY <3>7, <3>8, <3>9 DEF Incarnation
    <3> QED BY <3>10, <3>11 DEF NumbersPart, Incarnation
  <2>8. StaffPart'
    BY <1>1, <2>1, FileStepStaff DEF FilesInv
  <2> QED BY <1>1, <2>6, <2>7, <2>8 DEF FilesInv, RefusedForAnothersCase
<1> QED BY <1>2, <1>3

-----------------------------------------------------------------------------
LEMMA DrawNumberStep ==
    ASSUME FilesInv, NEW t \in Callers, NEW s \in Officers \cup {Nobody}, NEW time \in Times,
           DrawNumber(t, s, time)
    PROVE  FilesInv'
<1> USE CaseFilesAssumption DEF FilesInv
<1> DEFINE p == Home[t]
           draft == [fir |-> <<"app", time, NumberDrawn(p)>>, by |-> OnBehalfOf(s)]
<1>1. /\ UNCHANGED <<fileVars, staff, runs>> /\ call[t] = NoCall /\ fir_seq[p] < MaxSeq
      /\ fir_seq' = [fir_seq EXCEPT ![p] = NumberDrawn(p)] /\ call' = [call EXCEPT ![t] = draft]
      /\ last' = Silent
  BY DEF DrawNumber
<1>2. p \in Programs /\ fir_seq[p] \in 0..MaxSeq /\ NumberDrawn(p) = fir_seq[p] + 1
  BY DEF NumbersPart, NumberDrawn
<1>3. NumberDrawn(p) \in 1..MaxSeq
  BY <1>1, <1>2
<1>4. draft \in Calls /\ draft.fir[3] = fir_seq[p] + 1 /\ OnBehalfOf(s) \in Officers
  BY <1>2, <1>3 DEF Calls, OnBehalfOf
<1> HIDE DEF draft
<1>5. /\ call' \in [Callers -> Calls] /\ call'[t] = draft
      /\ \A u \in Callers : u # t => call'[u] = call[u]
  BY <1>1, <1>4 DEF NumbersPart
<1>6. /\ fir_seq' \in [Programs -> 0..MaxSeq] /\ fir_seq'[p] = fir_seq[p] + 1
      /\ \A q \in Programs : q # p => fir_seq'[q] = fir_seq[q]
  BY <1>1, <1>2, <1>3 DEF NumbersPart
<1>7. \A q \in Programs : fir_seq[q] \in Nat /\ fir_seq'[q] \in Nat /\ fir_seq[q] <= fir_seq'[q]
  BY <1>2, <1>6 DEF NumbersPart
<1>8. \A u \in Callers : Home[u] \in Programs /\ (call[u] # NoCall => call[u].fir[3] \in Nat)
  BY DEF NumbersPart, Calls
<1>9. NumbersPart'
  <2>1. \A u \in Callers : call'[u] # NoCall => call'[u].fir[3] <= fir_seq'[Home[u]]
    BY <1>4, <1>5, <1>6, <1>7, <1>8 DEF NumbersPart
  <2>2. \A u \in Callers : call[u] # NoCall /\ Home[u] = p => call[u].fir[3] < draft.fir[3]
    BY <1>2, <1>4, <1>8 DEF NumbersPart
  <2>3. \A u, v \in Callers :
           call'[u] # NoCall /\ call'[v] # NoCall /\ Home[u] = Home[v] /\ call'[u].fir[3] = call'[v].fir[3]
           => u = v
    <3> SUFFICES ASSUME NEW u \in Callers, NEW v \in Callers, call'[u] # NoCall, call'[v] # NoCall,
                        Home[u] = Home[v], call'[u].fir[3] = call'[v].fir[3], u # v
                 PROVE  FALSE
      OBVIOUS
    <3>1. CASE u # t /\ v # t
      BY <1>5, <3>1 DEF NumbersPart
    <3>2. CASE u = t
      BY <1>2, <1>4, <1>5, <1>8, <2>2, <3>2
    <3>3. CASE v = t
      BY <1>2, <1>4, <1>5, <1>8, <2>2, <3>3
    <3> QED BY <3>1, <3>2, <3>3
  <2>4. \A c \in DOMAIN cases : cases[c].fir[3] \in Nat
    BY DEF FilesPart, FileRows, Rows
  <2>5. UNCHANGED <<cases, maker, runs>>
    BY <1>1 DEF fileVars
  <2>6. \A c \in DOMAIN cases, q \in Programs, n \in 0..MaxRuns :
           maker[c] = <<q, n>> => n <= runs[q] /\ (n = runs[q] => cases[c].fir[3] <= fir_seq'[q])
    BY <1>7, <2>4 DEF NumbersPart
  <2>7. \A c \in DOMAIN cases, u \in Callers :
           maker[c] = Incarnation(u) /\ call'[u] # NoCall => cases[c].fir[3] # call'[u].fir[3]
    <3> SUFFICES ASSUME NEW c \in DOMAIN cases, NEW u \in Callers, maker[c] = Incarnation(u), call'[u] # NoCall
                 PROVE  cases[c].fir[3] # call'[u].fir[3]
      OBVIOUS
    <3>1. CASE u # t
      BY <1>5, <3>1 DEF NumbersPart
    <3>2. CASE u = t
      <4>1. maker[c] = <<p, runs[p]>> /\ runs[p] \in 0..MaxRuns
        BY <1>2, <3>2 DEF Incarnation, NumbersPart
      <4>2. cases[c].fir[3] <= fir_seq[p]
        BY <1>2, <4>1 DEF NumbersPart
      <4> QED BY <1>2, <1>4, <1>5, <2>4, <3>2, <4>2
    <3> QED BY <3>1, <3>2
  <2> QED BY <1>5, <1>6, <2>1, <2>3, <2>5, <2>6, <2>7 DEF NumbersPart, Incarnation
<1>10. FilesPart' /\ StaffPart'
  BY <1>1, FilesFrame, StaffFrame DEF fileVars
<1> QED BY <1>1, <1>9, <1>10 DEF RefusedForAnothersCase, Silent

(* A call that ends leaves the others their numbers.                               *)
LEMMA InsertCaseStep ==
    ASSUME FilesInv, NEW t \in Callers, NEW known \in BOOLEAN, InsertCase(t, known)
    PROVE  FilesInv'
<1> USE CaseFilesAssumption DEF FilesInv
<1> DEFINE fir == call[t].fir
           by == call[t].by
           who == Incarnation(t)
<1>1. /\ UNCHANGED <<staff, fir_seq, runs>> /\ call[t] # NoCall
      /\ call' = [call EXCEPT ![t] = NoCall]
  BY DEF InsertCase
<1>2. /\ fir \in {"app"} \X Times \X (1..MaxSeq) /\ by \in Officers
      /\ who = <<Home[t], runs[Home[t]]>> /\ Home[t] \in Programs /\ runs[Home[t]] \in 0..MaxRuns
  BY <1>1 DEF NumbersPart, Calls, Incarnation
<1>3. /\ call' \in [Callers -> Calls] /\ call'[t] = NoCall
      /\ \A u \in Callers : u # t => call'[u] = call[u]
  BY <1>1 DEF NumbersPart, Calls
<1>4. CASE /\ UNCHANGED fileVars
           /\ \/ last'.code # "ALREADY_EXISTS"
              \/ Verdict(fir, by, known) = "ALREADY_EXISTS" /\ last' = [code |-> "ALREADY_EXISTS", fir |-> fir, maker |-> who]
  <2>1. FilesPart' /\ StaffPart'
    BY <1>1, <1>4, FilesFrame, StaffFrame DEF fileVars
  <2>2. NumbersPart'
    BY <1>1, <1>3, <1>4 DEF NumbersPart, Incarnation, fileVars
  <2>3. RefusedForAnothersCase'
    <3>1. CASE last'.code # "ALREADY_EXISTS"
      BY <3>1 DEF RefusedForAnothersCase
    <3>2. CASE /\ Verdict(fir, by, known) = "ALREADY_EXISTS"
               /\ last' = [code |-> "ALREADY_EXISTS", fir |-> fir, maker |-> who]
      <4>1. PICK c \in DOMAIN cases : cases[c].fir = fir
        BY <3>2 DEF Verdict, Clash
      <4>2. maker[c] # who
        BY <1>1, <4>1 DEF NumbersPart
      <4> QED BY <1>4, <3>2, <4>1, <4>2 DEF RefusedForAnothersCase, fileVars
    <3> QED BY <1>4, <3>1, <3>2
  <2> QED BY <2>1, <2>2, <2>3
<1>5. CASE /\ Verdict(fir, by, known) = "OK" /\ File(fir, by, who)
           /\ last'.code # "ALREADY_EXISTS"
  <2>1. Rank[by] \in Filers /\ ~Clash(fir)
    BY <1>5 DEF Verdict, MayFile
  <2>2. fir \in Firs /\ fir[1] # "db" /\ who \in Makers
    BY <1>2 DEF Firs, Makers
  <2>3. FilesPart'
    BY <1>2, <1>5, <2>1, <2>2, FileStepRows
  <2>4. StaffPart'
    BY <1>1, <1>5, FileStepStaff
  <2>5. NextId \notin DOMAIN cases
    BY <1>5, NextIdIsFree DEF File
  <2>6. /\ DOMAIN cases' = DOMAIN cases \cup {NextId} /\ cases'[NextId].fir = fir
        /\ \A c \in DOMAIN cases : cases'[c] = cases[c]
    BY <1>5, <2>5 DEF File, With, FilesPart, FileRows
  <2>7. maker'[NextId] = who /\ \A c \in DOMAIN cases : maker'[c] = maker[c]
    BY <1>5, <2>5 DEF File, With, FilesPart, FileRows
  <2>8. \A c \in DOMAIN cases', p \in Programs, n \in 0..MaxRuns :
           maker'[c] = <<p, n>> => n <= runs[p] /\ (n = runs[p] => cases'[c].fir[3] <= fir_seq[p])
    <3> SUFFICES ASSUME NEW c \in DOMAIN cases', NEW p \in Programs, NEW n \in 0..MaxRuns, maker'[c] = <<p, n>>
                 PROVE  n <= runs[p] /\ (n = runs[p] => cases'[c].fir[3] <= fir_seq[p])
      OBVIOUS
    <3>1. CASE c \in DOMAIN cases
      BY <2>6, <2>7, <3>1 DEF NumbersPart
    <3>2. CASE c = NextId
      <4>1. p = Home[t] /\ n = runs[p]
        BY <1>2, <2>7, <3>2
      <4>2. call[t].fir[3] <= fir_seq[p]
        BY <1>1, <4>1 DEF NumbersPart
      <4> QED BY <2>6, <3>2, <4>1, <4>2, <1>2
    <3> QED BY <2>6, <3>1, <3>2
  <2>9. \A c \in DOMAIN cases', u \in Callers :
           maker'[c] = Incarnation(u) /\ call'[u] # NoCall => cases'[c].fir[3] # call'[u].fir[3]
    <3> SUFFICES ASSUME NEW c \in DOMAIN cases', NEW u \in Callers, maker'[c] = Incarnation(u), call'[u] # NoCall
                 PROVE  cases'[c].fir[3] # call'[u].fir[3]
      OBVIOUS
    <3>1. u # t /\ call'[u] = call[u]
      BY <1>3
    <3>2. CASE c \in DOMAIN cases
      BY <2>6, <2>7, <3>1, <3>2 DEF NumbersPart
    <3>3. CASE c = NextId
      <4>1. Home[u] = Home[t]
        BY <1>2, <2>7, <3>3 DEF Incarnation
      <4> QED BY <1>1, <2>6, <3>1, <3>3, <4>1 DEF NumbersPart
    <3> QED BY <2>6, <3>2, <3>3
  <2>10. NumbersPart'
    BY <1>1, <1>3, <2>8, <2>9 DEF NumbersPart, Incarnation
  <2> QED BY <1>5, <2>3, <2>4, <2>10 DEF RefusedForAnothersCase
<1>6. \A code \in {"OK", "error"} : Answered(code) => last'.code # "ALREADY_EXISTS"
  BY DEF Answered, Silent
<1> QED BY <1>4, <1>5, <1>6 DEF InsertCase, Verdict

(* Closing: the log is continued just if the status changes, and the approver of  *)
(* a file that was not closed yet has the rank.                                    *)
LEMMA CloseCaseStep ==
    ASSUME FilesInv, NEW t \in Callers, NEW s \in Officers \cup {Nobody}, NEW c \in DOMAIN cases,
           CloseCase(t, s, c)
    PROVE  FilesInv'
<1> USE CaseFilesAssumption DEF FilesInv
<1> DEFINE by == OnBehalfOf(s)
           row == [cases[c] EXCEPT !.status = "CLOSED", !.approved_by = by]
           entry == [old |-> cases[c].status, new |-> "CLOSED", by |-> cases[c].filed_by]
<1>1. /\ UNCHANGED <<maker, staff, fir_seq, call, runs>> /\ last'.code # "ALREADY_EXISTS"
      /\ cases' = [cases EXCEPT ![c].status = "CLOSED", ![c].approved_by = by]
      /\ log' = [log EXCEPT ![c] = StatusLogged(c, cases[c].status, "CLOSED")]
      /\ reclosed' = IF cases[c].status = "CLOSED" THEN reclosed \cup {c} ELSE reclosed
      /\ cases[c].status # "CLOSED" => Rank[by] \in Seniors
  BY DEF CloseCase, MayApprove, Answered, Silent
<1>2. by \in Officers /\ cases[c] \in Rows /\ entry \in Entries /\ log[c] \in Seq(Entries)
  <2>1. cases[c] \in Rows /\ log[c] \in Seq(Entries)
    BY DEF FilesPart, FileRows
  <2> QED BY <2>1 DEF OnBehalfOf, Rows, Entries, Statuses
<1>3. /\ row \in Rows /\ row.fir = cases[c].fir /\ row.status = "CLOSED" /\ row.approved_by = by
      /\ row.filed_by = cases[c].filed_by
  BY <1>2 DEF Rows, Statuses
<1>4. /\ cases' \in [DOMAIN cases -> Rows] /\ cases'[c] = row
      /\ \A d \in DOMAIN cases : d # c => cases'[d] = cases[d]
  <2>1. cases \in [DOMAIN cases -> Rows]
    BY DEF FilesPart, FileRows
  <2>2. cases' = [cases EXCEPT ![c] = row]
    BY <1>1, <2>1
  <2> QED BY <1>3, <2>1, <2>2
<1> HIDE DEF row
<1>5. /\ log' \in [DOMAIN cases -> Seq(Entries)]
      /\ log'[c] = IF cases[c].status = "CLOSED" THEN log[c] ELSE Append(log[c], entry)
      /\ \A d \in DOMAIN cases : d # c => log'[d] = log[d]
  <2>1. StatusLogged(c, cases[c].status, "CLOSED") =
           IF cases[c].status = "CLOSED" THEN log[c] ELSE Append(log[c], entry)
    BY DEF StatusLogged
  <2>2. Append(log[c], entry) \in Seq(Entries)
    BY <1>2
  <2> QED BY <1>1, <1>2, <2>1, <2>2 DEF FilesPart, FileRows
<1>6. DOMAIN cases' = DOMAIN cases /\ \A d \in DOMAIN cases : cases'[d].fir = cases[d].fir
  BY <1>3, <1>4
<1>7. FilesPart'
  <2>1. FileRows'
    BY <1>1, <1>3, <1>4, <1>5, <1>6 DEF FilesPart, FileRows
  <2>2. FirsDiffer'
    <3>1. FromTrigger' = FromTrigger
      BY <1>6 DEF FromTrigger
    <3>2. FromTrigger \subseteq DOMAIN cases
      BY DEF FromTrigger
    <3> QED BY <1>6, <3>1, <3>2 DEF FilesPart, FirsDiffer
  <2>4. ClosersAreSenior'
    BY <1>1, <1>3, <1>4, <1>6 DEF FilesPart, ClosersAreSenior
  <2> QED BY <2>1, <2>2, <2>4 DEF FilesPart
<1>8. NumbersPart'
  BY <1>1, <1>6 DEF NumbersPart, Incarnation
<1>9. StaffPart'
  BY <1>1, <1>3, <1>4, <1>6, StaffFrame
<1> QED BY <1>1, <1>7, <1>8, <1>9 DEF RefusedForAnothersCase

(* After a restart the counter begins again, and no case is of the new run.        *)
LEMMA RestartProgramStep ==
    ASSUME FilesInv, NEW p \in Programs, RestartProgram(p)
    PROVE  FilesInv'
<1> USE CaseFilesAssumption DEF FilesInv
<1>1. /\ UNCHANGED <<fileVars, staff>> /\ last' = Silent
      /\ runs' = [runs EXCEPT ![p] = runs[p] + 1] /\ fir_seq' = [fir_seq EXCEPT ![p] = 0]
      /\ call' = [t \in Callers |-> IF Home[t] = p THEN NoCall ELSE call[t]]
      /\ runs[p] \in 0..MaxRuns /\ runs[p] < MaxRuns
  BY DEF RestartProgram, NumbersPart
<1>2. /\ runs' \in [Programs -> 0..MaxRuns] /\ runs'[p] = runs[p] + 1
      /\ \A q \in Programs : q # p => runs'[q] = runs[q]
      /\ fir_seq' \in [Programs -> 0..MaxSeq] /\ fir_seq'[p] = 0
      /\ \A q \in Programs : q # p => fir_seq'[q] = fir_seq[q]
  BY <1>1 DEF NumbersPart
<1>3. /\ call' \in [Callers -> Calls]
      /\ \A t \in Callers : call'[t] # NoCall => call'[t] = call[t] /\ Home[t] # p /\ Home[t] \in Programs
  BY <1>1 DEF NumbersPart, Calls
<1>4. NumbersPart'
  <2>1. UNCHANGED <<cases, maker>>
    BY <1>1 DEF fileVars
  <2>2. \A c \in DOMAIN cases, q \in Programs, n \in 0..MaxRuns :
           maker[c] = <<q, n>> => n <= runs'[q] /\ (n = runs'[q] => cases[c].fir[3] <= fir_seq'[q])
    BY <1>1, <1>2 DEF NumbersPart
  <2>3. \A c \in DOMAIN cases, u \in Callers :
           maker[c] = <<Home[u], runs'[Home[u]]>> /\ call'[u] # NoCall => cases[c].fir[3] # call'[u].fir[3]
    BY <1>2, <1>3 DEF NumbersPart, Incarnation
  <2> QED BY <1>2, <1>3, <2>1, <2>2, <2>3 DEF NumbersPart, Incarnation
<1>5. FilesPart' /\ StaffPart'
  BY <1>1, FilesFrame, StaffFrame DEF fileVars
<1> QED BY <1>1, <1>4, <1>5 DEF RefusedForAnothersCase, Silent

-----------------------------------------------------------------------------
(* The limit: what is checked or inserted counts as much as what is committed.      *)
LEMMA CheckAssignmentStep ==
    ASSUME FilesInv, NEW k \in Clerks, NEW j \in Jobs, CheckAssignment(k, j)
    PROVE  FilesInv'
<1> USE CaseFilesAssumption DEF FilesInv
<1>1. /\ UNCHANGED <<fileVars, assigned, relieved, pending, fit, fir_seq, call, runs>> /\ last' = Silent
      /\ checked[k] = {} /\ Open(j.case)
      /\ Cardinality(ActiveIn(assigned \cup pending[k], j.officer)) < CaseLimit
      /\ checked' = [checked EXCEPT ![k] = {j}]
  BY DEF CheckAssignment, Admits
<1>2. FilesPart' /\ NumbersPart' /\ RefusedForAnothersCase'
  BY <1>1, FilesFrame, NumbersFrame DEF fileVars, RefusedForAnothersCase, Silent
<1>3. /\ checked' \in [Clerks -> SUBSET Jobs] /\ InHand(k)' = InHand(k) \cup {j} /\ InHand(k) = pending[k]
      /\ \A l \in Clerks : l # k => InHand(l)' = InHand(l)
  BY <1>1 DEF StaffPart, StaffRows, InHand
<1>4. StaffRows'
  <2>1. IsFiniteSet(InHand(k) \cup {j})
    BY FS_AddElement DEF StaffPart, StaffRows
  <2>2. \A l \in Clerks : IsFiniteSet(InHand(l)')
    BY <1>3, <2>1 DEF StaffPart, StaffRows
  <2>3. \A l \in Clerks : \A a \in InHand(l)' : Open(a.case)
    BY <1>1, <1>3 DEF StaffPart, StaffRows
  <2> QED BY <1>1, <1>3, <2>2, <2>3 DEF StaffPart, StaffRows, Open, fileVars
<1>5. /\ \A o \in Officers, l \in Clerks : l # k => ActiveIn(InHand(l), o)' = ActiveIn(InHand(l), o)
      /\ \A o \in Officers : Active(o)' = Active(o)
      /\ \A o \in Officers : ActiveIn(InHand(k), o)' \subseteq ActiveIn(InHand(k), o) \cup {j}
      /\ \A o \in Officers : o # j.officer => ActiveIn(InHand(k), o)' = ActiveIn(InHand(k), o)
  BY <1>1, <1>3 DEF Active, ActiveIn, fileVars
<1> DEFINE o == j.officer
           Mine == ActiveIn(assigned \cup pending[k], o)
<1>6. /\ IsFiniteSet(Mine) /\ IsFiniteSet(Mine \cup {j}) /\ Cardinality(Mine \cup {j}) \in Nat
      /\ Cardinality(Mine \cup {j}) <= CaseLimit
  <2>1. IsFiniteSet(assigned \cup InHand(k))
    BY FS_Union DEF StaffPart, StaffRows
  <2>2. Mine \subseteq assigned \cup InHand(k)
    BY DEF ActiveIn, InHand
  <2>3. IsFiniteSet(Mine) /\ Cardinality(Mine) \in Nat /\ Cardinality(Mine) < CaseLimit
    BY <1>1, <2>1, <2>2, FS_Subset, FS_CardinalityType
  <2> HIDE DEF Mine
  <2>4. /\ IsFiniteSet(Mine \cup {j})
        /\ Cardinality(Mine \cup {j}) = IF j \in Mine THEN Cardinality(Mine) ELSE Cardinality(Mine) + 1
    BY <2>3, FS_AddElement
  <2> QED BY <2>3, <2>4
<1>7. Active(o) \subseteq Mine /\ ActiveIn(InHand(k), o) \subseteq Mine
  BY <1>3 DEF Active, ActiveIn
<1>8. o \in Officers
  OBVIOUS
<1>9. \A l \in Clerks, x \in Officers : Cardinality(ActiveIn(InHand(l), x)') <= CaseLimit
  <2>1. ActiveIn(InHand(k), o)' \subseteq Mine \cup {j}
    BY <1>5, <1>7, <1>8
  <2>2. Cardinality(ActiveIn(InHand(k), o)') <= CaseLimit
    <3>1. /\ Cardinality(ActiveIn(InHand(k), o)') <= Cardinality(Mine \cup {j})
          /\ Cardinality(ActiveIn(InHand(k), o)') \in Nat
      BY <1>6, <2>1, LimitFrame
    <3> QED BY <1>6, <3>1
  <2> QED BY <1>5, <2>2 DEF StaffPart, Limits
<1>10. \A x \in Officers : Cardinality(Burden(x)') <= CaseLimit * Cardinality(Clerks)
  <2>1. ASSUME NEW x \in Officers, x # o PROVE Burden(x)' = Burden(x)
    <3>1. \A l \in Clerks : ActiveIn(InHand(l), x)' = ActiveIn(InHand(l), x)
      BY <1>5, <2>1
    <3> QED BY <1>5, <3>1 DEF Burden
  <2>2. Cardinality(Burden(o)') <= CaseLimit * Cardinality(Clerks)
    <3> DEFINE F == [l \in Clerks |-> IF l = k THEN Mine \cup {j} ELSE ActiveIn(InHand(l), o)]
    <3>1. ASSUME NEW l \in Clerks PROVE IsFiniteSet(F[l]) /\ Cardinality(F[l]) <= CaseLimit
      BY <1>6, <1>8, LoadsAreFinite DEF StaffPart, Limits
    <3>2. Burden(o)' \subseteq UNION {F[l] : l \in Clerks}
      <4>1. Active(o)' \subseteq F[k] /\ \A l \in Clerks : ActiveIn(InHand(l), o)' \subseteq F[l]
        BY <1>5, <1>7, <1>8
      <4> HIDE DEF F
      <4> QED BY <4>1 DEF Burden
    <3>3. IsFiniteSet(Clerks) /\ CaseLimit \in Nat
      OBVIOUS
    <3> HIDE DEF F
    <3> QED BY <3>1, <3>2, <3>3, FamilyBound
  <2> QED BY <2>1, <2>2 DEF StaffPart, Limits
<1> QED BY <1>2, <1>4, <1>9, <1>10 DEF StaffPart, Limits

(* Inserting, committing and rolling back only move rows, or drop them.             *)
LEMMA EndAssignmentSteps ==
    ASSUME FilesInv, NEW k \in Clerks,
           InsertAssignment(k) \/ CommitAssignments(k) \/ RollBackAssignments(k)
    PROVE  FilesInv'
<1> USE DEF FilesInv
<1>1. /\ UNCHANGED <<fileVars, relieved, fit, fir_seq, call, runs>> /\ last' = Silent
      /\ checked' \in [Clerks -> SUBSET Jobs] /\ pending' \in [Clerks -> SUBSET Jobs]
      /\ InHand(k)' \subseteq InHand(k)
      /\ \A l \in Clerks : l # k => InHand(l)' = InHand(l)
      /\ assigned \subseteq assigned' /\ assigned' \subseteq assigned \cup InHand(k)
  BY DEF InsertAssignment, CommitAssignments, RollBackAssignments, InHand, StaffPart, StaffRows
<1>2. FilesPart' /\ NumbersPart' /\ RefusedForAnothersCase'
  BY <1>1, FilesFrame, NumbersFrame DEF fileVars, RefusedForAnothersCase, Silent
<1>3. \A l \in Clerks : InHand(l)' \subseteq InHand(l) /\ InHand(l) \subseteq Jobs
  BY <1>1 DEF InHand, StaffPart, StaffRows
<1>4. StaffRows'
  <2>1. IsFiniteSet(assigned \cup InHand(k))
    BY FS_Union DEF StaffPart, StaffRows
  <2>2. IsFiniteSet(assigned') /\ assigned' \subseteq Jobs
    BY <1>1, <1>3, <2>1, FS_Subset DEF StaffPart, StaffRows
  <2>3. \A l \in Clerks : IsFiniteSet(InHand(l)')
    BY <1>3, FS_Subset DEF StaffPart, StaffRows
  <2>4. \A a \in assigned' : Open(a.case)
    BY <1>1 DEF StaffPart, StaffRows
  <2>5. \A l \in Clerks : \A a \in InHand(l)' : Open(a.case)
    BY <1>3 DEF StaffPart, StaffRows
  <2> QED BY <1>1, <2>2, <2>3, <2>4, <2>5 DEF StaffPart, StaffRows, Open, fileVars
<1>5. \A l \in Clerks, o \in Officers : ActiveIn(InHand(l), o)' \subseteq ActiveIn(InHand(l), o)
  BY <1>1, <1>3 DEF ActiveIn, fileVars
<1>6. \A o \in Officers : Active(o)' \subseteq Active(o) \cup ActiveIn(InHand(k), o)
  BY <1>1 DEF Active, ActiveIn, fileVars
<1>7. \A o \in Officers : Burden(o)' \subseteq Burden(o)
  BY <1>5, <1>6 DEF Burden
<1> QED BY <1>2, <1>4, <1>5, <1>7, LimitsFrame

LEMMA RelieveStep ==
    ASSUME FilesInv, NEW a \in assigned, Relieve(a)
    PROVE  FilesInv'
<1> USE DEF FilesInv
<1>1. /\ UNCHANGED <<fileVars, assigned, checked, pending, fit, fir_seq, call, runs>> /\ last' = Silent
      /\ relieved' = relieved \cup {a}
  BY DEF Relieve
<1>2. FilesPart' /\ NumbersPart' /\ RefusedForAnothersCase'
  BY <1>1, FilesFrame, NumbersFrame DEF fileVars, RefusedForAnothersCase, Silent
<1>3. StaffRows'
  BY <1>1 DEF StaffPart, StaffRows, InHand, Open, fileVars
<1>4. \A l \in Clerks, o \in Officers : ActiveIn(InHand(l), o)' \subseteq ActiveIn(InHand(l), o)
  BY <1>1 DEF ActiveIn, InHand, fileVars
<1>5. \A o \in Officers : Active(o)' \subseteq Active(o)
  BY <1>1 DEF Active, ActiveIn, fileVars
<1>6. \A o \in Officers : Burden(o)' \subseteq Burden(o)
  BY <1>4, <1>5 DEF Burden
<1> QED BY <1>2, <1>3, <1>4, <1>6, LimitsFrame

LEMMA DutiesChangeStep ==
    ASSUME FilesInv, DutiesChange
    PROVE  FilesInv'
<1>1. /\ UNCHANGED <<fileVars, assigned, relieved, checked, pending, fir_seq, call, runs>>
      /\ last' = Silent /\ fit' \subseteq Assignable
  BY DEF DutiesChange
<1>2. FilesPart' /\ NumbersPart' /\ RefusedForAnothersCase'
  BY <1>1, FilesFrame, NumbersFrame DEF FilesInv, fileVars, RefusedForAnothersCase, Silent
<1>3. StaffRows'
  BY <1>1 DEF FilesInv, StaffPart, StaffRows, InHand, Open, fileVars
<1>4. \A l \in Clerks, o \in Officers : ActiveIn(InHand(l), o)' = ActiveIn(InHand(l), o)
  BY <1>1 DEF ActiveIn, InHand, fileVars
<1>5. \A o \in Officers : Burden(o)' = Burden(o)
  BY <1>1, <1>4 DEF Burden, Active, ActiveIn, fileVars
<1> QED BY <1>2, <1>3, <1>4, <1>5, LimitsFrame DEF FilesInv

-----------------------------------------------------------------------------
LEMMA FilesInvInit == FilesInit => FilesInv
<1> SUFFICES ASSUME FilesInit PROVE FilesInv
  OBVIOUS
<1> USE CaseFilesAssumption
<1>1. PICK c \in CaseIds, o \in Officers, s \in Existing :
        /\ Rank[o] \in Filers
        /\ cases = [d \in {c} |->
                      [fir |-> <<"db", 0, 0>>, status |-> s, filed_by |-> o, approved_by |-> Nobody]]
        /\ log = [d \in {c} |-> <<>>]
        /\ maker = [d \in {c} |-> <<>>]
  BY DEF FilesInit
<1>2. /\ DOMAIN cases = {c} /\ cases[c].fir = <<"db", 0, 0>> /\ cases[c].approved_by = Nobody
      /\ cases[c].filed_by = o /\ log[c] = <<>> /\ maker[c] = <<>>
  BY <1>1
<1>3. /\ assigned = {} /\ relieved = {} /\ fit \subseteq Assignable
      /\ checked = [k \in Clerks |-> {}] /\ pending = [k \in Clerks |-> {}]
      /\ fir_seq = [p \in Programs |-> 0] /\ runs = [p \in Programs |-> 0]
      /\ call = [t \in Callers |-> NoCall] /\ reclosed = {} /\ last = Silent
  BY DEF FilesInit
<1>4. FilesPart
  <2>1. IsFiniteSet({c}) /\ Cardinality({c}) = 1
    BY FS_Singleton
  <2>2. cases \in [{c} -> Rows]
    <3>1. [fir |-> <<"db", 0, 0>>, status |-> s, filed_by |-> o, approved_by |-> Nobody] \in Rows
      BY DEF Rows
    <3> QED BY <1>1, <3>1
  <2>3. log \in [{c} -> Seq(Entries)] /\ maker \in [{c} -> Makers]
    BY <1>1 DEF Makers
  <2>4. FileRows
    BY <1>1, <1>2, <1>3, <2>1, <2>2, <2>3 DEF FileRows
  <2>5. FromTrigger = {c}
    BY <1>2 DEF FromTrigger
  <2>6. FirsDiffer
    BY <1>2, <2>1, <2>5 DEF FirsDiffer
  <2>7. ClosersAreSenior
    BY <1>2 DEF ClosersAreSenior
  <2> QED BY <2>4, <2>6, <2>7 DEF FilesPart
<1>5. NumbersPart
  <2>1. \A p, n : <<>> # <<p, n>>
    OBVIOUS
  <2>2. /\ call \in [Callers -> Calls] /\ \A t \in Callers : call[t] = NoCall
        /\ \A d \in DOMAIN cases : maker[d] = <<>>
    BY <1>1, <1>3 DEF Calls
  <2>3. fir_seq \in [Programs -> 0..MaxSeq] /\ runs \in [Programs -> 0..MaxRuns]
    BY <1>3
  <2> QED BY <2>1, <2>2, <2>3 DEF NumbersPart, Incarnation
<1>6. StaffPart
  <2>1. IsFiniteSet({}) /\ Cardinality({}) = 0 /\ Cardinality(Clerks) \in Nat
    BY FS_EmptySet, FS_CardinalityType
  <2>2. \A k \in Clerks : InHand(k) = {}
    BY <1>3 DEF InHand
  <2>3. StaffRows
    BY <1>3, <2>1, <2>2 DEF StaffRows
  <2>4. \A x \in Officers : Active(x) = {} /\ \A k \in Clerks : ActiveIn(InHand(k), x) = {}
    BY <1>3, <2>2 DEF Active, ActiveIn
  <2>5. \A x \in Officers : Burden(x) = {}
    BY <2>4 DEF Burden
  <2>6. 0 <= CaseLimit /\ 0 <= CaseLimit * Cardinality(Clerks)
    <3>1. \A n \in Nat : 0 <= n
      OBVIOUS
    <3> QED BY ONLY <3>1, LimitsAreNatural
  <2>7. ASSUME NEW x \in Officers
        PROVE  /\ \A k \in Clerks : Cardinality(ActiveIn(InHand(k), x)) <= CaseLimit
               /\ Cardinality(Burden(x)) <= CaseLimit * Cardinality(Clerks)
    BY ONLY <2>1, <2>4, <2>5, <2>6
  <2> QED BY <2>3, <2>7 DEF StaffPart, Limits
<1>7. RefusedForAnothersCase
  BY <1>3 DEF RefusedForAnothersCase, Silent
<1> QED BY <1>4, <1>5, <1>6, <1>7 DEF FilesInv

LEMMA FilesInvStep ==
    ASSUME FilesInv, [FilesNext]_filesVars
    PROVE  FilesInv'
<1>1. CASE UNCHANGED filesVars
  <2>1. UNCHANGED <<fileVars, staff, fir_seq, call, runs, last>>
    BY <1>1 DEF filesVars, fileVars, staff
  <2>2. FilesPart' /\ NumbersPart' /\ StaffPart'
    BY <2>1, FilesFrame, NumbersFrame, StaffFrame DEF FilesInv, fileVars
  <2> QED BY <2>1, <2>2 DEF FilesInv, RefusedForAnothersCase, fileVars
<1>2. ASSUME NEW t \in Callers, FileStep(t) PROVE FilesInv'
  BY <1>2, AnswerSteps, DrawNumberStep, InsertCaseStep, RegisterFIRStep, CloseCaseStep DEF FileStep
<1>3. ASSUME NEW k \in Clerks, ClerkStep(k) PROVE FilesInv'
  BY <1>3, CheckAssignmentStep, EndAssignmentSteps DEF ClerkStep
<1> QED BY <1>1, <1>2, <1>3, RelieveStep, DutiesChangeStep, RestartProgramStep DEF FilesNext

LEMMA FilesInvAlways == FilesSpec => []FilesInv
BY FilesInvInit, FilesInvStep, PTL DEF FilesSpec

(* The variables have their types; every file was opened by an officer who may     *)
(* open one, and no two have a number in common.                                    *)
THEOREM FilesTypeCorrect == FilesSpec => []FilesTypeOK
<1>1. FilesInv => FilesTypeOK
  <2> SUFFICES ASSUME FilesInv PROVE FilesTypeOK
    OBVIOUS
  <2> USE DEF FilesInv
  <2>1. \A k \in Clerks : \A a \in checked[k] \cup pending[k] : Open(a.case)
    BY DEF StaffPart, StaffRows, InHand
  <2>2. \A c \in DOMAIN cases : \A d \in DOMAIN cases \ {c} : cases[c].fir # cases[d].fir
    BY DEF FilesPart, FirsDiffer
  <2>3. /\ DOMAIN log = DOMAIN cases /\ DOMAIN maker = DOMAIN cases
        /\ \A c \in DOMAIN cases : cases[c] \in Rows /\ maker[c] \in Makers
    BY DEF FilesPart, FileRows
  <2> QED BY <2>1, <2>2, <2>3 DEF FilesTypeOK, FilesPart, FileRows, NumbersPart, StaffPart, StaffRows
<1> QED BY <1>1, FilesInvAlways, PTL

(* validate_case_closure_approval: who closed a file has the rank, unless it was    *)
(* closed again.                                                                     *)
THEOREM ClosersAreSeniorCorrect == FilesSpec => []ClosersAreSenior
<1>1. FilesInv => ClosersAreSenior
  BY DEF FilesInv, FilesPart
<1> QED BY <1>1, FilesInvAlways, PTL

(* registerCase: a number is refused for the case of another program, or of an       *)
(* earlier run of this one, however many threads draw numbers.                        *)
THEOREM RefusedForAnothersCaseCorrect == FilesSpec => []RefusedForAnothersCase
<1>1. FilesInv => RefusedForAnothersCase
  BY DEF FilesInv
<1> QED BY <1>1, FilesInvAlways, PTL

(* validate_officer_case_limit: every transaction that runs together with others may *)
(* fill the limit once, and no more comes of it, for any number of clients, any       *)
(* limit and transactions of any number of rows.                                       *)
THEOREM OfficersWithinLimitCorrect == FilesSpec => []OfficersWithinLimit
<1>1. FilesInv => OfficersWithinLimit
  <2> SUFFICES ASSUME FilesInv, NEW o \in Officers
               PROVE  Cardinality(Active(o)) <= CaseLimit * Cardinality(Clerks)
    BY DEF OfficersWithinLimit
  <2>1. /\ IsFiniteSet(Burden(o)) /\ Active(o) \subseteq Burden(o)
        /\ Cardinality(Burden(o)) <= CaseLimit * Cardinality(Clerks)
        /\ CaseLimit * Cardinality(Clerks) \in Nat
    BY LoadsAreFinite, LimitsAreNatural DEF FilesInv, StaffPart, Limits, Burden
  <2>2. /\ Cardinality(Active(o)) <= Cardinality(Burden(o))
        /\ Cardinality(Active(o)) \in Nat /\ Cardinality(Burden(o)) \in Nat
    BY <2>1, LimitFrame
  <2> QED BY ONLY <2>1, <2>2
<1> QED BY <1>1, FilesInvAlways, PTL

(* Subsystem 1 against 02_tables.sql: no call of the program makes an officer fit or  *)
(* unfit for an assignment, for any rows.                                              *)
THEOREM FitnessIsOthersDoingCorrect == FilesSpec => FitnessIsOthersDoing
<1>1. ASSUME NEW t \in Callers, FileStep(t) PROVE UNCHANGED fit
  <2>1. ASSUME NEW E \in {DutyEffects, PersonnelEffects}, CallPersonnel(t, E) PROVE UNCHANGED fit
    <3>1. PICK e \in E : IF e.wrote THEN TRUE ELSE UNCHANGED fit
      BY <2>1 DEF CallPersonnel
    <3> QED BY <3>1, NothingIsWritten
  <2> QED
    BY <1>1, <2>1 DEF FileStep, DutyCall, PersonnelCall, RefuseRegisterCase, DrawNumber, InsertCase,
       RegisterFIR, CloseCase, RefuseClosing, GetCase, FetchCase, ListCases, NotImplemented,
       GenerateReport, staff
<1>2. ASSUME NEW k \in Clerks, ClerkStep(k) PROVE UNCHANGED fit
  BY <1>2 DEF ClerkStep, CheckAssignment, InsertAssignment, CommitAssignments, RollBackAssignments
<1>3. ASSUME [FilesNext]_filesVars PROVE fit' # fit => last'.code = "none"
  <2>1. UNCHANGED fit \/ DutiesChange
    BY <1>1, <1>2, <1>3 DEF FilesNext, filesVars, Relieve, RestartProgram, staff
  <2> QED BY <2>1 DEF DutiesChange, Silent
<1> QED BY <1>3, PTL DEF FilesSpec, FitnessIsOthersDoing
=============================================================================
