---------------------------- MODULE DbLocksProofs ----------------------------
(***************************************************************************)
(* Proofs about DbLocks for any number of threads and tokens: who may      *)
(* stand where with which lock in hand, why no set of threads deadlocks    *)
(* unless one came through lockDb, and why the session map and the         *)
(* sessions table agree.                                                   *)
(***************************************************************************)
EXTENDS DbLocks, TLAPS

StoreOps == {"insert", "refresh", "remove"}
DutyOps  == {"duty", "forensic_write"}

(* A reader-writer lock is held for writing only around a statement and for *)
(* reading only until the guard's scope ends.                               *)
WriterPlaces ==
    \A t \in Threads, l \in RWLocks : writer[l] = t => at[t] \in {"db", "in_db", "leave"}

ReaderPlaces ==
    \A t \in Threads, l \in RWLocks : t \in readers[l] => at[t] = "leave"

(* What an operation is that stands at or holds a lock, and what it is      *)
(* about.                                                                   *)
OpsOfPlaces ==
    \A t \in Threads :
        /\ op[t] \notin {"none", "query"} => tok[t] \in Tokens
        /\ at[t] = "map_w" => op[t] \in StoreOps
        /\ at[t] = "map_r" => op[t] \in {"validate"} \cup ForensicOps
        /\ at[t] \in {"cache_r", "cache_w"} => op[t] \in DutyOps
        /\ writer["map"] = t => op[t] \in StoreOps
        /\ writer["cache"] = t => op[t] \in DutyOps
        /\ t \in readers["cache"] => op[t] \in DutyOps

(* A forensic operation holds db_mutex from lockDb on, also when it comes   *)
(* back to it with the duty cache locked.                                   *)
MutexHolders ==
    \A t \in Threads :
        /\ at[t] = "in_db" => db = t /\ op[t] \notin ForensicOps
        /\ op[t] \in ForensicOps /\ at[t] \notin {"idle", "db"} => db = t
        /\ op[t] \in ForensicOps /\ at[t] = "db" /\ (\E l \in RWLocks : writer[l] = t) => db = t

LockInv == TypeOK /\ WriterPlaces /\ ReaderPlaces /\ OpsOfPlaces /\ MutexHolders

LEMMA InitLockInv == Init => LockInv
BY LocksAssumption DEF Init, LockInv, TypeOK, WriterPlaces, ReaderPlaces, OpsOfPlaces, MutexHolders, Places, Ops,
   RWLocks, ForensicOps, StoreOps, DutyOps

(* A call begins in a thread that holds no reader-writer lock.              *)
LEMMA CallLockInv ==
    ASSUME LockInv, NEW t \in Threads, NEW k \in Tokens, Call(t, k)
    PROVE  LockInv'
<1> USE DEF LockInv
<1>1. PICK o \in Ops \ {"none"}, p \in {"map_w", "map_r", "cache_r", "db"}, x \in Tokens \cup {None} :
         /\ Begin(t, o, x, p)
         /\ p = "map_w" => o \in StoreOps
         /\ p = "map_r" => o = "validate"
         /\ p = "cache_r" => o \in DutyOps
         /\ o \in ForensicOps => p = "db"
         /\ o # "query" => x \in Tokens
  BY DEF Call, Login, Validate, Refresh, Logout, DutyCheck, Query, ForensicCall, Ops, ForensicOps, StoreOps, DutyOps
<1>2. TypeOK'
  BY <1>1 DEF TypeOK, Begin, locks, store, Places
<1>3. WriterPlaces' /\ ReaderPlaces'
  BY <1>1 DEF TypeOK, WriterPlaces, ReaderPlaces, Begin, locks
<1>4. OpsOfPlaces'
  BY <1>1 DEF TypeOK, OpsOfPlaces, WriterPlaces, ReaderPlaces, Begin, locks, RWLocks
<1>5. MutexHolders'
  BY <1>1 DEF TypeOK, MutexHolders, WriterPlaces, Begin, locks
<1> QED BY <1>2, <1>3, <1>4, <1>5

-----------------------------------------------------------------------------
(* The steps.  Each moves one thread and the locks it takes or releases.    *)

LEMMA EnterMapToWriteLockInv ==
    ASSUME LockInv, NEW t \in Threads, EnterMapToWrite(t)
    PROVE  LockInv'
<1> USE DEF LockInv, EnterMapToWrite, MapHolder
<1>1. TypeOK'
  <2>1. tok[t] \in Tokens
    BY DEF OpsOfPlaces, StoreOps
  <2>2. session_map' \subseteq Tokens
    BY <2>1 DEF TypeOK, MapAfter
  <2> QED BY <2>2, LocksAssumption DEF TypeOK, FreeToWrite, Places, RWLocks
<1>2. WriterPlaces' /\ ReaderPlaces'
  BY DEF TypeOK, WriterPlaces, ReaderPlaces, FreeToWrite
<1>3. OpsOfPlaces'
  BY DEF TypeOK, OpsOfPlaces, FreeToWrite, RWLocks
<1>4. MutexHolders'
  BY DEF TypeOK, MutexHolders, OpsOfPlaces, StoreOps, ForensicOps
<1> QED BY <1>1, <1>2, <1>3, <1>4

LEMMA EnterMapToReadLockInv ==
    ASSUME LockInv, NEW t \in Threads, EnterMapToRead(t)
    PROVE  LockInv'
<1> USE DEF LockInv, EnterMapToRead
<1>1. TypeOK'
  BY DEF TypeOK, Free, store, Places, Ops, RWLocks
<1>2. WriterPlaces' /\ ReaderPlaces'
  BY DEF TypeOK, WriterPlaces, ReaderPlaces
<1>3. OpsOfPlaces'
  <2>1. \A l \in RWLocks : writer[l] # t
    BY DEF WriterPlaces
  <2>2. t \notin readers["cache"]
    BY DEF ReaderPlaces, RWLocks
  <2>3. op[t] \notin {"none", "query"}
    BY DEF OpsOfPlaces, ForensicOps
  <2> QED BY <2>1, <2>2, <2>3 DEF TypeOK, OpsOfPlaces, RWLocks
<1>4. MutexHolders'
  BY DEF TypeOK, MutexHolders, ForensicOps
<1> QED BY <1>1, <1>2, <1>3, <1>4

LEMMA EnterCacheToReadLockInv ==
    ASSUME LockInv, NEW t \in Threads, EnterCacheToRead(t)
    PROVE  LockInv'
<1> USE DEF LockInv, EnterCacheToRead
<1>1. TypeOK'
  BY DEF TypeOK, Free, store, Places, RWLocks
<1>2. WriterPlaces' /\ ReaderPlaces'
  BY DEF TypeOK, WriterPlaces, ReaderPlaces
<1>3. OpsOfPlaces'
  BY DEF TypeOK, OpsOfPlaces, RWLocks
<1>4. MutexHolders'
  BY DEF TypeOK, MutexHolders, ForensicOps
<1> QED BY <1>1, <1>2, <1>3, <1>4

LEMMA EnterCacheToWriteLockInv ==
    ASSUME LockInv, NEW t \in Threads, EnterCacheToWrite(t)
    PROVE  LockInv'
<1> USE DEF LockInv, EnterCacheToWrite
<1>1. TypeOK'
  BY DEF TypeOK, FreeToWrite, store, Places, RWLocks
<1>2. WriterPlaces' /\ ReaderPlaces'
  BY DEF TypeOK, WriterPlaces, ReaderPlaces, FreeToWrite
<1>3. OpsOfPlaces'
  BY DEF TypeOK, OpsOfPlaces, RWLocks
<1>4. MutexHolders'
  BY DEF TypeOK, MutexHolders, ForensicOps
<1> QED BY <1>1, <1>2, <1>3, <1>4

LEMMA TakeMutexLockInv ==
    ASSUME LockInv, NEW t \in Threads, TakeMutex(t)
    PROVE  LockInv'
<1> USE DEF LockInv, TakeMutex
<1>1. TypeOK'
  BY DEF TypeOK, store, Places
<1>2. db # t
  BY LocksAssumption
<1>3. op[t] \in ForensicOps => \A l \in RWLocks : writer[l] # t
  BY <1>2 DEF MutexHolders
<1>4. WriterPlaces' /\ ReaderPlaces'
  BY <1>3 DEF TypeOK, WriterPlaces, ReaderPlaces
<1>5. OpsOfPlaces'
  BY DEF TypeOK, OpsOfPlaces, ForensicOps
<1>6. MutexHolders'
  BY LocksAssumption DEF TypeOK, MutexHolders, ForensicOps
<1> QED BY <1>1, <1>4, <1>5, <1>6

LEMMA NoConnectionLockInv ==
    ASSUME LockInv, NEW t \in Threads, NoConnection(t)
    PROVE  LockInv'
<1> USE DEF LockInv, NoConnection, Returns
<1>1. TypeOK'
  BY DEF TypeOK, store, Places, Ops
<1>2. db = t
  BY DEF MutexHolders
<1>3. WriterPlaces' /\ ReaderPlaces'
  BY DEF TypeOK, WriterPlaces, ReaderPlaces
<1>4. OpsOfPlaces'
  BY DEF TypeOK, OpsOfPlaces, WriterPlaces, ReaderPlaces, RWLocks
<1>5. MutexHolders'
  BY <1>2 DEF TypeOK, MutexHolders, ForensicOps
<1> QED BY <1>1, <1>3, <1>4, <1>5

LEMMA ExecuteLockInv ==
    ASSUME LockInv, NEW t \in Threads, Execute(t)
    PROVE  LockInv'
<1> USE DEF LockInv, Execute, Returns, MutexAfterFailure
<1>1. db = t /\ op[t] \notin ForensicOps /\ db' = None
  BY DEF MutexHolders
<1>2. tok[t] \in Tokens \/ op[t] \in {"none", "query"}
  BY DEF OpsOfPlaces
<1>3. TypeOK'
  <2>1. at' \in [Threads -> Places] /\ op' \in [Threads -> Ops] /\ tok' \in [Threads -> Tokens \cup {None}]
    BY DEF TypeOK, Places, Ops
  <2>2. sessions' \in [Tokens -> {"none", "active", "inactive"}]
    BY DEF TypeOK, RowAfter
  <2>3. fresh' \subseteq Tokens /\ missed' \subseteq Tokens
    BY <1>2 DEF TypeOK
  <2> QED BY <1>1, <2>1, <2>2, <2>3 DEF TypeOK
<1>4. op[t] = "query" => \A l \in RWLocks : writer[l] # t
  BY DEF OpsOfPlaces, RWLocks, StoreOps, DutyOps
<1>5. WriterPlaces' /\ ReaderPlaces'
  BY <1>4 DEF TypeOK, WriterPlaces, ReaderPlaces
<1>6. OpsOfPlaces'
  BY <1>4 DEF TypeOK, OpsOfPlaces, ReaderPlaces, RWLocks
<1>7. MutexHolders'
  BY <1>1 DEF TypeOK, MutexHolders
<1> QED BY <1>1, <1>3, <1>5, <1>6, <1>7

-----------------------------------------------------------------------------
(* The steps that end the scope of a guard.                                 *)

LEMMA ReleasedEffect ==
    ASSUME TypeOK, NEW t \in Threads, Released(t)
    PROVE  /\ writer' \in [RWLocks -> Threads \cup {None}]
           /\ readers' \in [RWLocks -> SUBSET Threads]
           /\ \A l \in RWLocks : writer'[l] # None => readers'[l] = {}
           /\ \A l \in RWLocks : writer'[l] # t /\ t \notin readers'[l]
           /\ \A l \in RWLocks, u \in Threads \ {t} :
                 (writer'[l] = u <=> writer[l] = u) /\ (u \in readers'[l] <=> u \in readers[l])
BY LocksAssumption DEF TypeOK, Released

LEMMA LeaveCacheMissedLockInv ==
    ASSUME LockInv, NEW t \in Threads, LeaveCacheMissed(t)
    PROVE  LockInv'
<1> USE DEF LockInv, LeaveCacheMissed, AfterMiss
<1>1. /\ \A l \in RWLocks : writer'[l] # t /\ t \notin readers'[l]
      /\ \A l \in RWLocks, u \in Threads \ {t} :
            (writer'[l] = u <=> writer[l] = u) /\ (u \in readers'[l] <=> u \in readers[l])
  BY ReleasedEffect
<1>2. TypeOK'
  <2>1. /\ writer' \in [RWLocks -> Threads \cup {None}]
        /\ readers' \in [RWLocks -> SUBSET Threads]
        /\ \A l \in RWLocks : writer'[l] # None => readers'[l] = {}
    BY ReleasedEffect
  <2> QED BY <2>1 DEF TypeOK, store, Places, Ops
<1>3. WriterPlaces' /\ ReaderPlaces'
  BY <1>1 DEF TypeOK, WriterPlaces, ReaderPlaces
<1>4. OpsOfPlaces'
  BY <1>1 DEF TypeOK, OpsOfPlaces, HoldsToRead, RWLocks, AfterMiss
<1>5. MutexHolders'
  BY <1>1 DEF TypeOK, MutexHolders, ForensicOps
<1> QED BY <1>2, <1>3, <1>4, <1>5

LEMMA LeaveCacheForensicLockInv ==
    ASSUME LockInv, NEW t \in Threads, LeaveCacheForensic(t)
    PROVE  LockInv'
<1> USE DEF LockInv, LeaveCacheForensic
<1>1. /\ \A l \in RWLocks : writer'[l] # t /\ t \notin readers'[l]
      /\ \A l \in RWLocks, u \in Threads \ {t} :
            (writer'[l] = u <=> writer[l] = u) /\ (u \in readers'[l] <=> u \in readers[l])
  BY ReleasedEffect
<1>2. TypeOK'
  <2>1. /\ writer' \in [RWLocks -> Threads \cup {None}]
        /\ readers' \in [RWLocks -> SUBSET Threads]
        /\ \A l \in RWLocks : writer'[l] # None => readers'[l] = {}
    BY ReleasedEffect
  <2> QED BY <2>1 DEF TypeOK, store, Places, Ops
<1>3. WriterPlaces' /\ ReaderPlaces'
  BY <1>1 DEF TypeOK, WriterPlaces, ReaderPlaces
<1>4. OpsOfPlaces'
  BY <1>1 DEF TypeOK, OpsOfPlaces, HoldsToRead, RWLocks
<1>5. MutexHolders'
  BY <1>1 DEF TypeOK, MutexHolders, ForensicOps
<1> QED BY <1>2, <1>3, <1>4, <1>5

LEMMA LeaveMapForensicLockInv ==
    ASSUME LockInv, NEW t \in Threads, LeaveMapForensic(t)
    PROVE  LockInv'
<1> USE DEF LockInv, LeaveMapForensic
<1>1. /\ \A l \in RWLocks : writer'[l] # t /\ t \notin readers'[l]
      /\ \A l \in RWLocks, u \in Threads \ {t} :
            (writer'[l] = u <=> writer[l] = u) /\ (u \in readers'[l] <=> u \in readers[l])
  BY ReleasedEffect
<1>2. TypeOK'
  <2>1. /\ writer' \in [RWLocks -> Threads \cup {None}]
        /\ readers' \in [RWLocks -> SUBSET Threads]
        /\ \A l \in RWLocks : writer'[l] # None => readers'[l] = {}
    BY ReleasedEffect
  <2> QED BY <2>1 DEF TypeOK, store, Places, Ops
<1>3. WriterPlaces' /\ ReaderPlaces'
  BY <1>1 DEF TypeOK, WriterPlaces, ReaderPlaces
<1>4. OpsOfPlaces'
  BY <1>1 DEF TypeOK, OpsOfPlaces, RWLocks, ForensicOps, DutyOps
<1>5. MutexHolders'
  BY <1>1 DEF TypeOK, MutexHolders, ForensicOps
<1> QED BY <1>2, <1>3, <1>4, <1>5

LEMMA LeaveLockInv ==
    ASSUME LockInv, NEW t \in Threads, Leave(t)
    PROVE  LockInv'
<1> USE DEF LockInv, Leave, Returns
<1>1. /\ \A l \in RWLocks : writer'[l] # t /\ t \notin readers'[l]
      /\ \A l \in RWLocks, u \in Threads \ {t} :
            (writer'[l] = u <=> writer[l] = u) /\ (u \in readers'[l] <=> u \in readers[l])
  BY ReleasedEffect
<1>2. TypeOK'
  <2>1. /\ writer' \in [RWLocks -> Threads \cup {None}]
        /\ readers' \in [RWLocks -> SUBSET Threads]
        /\ \A l \in RWLocks : writer'[l] # None => readers'[l] = {}
    BY ReleasedEffect
  <2> QED BY <2>1 DEF TypeOK, store, Places, Ops
<1>3. WriterPlaces' /\ ReaderPlaces'
  BY <1>1 DEF TypeOK, WriterPlaces, ReaderPlaces
<1>4. OpsOfPlaces'
  BY <1>1 DEF TypeOK, OpsOfPlaces, RWLocks
<1>5. MutexHolders'
  BY <1>1 DEF TypeOK, MutexHolders, ForensicOps
<1> QED BY <1>2, <1>3, <1>4, <1>5

LEMMA ForensicReturnLockInv ==
    ASSUME LockInv, NEW t \in Threads, ForensicReturn(t)
    PROVE  LockInv'
<1> USE DEF LockInv, ForensicReturn, Returns
<1>1. TypeOK'
  BY DEF TypeOK, locks, store, Places, Ops
<1>2. WriterPlaces' /\ ReaderPlaces'
  BY DEF TypeOK, WriterPlaces, ReaderPlaces, locks
<1>3. OpsOfPlaces'
  BY DEF TypeOK, OpsOfPlaces, WriterPlaces, ReaderPlaces, locks, RWLocks
<1>4. MutexHolders'
  BY DEF TypeOK, MutexHolders, locks, ForensicOps
<1> QED BY <1>1, <1>2, <1>3, <1>4

LEMMA TimeLockInv ==
    ASSUME LockInv, NEW k \in Tokens, Expire(k) \/ EntryAges(k)
    PROVE  LockInv'
BY DEF LockInv, TypeOK, WriterPlaces, ReaderPlaces, OpsOfPlaces, MutexHolders, Expire, EntryAges, locks

LEMMA StutterLockInv == LockInv /\ UNCHANGED vars => LockInv'
BY DEF LockInv, TypeOK, WriterPlaces, ReaderPlaces, OpsOfPlaces, MutexHolders, vars

LEMMA StepLockInv == LockInv /\ [Next]_vars => LockInv'
<1> SUFFICES ASSUME LockInv, Next PROVE LockInv'
  BY StutterLockInv
<1>1. ASSUME NEW t \in Threads, Step(t) PROVE LockInv'
  BY <1>1, EnterMapToWriteLockInv, EnterMapToReadLockInv, EnterCacheToReadLockInv,
     EnterCacheToWriteLockInv, TakeMutexLockInv, NoConnectionLockInv, ExecuteLockInv,
     LeaveCacheMissedLockInv, LeaveCacheForensicLockInv, LeaveMapForensicLockInv, LeaveLockInv,
     ForensicReturnLockInv DEF Step
<1>2. ASSUME NEW t \in Threads, NEW k \in Tokens, Call(t, k) PROVE LockInv'
  BY <1>2, CallLockInv
<1>3. ASSUME NEW k \in Tokens, Expire(k) \/ EntryAges(k) PROVE LockInv'
  BY <1>3, TimeLockInv
<1> QED BY <1>1, <1>2, <1>3 DEF Next

LEMMA LockInvariant == Spec => []LockInv
BY InitLockInv, StepLockInv, PTL DEF Spec

(* The types, and that readers and writers exclude each other.              *)
THEOREM TypeCorrect == Spec => []TypeOK
<1>1. LockInv => TypeOK
  BY DEF LockInv
<1> QED BY <1>1, LockInvariant, PTL

-----------------------------------------------------------------------------
(* Deadlock.  A thread in the middle of a statement waits for nobody, a     *)
(* thread that waits for db_mutex waits for one in the middle of a          *)
(* statement, and a thread that waits for another lock waits for one of     *)
(* these two kinds or for one that is about to release it.                  *)

LEMMA NoDeadlockUnderExecute ==
    ASSUME LockInv, db = None \/ at[db] = "in_db", NEW S \in SUBSET Threads
    PROVE  ~Deadlocked(S)
<1> SUFFICES ASSUME Deadlocked(S) PROVE FALSE
  OBVIOUS
<1>1. \A t \in S : at[t] \notin {"in_db", "leave"}
  BY DEF Deadlocked, WaitsFor
<1>2. \A t \in S : at[t] # "db"
  BY <1>1, LocksAssumption DEF Deadlocked, WaitsFor
<1>3. PICK t \in S, u \in S : WaitsFor(t, u)
  BY DEF Deadlocked
<1>4. \E l \in RWLocks : writer[l] = u \/ u \in readers[l]
  BY <1>2, <1>3 DEF WaitsFor, RWLocks
<1>5. at[u] \in {"db", "in_db", "leave"}
  BY <1>4 DEF LockInv, WriterPlaces, ReaderPlaces
<1> QED BY <1>1, <1>2, <1>5

(* Every deadlock takes a thread that holds db_mutex through lockDb.        *)
THEOREM DeadlocksNeedLockDbCorrect == Spec => []DeadlocksNeedLockDb
<1>1. LockInv => DeadlocksNeedLockDb
  BY NoDeadlockUnderExecute DEF DeadlocksNeedLockDb
<1> QED BY <1>1, LockInvariant, PTL

(* Without the forensic manager db_mutex is held around statements only.    *)
MutexAroundStatements ==
    \A t \in Threads : op[t] \notin ForensicOps /\ (db = t => at[t] = "in_db")

LEMMA StepMutexAroundStatements ==
    ASSUME ~Forensic, LockInv, MutexAroundStatements, [Next]_vars
    PROVE  MutexAroundStatements'
<1> USE DEF MutexAroundStatements
<1>1. ASSUME NEW t \in Threads, NEW k \in Tokens, Call(t, k) PROVE MutexAroundStatements'
  <2>1. PICK o \in Ops \ ForensicOps, x \in Tokens \cup {None}, p \in Places : Begin(t, o, x, p)
    BY <1>1 DEF Call, Login, Validate, Refresh, Logout, DutyCheck, Query, ForensicCall, Ops, ForensicOps, Places
  <2> QED BY <2>1 DEF Begin, locks, LockInv, TypeOK
<1>2. ASSUME NEW t \in Threads, EnterMapToWrite(t) PROVE MutexAroundStatements'
  BY <1>2 DEF EnterMapToWrite, LockInv, TypeOK
<1>3. ASSUME NEW t \in Threads, EnterMapToRead(t) PROVE MutexAroundStatements'
  BY <1>3 DEF EnterMapToRead, LockInv, TypeOK, ForensicOps
<1>4. ASSUME NEW t \in Threads, EnterCacheToRead(t) \/ EnterCacheToWrite(t) PROVE MutexAroundStatements'
  BY <1>4 DEF EnterCacheToRead, EnterCacheToWrite, LockInv, TypeOK
<1>5. ASSUME NEW t \in Threads, TakeMutex(t) PROVE MutexAroundStatements'
  BY <1>5 DEF TakeMutex, LockInv, TypeOK
<1>6. ASSUME NEW t \in Threads, Execute(t) PROVE MutexAroundStatements'
  BY <1>6, LocksAssumption DEF Execute, Returns, MutexAfterFailure, LockInv, TypeOK, ForensicOps
<1>7. ASSUME NEW t \in Threads, LeaveCacheMissed(t) \/ Leave(t) PROVE MutexAroundStatements'
  BY <1>7, LocksAssumption DEF LeaveCacheMissed, Leave, Returns, LockInv, TypeOK, ForensicOps
<1>8. ASSUME NEW t \in Threads, ForensicReturn(t) PROVE MutexAroundStatements'
  BY <1>8 DEF ForensicReturn, Returns, locks, LockInv, TypeOK, ForensicOps
<1>9. ASSUME NEW t \in Threads, NoConnection(t) \/ LeaveCacheForensic(t) \/ LeaveMapForensic(t)
      PROVE  MutexAroundStatements'
  BY <1>9 DEF NoConnection, LeaveCacheForensic, LeaveMapForensic, ForensicOps
<1>10. ASSUME NEW k \in Tokens, Expire(k) \/ EntryAges(k) PROVE MutexAroundStatements'
  BY <1>10 DEF Expire, EntryAges, locks
<1>11. ASSUME UNCHANGED vars PROVE MutexAroundStatements'
  BY <1>11 DEF vars
<1> QED BY <1>1, <1>2, <1>3, <1>4, <1>5, <1>6, <1>7, <1>8, <1>9, <1>10, <1>11 DEF Next, Step

(* Without the forensic manager no set of threads is ever deadlocked.       *)
THEOREM NoDeadlockCorrect ==
    ASSUME ~Forensic
    PROVE  Spec => []NoDeadlock
<1>1. Init => MutexAroundStatements
  BY LocksAssumption DEF Init, MutexAroundStatements, ForensicOps
<1>2. LockInv /\ MutexAroundStatements => NoDeadlock
  BY NoDeadlockUnderExecute DEF NoDeadlock, MutexAroundStatements, LockInv, TypeOK
<1>3. LockInv /\ MutexAroundStatements /\ [Next]_vars => MutexAroundStatements'
  BY StepMutexAroundStatements
<1> QED BY <1>1, <1>2, <1>3, LockInvariant, PTL DEF Spec

-----------------------------------------------------------------------------
(* The session map and the sessions table.  They disagree about one token   *)
(* at most, the one whose login or logout holds map_lock on its way through *)
(* the statement.                                                           *)

UnderWay(k) ==
    \E t \in Threads :
        /\ writer["map"] = t
        /\ at[t] \in {"db", "in_db"}
        /\ op[t] \in {"insert", "remove"}
        /\ tok[t] = k

AgreeOn(k) == k \in session_map <=> sessions[k] = "active"

SessionInv ==
    /\ \A t \in Threads :
          op[t] \in StoreOps /\ at[t] \in {"db", "in_db"} =>
             /\ writer["map"] = t
             /\ op[t] = "insert" => tok[t] \in session_map
             /\ op[t] = "remove" => tok[t] \notin session_map
    /\ \A k \in Tokens \ missed : AgreeOn(k) \/ UnderWay(k)

LEMMA EnterMapToWriteSessions ==
    ASSUME LockInv, SessionInv, NEW t \in Threads, EnterMapToWrite(t)
    PROVE  SessionInv'
<1> USE DEF EnterMapToWrite, MapHolder
<1>1. writer["map"] = None /\ op[t] \in StoreOps /\ tok[t] \in Tokens
  BY DEF FreeToWrite, LockInv, OpsOfPlaces, StoreOps
<1>2. \A u \in Threads : ~(op[u] \in StoreOps /\ at[u] \in {"db", "in_db"})
  BY <1>1, LocksAssumption DEF SessionInv
<1>3. \A k \in Tokens \ missed : AgreeOn(k)
  BY <1>1, LocksAssumption DEF SessionInv, UnderWay
<1>4. CASE Rejected(op[t], tok[t])
  <2>1. \A u \in Threads : ~(op[u] \in StoreOps /\ at[u] \in {"db", "in_db"})'
    BY <1>2, <1>4 DEF LockInv, TypeOK
  <2>2. \A k \in Tokens \ missed : AgreeOn(k)'
    BY <1>3, <1>4 DEF AgreeOn
  <2> QED BY <2>1, <2>2 DEF SessionInv
<1>5. CASE ~Rejected(op[t], tok[t])
  <2>1. /\ writer'["map"] = t
        /\ at' = [at EXCEPT ![t] = "db"]
        /\ op' = op /\ tok' = tok /\ sessions' = sessions /\ missed' = missed
        /\ session_map' = MapAfter(op[t], tok[t])
    BY <1>5 DEF LockInv, TypeOK, RWLocks
  <2>2. \A u \in Threads :
           op'[u] \in StoreOps /\ at'[u] \in {"db", "in_db"} =>
              /\ writer'["map"] = u
              /\ op'[u] = "insert" => tok'[u] \in session_map'
              /\ op'[u] = "remove" => tok'[u] \notin session_map'
    BY <1>1, <1>2, <2>1 DEF MapAfter, LockInv, TypeOK
  <2>3. ASSUME NEW k \in Tokens \ missed PROVE AgreeOn(k)' \/ UnderWay(k)'
    <3>1. CASE k = tok[t] /\ op[t] \in {"insert", "remove"}
      BY <2>1, <3>1 DEF UnderWay, LockInv, TypeOK
    <3>2. CASE ~(k = tok[t] /\ op[t] \in {"insert", "remove"})
      BY <1>3, <2>1, <3>2 DEF AgreeOn, MapAfter
    <3> QED BY <3>1, <3>2
  <2> QED BY <2>1, <2>2, <2>3 DEF SessionInv
<1> QED BY <1>4, <1>5

LEMMA ExecuteSessions ==
    ASSUME LockInv, SessionInv, NEW t \in Threads, Execute(t)
    PROVE  SessionInv'
<1> USE DEF Execute, Returns
<1>1. ASSUME NEW u \in Threads, u # t
      PROVE  at'[u] = at[u] /\ op'[u] = op[u] /\ tok'[u] = tok[u]
  BY <1>1 DEF LockInv, TypeOK
<1>2. at'[t] \notin {"db", "in_db"}
  BY DEF LockInv, TypeOK
<1>3. \A u \in Threads :
         op'[u] \in StoreOps /\ at'[u] \in {"db", "in_db"} =>
            /\ writer'["map"] = u
            /\ op'[u] = "insert" => tok'[u] \in session_map'
            /\ op'[u] = "remove" => tok'[u] \notin session_map'
  BY <1>1, <1>2 DEF SessionInv
<1>4. \A u \in Threads : op[t] \in StoreOps /\ u # t => writer["map"] # u
  BY DEF SessionInv
<1>5. op[t] \notin StoreOps => writer["map"] # t
  BY DEF LockInv, OpsOfPlaces
<1>6. op[t] \in {"insert", "remove"} /\ tok[t] \notin missed' => AgreeOn(tok[t])'
  <2> SUFFICES ASSUME op[t] \in {"insert", "remove"}, tok[t] \notin missed' PROVE AgreeOn(tok[t])'
    OBVIOUS
  <2>1. tok[t] \in Tokens /\ sessions'[tok[t]] = RowAfter(tok[t], op[t])
    BY DEF LockInv, OpsOfPlaces
  <2>2. op[t] = "insert" => tok[t] \in session_map
    BY DEF SessionInv, StoreOps
  <2>3. op[t] = "remove" => tok[t] \notin session_map
    BY DEF SessionInv, StoreOps
  <2> QED BY <2>1, <2>2, <2>3 DEF AgreeOn, RowAfter
<1>7. ASSUME NEW k \in Tokens \ missed', ~(op[t] \in {"insert", "remove"} /\ k = tok[t])
      PROVE  AgreeOn(k)' \/ UnderWay(k)'
  <2>1. k \notin missed
    BY DEF LockInv, TypeOK
  <2>2. sessions'[k] = sessions[k] /\ session_map' = session_map
    BY <1>7 DEF RowAfter, LockInv, TypeOK
  <2>3. AgreeOn(k) => AgreeOn(k)'
    BY <2>2 DEF AgreeOn
  <2>4. UnderWay(k) => UnderWay(k)'
    <3> SUFFICES ASSUME NEW u \in Threads, writer["map"] = u, at[u] \in {"db", "in_db"},
                        op[u] \in {"insert", "remove"}, tok[u] = k
                 PROVE  UnderWay(k)'
      BY DEF UnderWay
    <3>1. u # t
      BY <1>7
    <3> QED BY <3>1, <1>1 DEF UnderWay
  <2> QED BY <2>1, <2>3, <2>4 DEF SessionInv
<1> QED BY <1>3, <1>6, <1>7 DEF SessionInv

(* The other steps leave the map and the table alone.                       *)
LEMMA OtherSessions ==
    ASSUME SessionInv, NEW t \in Threads,
           UNCHANGED <<session_map, sessions, missed>>,
           \A u \in Threads \ {t} : at'[u] = at[u] /\ op'[u] = op[u] /\ tok'[u] = tok[u],
           \A u \in Threads \ {t} : writer'["map"] = u <=> writer["map"] = u,
           \/ at'[t] \notin {"db", "in_db"}
           \/ op'[t] \notin StoreOps
           \/ /\ at[t] \in {"db", "in_db"} /\ op'[t] = op[t] /\ tok'[t] = tok[t]
              /\ writer'["map"] = writer["map"],
           writer["map"] = t => \/ at[t] \notin {"db", "in_db"}
                                \/ at'[t] \in {"db", "in_db"} /\ op'[t] = op[t] /\ tok'[t] = tok[t]
                                   /\ writer'["map"] = t
    PROVE  SessionInv'
<1>1. \A u \in Threads :
         op'[u] \in StoreOps /\ at'[u] \in {"db", "in_db"} =>
            /\ writer'["map"] = u
            /\ op'[u] = "insert" => tok'[u] \in session_map'
            /\ op'[u] = "remove" => tok'[u] \notin session_map'
  BY DEF SessionInv
<1>2. ASSUME NEW k \in Tokens PROVE (AgreeOn(k) => AgreeOn(k)') /\ (UnderWay(k) => UnderWay(k)')
  BY DEF AgreeOn, UnderWay
<1> QED BY <1>1, <1>2 DEF SessionInv

LEMMA StepSessions == LockInv /\ SessionInv /\ [Next]_vars => SessionInv'
<1> SUFFICES ASSUME LockInv, SessionInv, [Next]_vars PROVE SessionInv'
  OBVIOUS
<1>1. ASSUME NEW t \in Threads, NEW k \in Tokens, Call(t, k) PROVE SessionInv'
  <2>1. PICK o \in Ops, x \in Tokens \cup {None}, p \in {"map_w", "map_r", "cache_r", "db"} :
           Begin(t, o, x, p) /\ (p = "db" => o \notin StoreOps)
    BY <1>1 DEF Call, Login, Validate, Refresh, Logout, DutyCheck, Query, ForensicCall, Ops, ForensicOps, StoreOps
  <2> QED BY <2>1, OtherSessions DEF Begin, locks, store, LockInv, TypeOK
<1>2. ASSUME NEW t \in Threads, EnterMapToRead(t) PROVE SessionInv'
  BY <1>2, OtherSessions DEF EnterMapToRead, store, LockInv, TypeOK
<1>3. ASSUME NEW t \in Threads, EnterCacheToRead(t) PROVE SessionInv'
  BY <1>3, OtherSessions DEF EnterCacheToRead, store, LockInv, TypeOK
<1>4. ASSUME NEW t \in Threads, EnterCacheToWrite(t) PROVE SessionInv'
  <2>1. op[t] \notin StoreOps
    BY <1>4 DEF EnterCacheToWrite, LockInv, OpsOfPlaces, DutyOps, StoreOps
  <2> QED BY <1>4, <2>1, OtherSessions DEF EnterCacheToWrite, store, LockInv, TypeOK, RWLocks
<1>5. ASSUME NEW t \in Threads, TakeMutex(t) PROVE SessionInv'
  <2>1. writer["map"] = t => op[t] \notin ForensicOps
    BY DEF LockInv, OpsOfPlaces, StoreOps, ForensicOps
  <2> QED BY <1>5, <2>1, OtherSessions DEF TakeMutex, store, LockInv, TypeOK, StoreOps
<1>6. ASSUME NEW t \in Threads, NoConnection(t) \/ ForensicReturn(t) PROVE SessionInv'
  BY <1>6, OtherSessions DEF NoConnection, ForensicReturn, Returns, locks, store, LockInv, TypeOK
<1>7. ASSUME NEW t \in Threads,
             LeaveCacheMissed(t) \/ LeaveCacheForensic(t) \/ LeaveMapForensic(t) \/ Leave(t)
      PROVE  SessionInv'
  <2>1. Released(t)
    BY <1>7 DEF LeaveCacheMissed, LeaveCacheForensic, LeaveMapForensic, Leave
  <2>2. \A u \in Threads \ {t} : writer'["map"] = u <=> writer["map"] = u
    BY <2>1, ReleasedEffect DEF LockInv, RWLocks
  <2>3. at[t] \notin {"db", "in_db"} /\ at'[t] \notin {"db", "in_db"}
    BY <1>7 DEF LeaveCacheMissed, LeaveCacheForensic, LeaveMapForensic, Leave, Returns, AfterMiss, LockInv, TypeOK
  <2>4. UNCHANGED <<session_map, sessions, missed>>
    BY <1>7 DEF LeaveCacheMissed, LeaveCacheForensic, LeaveMapForensic, Leave, store
  <2>5. \A u \in Threads \ {t} : at'[u] = at[u] /\ op'[u] = op[u] /\ tok'[u] = tok[u]
    BY <1>7 DEF LeaveCacheMissed, LeaveCacheForensic, LeaveMapForensic, Leave, Returns, LockInv, TypeOK
  <2> QED BY <2>2, <2>3, <2>4, <2>5, OtherSessions
<1>8. ASSUME NEW k \in Tokens, Expire(k) \/ EntryAges(k) PROVE SessionInv'
  BY <1>8 DEF Expire, EntryAges, locks, SessionInv, AgreeOn, UnderWay
<1>9. ASSUME UNCHANGED vars PROVE SessionInv'
  BY <1>9 DEF vars, SessionInv, AgreeOn, UnderWay
<1> QED BY <1>1, <1>2, <1>3, <1>4, <1>5, <1>6, <1>7, <1>8, <1>9, EnterMapToWriteSessions, ExecuteSessions
        DEF Next, Step

(* Whenever map_lock is free of writers, the tokens in the map are those    *)
(* whose rows are active, but for refused statements.                       *)
THEOREM SessionsAgreeCorrect == Spec => []SessionsAgree
<1>1. Init => SessionInv
  BY DEF Init, SessionInv, AgreeOn, UnderWay
<1>2. SessionInv => SessionsAgree
  BY LocksAssumption DEF SessionInv, AgreeOn, UnderWay, SessionsAgree
<1> QED BY <1>1, <1>2, StepSessions, LockInvariant, PTL DEF Spec
=============================================================================
