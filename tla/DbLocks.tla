------------------------------- MODULE DbLocks -------------------------------
(***************************************************************************)
(* The locks around the one database connection of a process, and the     *)
(* state they guard: the session map of SessionStore (map_lock, a          *)
(* reader-writer lock), the duty cache (cache_lock, another one) and the   *)
(* connection itself (db_mutex of UnixSocket, a mutex that is not          *)
(* recursive).  Threads take them nested: SessionStore and DutyCache call  *)
(* executeQuery, which takes db_mutex, while they hold their own lock for  *)
(* writing; the forensic manager takes db_mutex first and then validates   *)
(* the token and asks the duty cache.                                      *)
(*                                                                         *)
(* Acquiring a lock and what is then done with the state it guards is one  *)
(* action; every other acquisition or release is an action of its own.     *)
(***************************************************************************)
EXTENDS Integers, FiniteSets

CONSTANTS
    Threads,
    Tokens,         \* session tokens that logins may generate, one officer each
    None,           \* neither a thread nor a token
    Forensic,       \* whether the forensic manager is called
    StatementsFail  \* whether the database may refuse a statement

ASSUME LocksAssumption ==
    /\ None \notin Threads
    /\ None \notin Tokens
    /\ Forensic \in BOOLEAN
    /\ StatementsFail \in BOOLEAN

RWLocks == {"map", "cache"}

VARIABLES
    at,           \* where each thread is
    op,           \* the operation it is executing
    tok,          \* the token (or its officer) that operation is about
    writer,       \* who holds each reader-writer lock for writing
    readers,      \* who holds it for reading
    db,           \* who holds db_mutex
    session_map,  \* tokens in the map of SessionStore
    sessions,     \* is_active of each token's row, "none" before the INSERT
    expired,      \* tokens past their hard expiry
    fresh,        \* tokens whose officer has an unexpired duty cache entry
    missed        \* history: tokens whose INSERT or logout UPDATE has failed

locks  == <<writer, readers, db>>
store  == <<session_map, sessions, expired, fresh, missed>>
vars   == <<at, op, tok, writer, readers, db, session_map, sessions, expired, fresh, missed>>

(* Where a thread is: "map_w", "map_r", "cache_w", "cache_r" and "db" are   *)
(* about to take that lock; "in_db" is executing a statement under a mutex  *)
(* taken by execute, "in_forensic" one under the mutex of _authAndConn; and *)
(* "leave" is about to release its reader-writer lock.                      *)
Places ==
    {"idle", "map_w", "map_r", "cache_w", "cache_r", "db", "in_db", "in_forensic", "leave"}

Ops == {"none", "insert", "refresh", "remove", "validate", "duty", "query",
        "forensic_query", "forensic_write"}

ForensicOps == {"forensic_query", "forensic_write"}

Free(l)         == writer[l] = None
FreeToWrite(l)  == writer[l] = None /\ readers[l] = {}

Init ==
    /\ at = [t \in Threads |-> "idle"]
    /\ op = [t \in Threads |-> "none"]
    /\ tok = [t \in Threads |-> None]
    /\ writer = [l \in RWLocks |-> None]
    /\ readers = [l \in RWLocks |-> {}]
    /\ db = None
    /\ session_map = {}
    /\ sessions = [k \in Tokens |-> "none"]
    /\ expired = {}
    /\ fresh = {}
    /\ missed = {}

-----------------------------------------------------------------------------
(* A thread starts an operation.  A token is drawn afresh by every login    *)
(* and is known to nobody before its login; a login that is under way has   *)
(* a token of its own.  The other operations are called with any string,    *)
(* also with a token that was logged out or has expired.                    *)

Begin(t, o, k, p) ==
    /\ at[t] = "idle"
    /\ at' = [at EXCEPT ![t] = p]
    /\ op' = [op EXCEPT ![t] = o]
    /\ tok' = [tok EXCEPT ![t] = k]
    /\ UNCHANGED <<locks, store>>

Returns(t) ==
    /\ at' = [at EXCEPT ![t] = "idle"]
    /\ op' = [op EXCEPT ![t] = "none"]
    /\ tok' = [tok EXCEPT ![t] = None]

Drawn(k) ==
    sessions[k] # "none" \/ k \in missed \/ \E u \in Threads : op[u] = "insert" /\ tok[u] = k

(* AuthManager::login, once the credentials were accepted *)
Login(t, k)    == ~Drawn(k) /\ Begin(t, "insert", k, "map_w")
Validate(t, k) == Begin(t, "validate", k, "map_r")
Refresh(t, k)  == Begin(t, "refresh", k, "map_w")
Logout(t, k)   == Begin(t, "remove", k, "map_w")
(* AuthManager::isDutyActive *)
DutyCheck(t, k) == Begin(t, "duty", k, "cache_r")
(* IpcManager::executeQuery called by any other component *)
Query(t)       == Begin(t, "query", None, "db")
(* a query or an update of ForensicManager *)
ForensicCall(t, k) == Forensic /\ \E o \in ForensicOps : Begin(t, o, k, "db")

-----------------------------------------------------------------------------
(* SessionStore *)

(* insert, refresh and remove up to the call of executeQuery.  refresh and  *)
(* remove return early if the token is unknown, refresh also if the token   *)
(* has expired.                                                             *)
Rejected(o, k) ==
    \/ o # "insert" /\ k \notin session_map
    \/ o = "refresh" /\ k \in expired

MapAfter(o, k) ==
    CASE o = "insert" -> session_map \cup {k}
      [] o = "remove" -> session_map \ {k}
      [] OTHER -> session_map

(* Who holds map_lock while the statement is executed.                      *)
MapHolder_Released(t) == None
MapHolder(t) == t

EnterMapToWrite(t) ==
    /\ at[t] = "map_w"
    /\ FreeToWrite("map")
    /\ IF Rejected(op[t], tok[t])
       THEN /\ writer' = [writer EXCEPT !["map"] = t]
            /\ at' = [at EXCEPT ![t] = "leave"]
            /\ UNCHANGED session_map
       ELSE /\ writer' = [writer EXCEPT !["map"] = MapHolder(t)]
            /\ at' = [at EXCEPT ![t] = "db"]
            /\ session_map' = MapAfter(op[t], tok[t])
    /\ UNCHANGED <<op, tok, readers, db, sessions, expired, fresh, missed>>

(* validate, called by any component or by _authAndConn.  A failure is      *)
(* recorded in op: the forensic operation goes no further.                  *)
EnterMapToRead(t) ==
    /\ at[t] = "map_r"
    /\ Free("map")
    /\ readers' = [readers EXCEPT !["map"] = @ \cup {t}]
    /\ at' = [at EXCEPT ![t] = "leave"]
    /\ op' = [op EXCEPT ![t] = IF tok[t] \in session_map \ expired THEN @ ELSE "validate"]
    /\ UNCHANGED <<tok, writer, db, store>>

-----------------------------------------------------------------------------
(* DutyCache::check *)

EnterCacheToRead(t) ==
    /\ at[t] = "cache_r"
    /\ Free("cache")
    /\ readers' = [readers EXCEPT !["cache"] = @ \cup {t}]
    /\ at' = [at EXCEPT ![t] = "leave"]
    /\ UNCHANGED <<op, tok, writer, db, store>>

EnterCacheToWrite(t) ==
    /\ at[t] = "cache_w"
    /\ FreeToWrite("cache")
    /\ writer' = [writer EXCEPT !["cache"] = t]
    /\ at' = [at EXCEPT ![t] = "db"]
    /\ UNCHANGED <<op, tok, readers, db, store>>

-----------------------------------------------------------------------------
(* UnixSocket::execute, UnixSocket::lock *)

(* With op in ForensicOps and no reader-writer lock held this is lockDb in  *)
(* _authAndConn, and the thread goes on to validate its token; otherwise it *)
(* is acquireLock in execute.                                               *)
TakeMutex(t) ==
    /\ at[t] = "db"
    /\ db = None
    /\ db' = t
    /\ at' = [at EXCEPT ![t] = IF op[t] \in ForensicOps THEN "map_r" ELSE "in_db"]
    /\ UNCHANGED <<op, tok, writer, readers, store>>

(* No connection: _authAndConn unlocks and returns.                         *)
NoConnection(t) ==
    /\ at[t] = "map_r"
    /\ op[t] \in ForensicOps
    /\ StatementsFail
    /\ db' = None
    /\ Returns(t)
    /\ UNCHANGED <<writer, readers, store>>

(* The statement is executed and the mutex released, whether or not the     *)
(* database accepts it.  SessionStore logs a failure and goes on; DutyCache *)
(* caches nothing.                                                          *)
RowAfter(k, o) ==
    CASE o = "insert" -> "active"
      [] o = "remove" /\ sessions[k] = "active" -> "inactive"
      [] OTHER -> sessions[k]

(* The error paths of execute release the mutex too.                        *)
MutexAfterFailure == None

Execute(t) ==
    /\ at[t] = "in_db"
    /\ IF op[t] = "query"
       THEN Returns(t)
       ELSE /\ at' = [at EXCEPT ![t] = "leave"]
            /\ UNCHANGED <<op, tok>>
    /\ \/ /\ db' = None
          /\ sessions' = [k \in Tokens |-> IF k = tok[t] THEN RowAfter(k, op[t]) ELSE sessions[k]]
          /\ fresh' = IF op[t] = "duty" THEN fresh \cup {tok[t]} ELSE fresh
          /\ UNCHANGED missed
       \/ /\ StatementsFail
          /\ db' = MutexAfterFailure
          /\ missed' = IF op[t] \in {"insert", "remove"} THEN missed \cup {tok[t]} ELSE missed
          /\ UNCHANGED <<sessions, fresh>>
    /\ UNCHANGED <<writer, readers, session_map, expired>>

-----------------------------------------------------------------------------
(* The guard of a reader-writer lock goes out of scope.                     *)

Released_ReadersKept(t) ==
    /\ writer' = [l \in RWLocks |-> IF writer[l] = t THEN None ELSE writer[l]]
    /\ UNCHANGED readers
Released(t) ==
    /\ writer' = [l \in RWLocks |-> IF writer[l] = t THEN None ELSE writer[l]]
    /\ readers' = [l \in RWLocks |-> readers[l] \ {t}]

HoldsToRead(t, l) == t \in readers[l]

(* check found no unexpired entry: it goes for the write lock.              *)
AfterMiss_ReadAgain == "cache_r"
AfterMiss == "cache_w"

LeaveCacheMissed(t) ==
    /\ at[t] = "leave"
    /\ HoldsToRead(t, "cache")
    /\ tok[t] \notin fresh
    /\ Released(t)
    /\ at' = [at EXCEPT ![t] = AfterMiss]
    /\ UNCHANGED <<op, tok, db, store>>

(* check returned inside a forensic update: it executes its statements on   *)
(* the connection it was given.                                             *)
LeaveCacheForensic(t) ==
    /\ at[t] = "leave"
    /\ op[t] = "forensic_write"
    /\ HoldsToRead(t, "cache")
    /\ tok[t] \in fresh
    /\ Released(t)
    /\ at' = [at EXCEPT ![t] = "in_forensic"]
    /\ UNCHANGED <<op, tok, db, store>>

(* The token of a forensic operation was valid: an update asks the duty     *)
(* cache, a query goes to the database.                                     *)
LeaveMapForensic(t) ==
    /\ at[t] = "leave"
    /\ op[t] \in ForensicOps
    /\ HoldsToRead(t, "map")
    /\ Released(t)
    /\ at' = [at EXCEPT ![t] = IF op[t] = "forensic_write" THEN "cache_r" ELSE "in_forensic"]
    /\ UNCHANGED <<op, tok, db, store>>

(* Any other operation returns; a forensic one whose token was refused      *)
(* unlocks the mutex on its way out.                                        *)
Leave(t) ==
    /\ at[t] = "leave"
    /\ op[t] \notin ForensicOps
    /\ HoldsToRead(t, "cache") => tok[t] \in fresh
    /\ Released(t)
    /\ db' = IF db = t THEN None ELSE db
    /\ Returns(t)
    /\ UNCHANGED store

(* A forensic operation returns to its caller.  Nothing calls unlockDb.     *)
ForensicReturn(t) ==
    /\ at[t] = "in_forensic"
    /\ Returns(t)
    /\ UNCHANGED <<locks, store>>

-----------------------------------------------------------------------------
(* Time passes: a session reaches its hard expiry, a cache entry its TTL.   *)

Expire(k) ==
    /\ k \in session_map \ expired
    /\ expired' = expired \cup {k}
    /\ UNCHANGED <<at, op, tok, locks, session_map, sessions, fresh, missed>>

EntryAges(k) ==
    /\ k \in fresh
    /\ fresh' = fresh \ {k}
    /\ UNCHANGED <<at, op, tok, locks, session_map, sessions, expired, missed>>

Call(t, k) ==
    \/ Login(t, k)
    \/ Validate(t, k)
    \/ Refresh(t, k)
    \/ Logout(t, k)
    \/ DutyCheck(t, k)
    \/ Query(t)
    \/ ForensicCall(t, k)

Step(t) ==
    \/ EnterMapToWrite(t)
    \/ EnterMapToRead(t)
    \/ EnterCacheToRead(t)
    \/ EnterCacheToWrite(t)
    \/ TakeMutex(t)
    \/ NoConnection(t)
    \/ Execute(t)
    \/ LeaveCacheMissed(t)
    \/ LeaveCacheForensic(t)
    \/ LeaveMapForensic(t)
    \/ Leave(t)
    \/ ForensicReturn(t)

Next ==
    \/ \E t \in Threads : Step(t) \/ \E k \in Tokens : Call(t, k)
    \/ \E k \in Tokens : Expire(k) \/ EntryAges(k)

Spec == Init /\ [][Next]_vars

-----------------------------------------------------------------------------
(* Properties.                                                              *)

(* The variables have their types, and the reader-writer locks exclude what *)
(* they are there to exclude.                                               *)
TypeOK ==
    /\ at \in [Threads -> Places]
    /\ op \in [Threads -> Ops]
    /\ tok \in [Threads -> Tokens \cup {None}]
    /\ writer \in [RWLocks -> Threads \cup {None}]
    /\ readers \in [RWLocks -> SUBSET Threads]
    /\ \A l \in RWLocks : writer[l] # None => readers[l] = {}
    /\ db \in Threads \cup {None}
    /\ session_map \subseteq Tokens
    /\ sessions \in [Tokens -> {"none", "active", "inactive"}]
    /\ expired \subseteq Tokens
    /\ fresh \subseteq Tokens
    /\ missed \subseteq Tokens

(* t cannot go on before u releases a lock.  A thread that wants db_mutex   *)
(* while it holds it waits for itself.                                      *)
WaitsFor(t, u) ==
    \/ at[t] = "map_w"   /\ (writer["map"] = u \/ u \in readers["map"])
    \/ at[t] = "map_r"   /\ writer["map"] = u
    \/ at[t] = "cache_w" /\ (writer["cache"] = u \/ u \in readers["cache"])
    \/ at[t] = "cache_r" /\ writer["cache"] = u
    \/ at[t] = "db"      /\ db = u

Deadlocked(S) == S # {} /\ \A t \in S : \E u \in S : WaitsFor(t, u)

(* Without the forensic manager the nesting of the locks (map or cache,     *)
(* then db_mutex) admits no deadlock, whatever statements fail.             *)
NoDeadlock == \A S \in SUBSET Threads : ~Deadlocked(S)

(* With it there are deadlocks, and each takes a thread that holds db_mutex *)
(* through lockDb: it went on to another lock (against the order of all     *)
(* others, or back to db_mutex itself for a duty status that is not         *)
(* cached), or it has returned without unlockDb.  The locks of SessionStore *)
(* and DutyCache are never to blame by themselves.                          *)
DeadlocksNeedLockDb ==
    (db = None \/ at[db] = "in_db") => \A S \in SUBSET Threads : ~Deadlocked(S)

(* The map of SessionStore is the authority and the sessions table its      *)
(* copy: whenever no login, refresh or logout is under way, a token is in   *)
(* the map if and only if its row is active, but for the tokens about which *)
(* the database refused a statement.                                        *)
SessionsAgree ==
    writer["map"] = None =>
        \A k \in Tokens \ missed : k \in session_map <=> sessions[k] = "active"

(* Every call returns if no new ones are made and the forensic manager is   *)
(* left alone: what the locks owe to their callers, in whatever order       *)
(* threads are scheduled.                                                   *)
Calls == \E t \in Threads, k \in Tokens : Call(t, k)
NoForensicCall == \A t \in Threads : op[t] \notin ForensicOps

EveryCallReturns ==
    []NoForensicCall /\ <>[][~Calls]_vars => <>[](\A t \in Threads : at[t] = "idle")

(* "The caller MUST call unlockDb() when they are finished with out_conn!": *)
(* a thread that is back from its call holds no lock.  Nobody calls unlockDb *)
(* after _authAndConn: the first forensic call refutes it.                   *)
NobodyKeepsTheMutex == \A t \in Threads : at[t] = "idle" => db # t

(* A thread that can take its next step eventually takes it.                *)
FairSpec == Spec /\ \A t \in Threads : WF_vars(Step(t))
=============================================================================
