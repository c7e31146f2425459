----------------------------- MODULE Connections -----------------------------
(***************************************************************************)
(* What the workers of the thread pool do with their clients: the request  *)
(* loop of worker.cpp, the registry of SessionManager and the semaphore of *)
(* ConnectionGate.                                                         *)
(*                                                                         *)
(* A worker serves one connection from its first frame to its last.  A     *)
(* connection logs in once, so its session has no other name here than the *)
(* connection.  ThreadPool says which connection a worker gets next and    *)
(* how workers end; DbLocks, what happens inside login, validateToken,     *)
(* refreshSession, logout and executeQuery, which are single steps here.   *)
(***************************************************************************)
EXTENDS Integers, FiniteSets

CONSTANTS
    Conns,      \* the tasks that are submitted to the pool
    Ids,        \* the thread ids that come with them
    IdOf,       \* which of them comes with which task
    None,       \* not a connection
    Slots       \* M, the initial value of the semaphore

ASSUME ConnectionsAssumption ==
    /\ None \notin Conns
    /\ IdOf \in [Conns -> Ids]
    /\ Slots \in Nat

VARIABLES
    at,            \* where the worker of each connection is
    authenticated, \* connections whose login was accepted
    session_map,   \* those with a session in SessionStore
    expired,       \* those whose session is past its expiry
    registry,      \* the map of SessionManager
    slots,         \* the value of the semaphore
    shared,        \* history: ids that two connections had at a time
    late           \* history: connections that had a query executed after
                   \* their session expired

store == <<authenticated, session_map, expired>>
vars  == <<at, store, registry, slots, shared, late>>

(* "reading" a frame; "welcome" with a login accepted; "gate", "execute"    *)
(* and "send" for a query; "cleanup" and "close" on the way out; "catch"    *)
(* when something threw.                                                    *)
Places == {"queued", "reading", "welcome", "gate", "execute", "send",
           "cleanup", "close", "catch", "done"}

Served(c) == at[c] \notin {"queued", "done"}
Inside    == {c \in Conns : at[c] \in {"execute", "send"}}

Init ==
    /\ at = [c \in Conns |-> "queued"]
    /\ authenticated = {}
    /\ session_map = {}
    /\ expired = {}
    /\ registry = [i \in Ids |-> None]
    /\ slots = Slots
    /\ shared = {}
    /\ late = {}

Goes(c, p) == at' = [at EXCEPT ![c] = p]

-----------------------------------------------------------------------------
(* Worker::process_task, for a task that a thread of the pool has taken.    *)
Take(c) ==
    /\ at[c] = "queued"
    /\ Goes(c, "reading")
    /\ shared' = IF \E d \in Conns : Served(d) /\ IdOf[d] = IdOf[c]
                 THEN shared \cup {IdOf[c]} ELSE shared
    /\ UNCHANGED <<store, registry, slots, late>>

(* AUTH_REQUEST.  A login that fails, a second one, and any request before  *)
(* it are answered with an error and change nothing.                        *)
Login(c) ==
    /\ at[c] = "reading"
    /\ c \notin authenticated
    /\ session_map' = session_map \cup {c}
    /\ Goes(c, "welcome")
    /\ UNCHANGED <<authenticated, expired, registry, slots, shared, late>>

(* The token is sent, or the client is gone: either way                     *)
Register(c) ==
    /\ at[c] = "welcome"
    /\ authenticated' = authenticated \cup {c}
    /\ registry' = [registry EXCEPT ![IdOf[c]] = c]
    /\ Goes(c, "reading")
    /\ UNCHANGED <<session_map, expired, slots, shared, late>>

(* QUERY_REQUEST: the session is validated before the worker waits for its  *)
(* slot.  An empty query is answered with an error.                         *)
Valid_Unchecked(c) == TRUE
Valid(c) == c \in session_map \ expired

Query(c) ==
    /\ at[c] = "reading"
    /\ c \in authenticated
    /\ Goes(c, IF Valid(c) THEN "gate" ELSE "cleanup")
    /\ UNCHANGED <<store, registry, slots, shared, late>>

(* sem_wait.  It is not interrupted: all handlers of the program are        *)
(* installed with SA_RESTART.                                               *)
SlotFree == slots > 0

EnterGate(c) ==
    /\ at[c] = "gate"
    /\ SlotFree
    /\ slots' = slots - 1
    /\ Goes(c, "execute")
    /\ UNCHANGED <<store, registry, shared, late>>

Execute(c) ==
    /\ at[c] = "execute"
    /\ Goes(c, "send")
    /\ late' = IF c \in expired THEN late \cup {c} ELSE late
    /\ UNCHANGED <<store, registry, slots, shared>>

(* The result, or the error, is written to the client; the slot is given    *)
(* back only then.  It takes as long as the client does to read.            *)
SlotsAfterAnswer_Kept == slots
SlotsAfterAnswer == slots + 1

Answer(c) ==
    /\ at[c] = "send"
    /\ slots' = SlotsAfterAnswer
    /\ Goes(c, "reading")
    /\ UNCHANGED <<store, registry, shared, late>>

(* LOGOUT, of an expired session too                                        *)
Logout(c) ==
    /\ at[c] = "reading"
    /\ c \in authenticated
    /\ session_map' = session_map \ {c}
    /\ Goes(c, "cleanup")
    /\ UNCHANGED <<authenticated, expired, registry, slots, shared, late>>

(* The client closes the connection, or sends half a frame.  Its session    *)
(* stays in the store.                                                      *)
Disconnect(c) ==
    /\ at[c] = "reading"
    /\ Goes(c, IF c \in authenticated THEN "cleanup" ELSE "close")
    /\ UNCHANGED <<store, registry, slots, shared, late>>

Unregistered(c) == [registry EXCEPT ![IdOf[c]] = None]

Cleanup(c) ==
    /\ at[c] = "cleanup"
    /\ registry' = Unregistered(c)
    /\ Goes(c, "close")
    /\ UNCHANGED <<store, slots, shared, late>>

Close(c) ==
    /\ at[c] = "close"
    /\ Goes(c, "done")
    /\ UNCHANGED <<store, registry, slots, shared, late>>

(* Something throws (memory runs out, say): the stack is unwound, which     *)
(* gives a slot back, up to process_task.  At "close" the connection has    *)
(* been closed when that happens, and is closed again.                      *)
SlotsAfterThrow_Always(c) == slots + 1
SlotsAfterThrow(c) == IF c \in Inside THEN slots + 1 ELSE slots

Throw(c) ==
    /\ at[c] \in {"reading", "welcome", "gate", "execute", "send", "cleanup", "close"}
    /\ slots' = SlotsAfterThrow(c)
    /\ Goes(c, "catch")
    /\ UNCHANGED <<store, registry, shared, late>>

(* It unregisters the id whether or not this connection was registered.     *)
Catch(c) ==
    /\ at[c] = "catch"
    /\ registry' = Unregistered(c)
    /\ Goes(c, "done")
    /\ UNCHANGED <<store, slots, shared, late>>

(* Eight hours have passed.                                                 *)
Expire(c) ==
    /\ c \in session_map \ expired
    /\ expired' = expired \cup {c}
    /\ UNCHANGED <<at, authenticated, session_map, registry, slots, shared, late>>

Work(c) ==
    \/ Register(c) \/ Execute(c) \/ Cleanup(c) \/ Close(c) \/ Catch(c)

Next ==
    \E c \in Conns :
        \/ Take(c) \/ Login(c) \/ Query(c) \/ EnterGate(c) \/ Answer(c)
        \/ Logout(c) \/ Disconnect(c) \/ Throw(c) \/ Expire(c)
        \/ Work(c)

Spec == Init /\ [][Next]_vars

(* Threads go on with what they can do.  Of those that wait for a slot      *)
(* sem_post lets one in, no matter which.  Nothing obliges a client to send *)
(* a frame or to read one.                                                  *)
FairSpec ==
    /\ Spec
    /\ \A c \in Conns : WF_vars(Work(c))
    /\ WF_vars(\E c \in Conns : EnterGate(c))

-----------------------------------------------------------------------------
(* Types; the semaphore stays in its range.                                 *)
TypeOK ==
    /\ at \in [Conns -> Places]
    /\ authenticated \subseteq Conns
    /\ session_map \subseteq Conns
    /\ expired \subseteq Conns
    /\ registry \in [Ids -> Conns \cup {None}]
    /\ slots \in 0..Slots
    /\ shared \subseteq Ids
    /\ late \subseteq Conns

(* The semaphore counts the slots nobody holds: whichever way a worker      *)
(* leaves the gate, it gives back exactly one.  So no more than M of them   *)
(* are in the database at a time, and M can be.                             *)
SlotsAccounted == slots + Cardinality(Inside) = Slots

(* As long as no two connections had an id at the same time, SessionManager *)
(* has under each id the connection that is logged in with it, and none     *)
(* that is over.  (The registry is all that the active session count of the *)
(* status table can be taken from.)                                         *)
LoggedIn(c) == c \in authenticated /\ at[c] \notin {"close", "catch", "done"}

RegistryFollows ==
    \A i \in Ids \ shared, c \in Conns : IdOf[c] = i =>
        /\ LoggedIn(c) => registry[i] = c
        /\ registry[i] = c => Served(c) /\ c \in authenticated

(* A session is checked before the wait for a slot and not after it, so a   *)
(* query may be executed when it has expired; but only one: the connection  *)
(* is closed at the next.                                                   *)
OneLateQuery ==
    [][\A c \in late : ~(at[c] = "execute" /\ at'[c] = "send")]_vars

(* If every client reads its answers and no new queries come, everyone who  *)
(* waits for a slot gets in: none is lost, and sem_post wakes somebody.     *)
ClientsRead == \A c \in Conns : []<>(at[c] # "send")

EveryoneGetsIn ==
    ClientsRead /\ <>[][\A c \in Conns : ~Query(c)]_vars
        => <>[](\A c \in Conns : at[c] # "gate")

Abstract == INSTANCE Gate WITH
    outside <- {c \in Conns : at[c] = "gate"},
    inside <- Inside

(* The semaphore, which knows only a number, is a gate that knows who is     *)
(* inside: on none of the ways on which a worker leaves (ConnectionGate::    *)
(* leave, the catch blocks) is a slot given back twice, and nobody is in the  *)
(* database without one.                                                     *)
ImplementsGate == Abstract!Spec
=============================================================================
