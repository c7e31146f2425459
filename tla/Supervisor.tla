----------------------------- MODULE Supervisor ------------------------------
(***************************************************************************)
(* The supervisor process: the main loop around processPendingSignals, the *)
(* signal handlers that set flags for it, the scheduler's states, the       *)
(* process registry and the agents, children of the process, as the kernel  *)
(* sees them.                                                               *)
(*                                                                         *)
(* Signals arrive and children die between any two steps of the main loop.  *)
(* The kernel reuses process ids: one that is free may be given to the next *)
(* agent or to a process that has nothing to do with this program.          *)
(***************************************************************************)
EXTENDS Integers

CONSTANTS
    Pids,      \* process ids
    None,      \* not a process id
    MAX_JOBS   \* length of job_registry

ASSUME SupervisorAssumption ==
    /\ None \notin Pids
    /\ MAX_JOBS \in Nat \ {0}

VARIABLES
    main,             \* where the main loop is
    state,            \* Scheduler::state
    job_count,        \* registered jobs, each an agent or an SQL job
    due,              \* how many agents this tick has yet to start
    cur,              \* the pid fork or waitpid returned to the main loop
    armed,            \* the interval timer runs
    alarm_pending, chld_pending, drain_requested,  \* the flags
    sigchld,          \* a SIGCHLD is pending in the kernel
    child,            \* each pid as a child of this process
    foreign,          \* pids of unrelated processes
    killed,           \* children that were sent SIGKILL
    registry,         \* state of each record of the process registry
    restart_count,    \* its counter
    remaining,        \* the pids reapAll still waits for
    signalled,        \* history: pids signalled that were not children
    handlers,         \* a worker of the pool is in a client's handler
    db_taken          \* another thread has db_mutex

flags    == <<alarm_pending, chld_pending, drain_requested, sigchld>>
kernel   == <<child, foreign, killed>>
records  == <<registry, restart_count>>
drain    == <<remaining, signalled>>
threads  == <<handlers, db_taken>>
vars     == <<main, state, job_count, due, cur, armed, flags, kernel, records, drain, threads>>

Zombie(p) == child[p] \in {"exited", "failed"}
Live(p)   == child[p] = "alive" \/ Zombie(p)
Free(p)   == ~Live(p) /\ p \notin foreign

Init ==
    /\ main = "startup"
    /\ state = "INITIALIZING"
    /\ job_count = 0
    /\ due = 0
    /\ cur = None
    /\ armed = FALSE
    /\ alarm_pending = FALSE /\ chld_pending = FALSE /\ drain_requested = FALSE
    /\ sigchld = FALSE
    /\ child = [p \in Pids |-> "none"]
    /\ foreign = {}
    /\ killed = {}
    /\ registry = [p \in Pids |-> "absent"]
    /\ restart_count = [p \in Pids |-> 0]
    /\ remaining = {}
    /\ signalled = {}
    /\ handlers = FALSE /\ db_taken = FALSE

-----------------------------------------------------------------------------
(* Startup: the handlers are installed, jobs registered, the timer armed.   *)

RoomForJob == job_count < MAX_JOBS

RegisterJob ==
    /\ main = "startup"
    /\ RoomForJob
    /\ job_count' = job_count + 1
    /\ UNCHANGED <<main, state, due, cur, armed, flags, kernel, records, drain, threads>>

Run ==
    /\ main = "startup"
    /\ armed' = TRUE
    /\ state' = "RUNNING"
    /\ main' = "drain"
    /\ UNCHANGED <<job_count, due, cur, flags, kernel, records, drain, threads>>

-----------------------------------------------------------------------------
(* Signals, which may arrive as soon as the handlers are installed.         *)

TimerFires ==
    /\ armed
    /\ main # "exited"
    /\ alarm_pending' = TRUE
    /\ UNCHANGED <<main, state, job_count, due, cur, armed, chld_pending, drain_requested, sigchld,
                   kernel, records, drain, threads>>

(* SIGTERM or SIGINT *)
Terminate ==
    /\ main # "exited"
    /\ drain_requested' = TRUE
    /\ UNCHANGED <<main, state, job_count, due, cur, armed, alarm_pending, chld_pending, sigchld,
                   kernel, records, drain, threads>>

(* SIGCHLD.  Several children may have died since the last one.             *)
handle_sigchld ==
    /\ sigchld
    /\ main # "exited"
    /\ sigchld' = FALSE
    /\ chld_pending' = TRUE
    /\ UNCHANGED <<main, state, job_count, due, cur, armed, alarm_pending, drain_requested,
                   kernel, records, drain, threads>>

-----------------------------------------------------------------------------
(* Processes.  An agent ends by itself, because of SIGTERM, which it may    *)
(* also ignore, or because of SIGKILL, which it cannot.                     *)

Die(p) ==
    /\ child[p] = "alive"
    /\ \E how \in {"exited", "failed"} :
          /\ p \in killed => how = "failed"
          /\ child' = [child EXCEPT ![p] = how]
    /\ sigchld' = TRUE
    /\ UNCHANGED <<main, state, job_count, due, cur, armed, alarm_pending, chld_pending, drain_requested,
                   foreign, killed, records, drain, threads>>

ForeignStarts(p) ==
    /\ Free(p)
    /\ foreign' = foreign \cup {p}
    /\ UNCHANGED <<main, state, job_count, due, cur, armed, flags, child, killed, records, drain, threads>>

ForeignEnds(p) ==
    /\ p \in foreign
    /\ foreign' = foreign \ {p}
    /\ UNCHANGED <<main, state, job_count, due, cur, armed, flags, child, killed, records, drain, threads>>

-----------------------------------------------------------------------------
(* processPendingSignals, second part: the tick.                            *)

MayTick_InAnyState == TRUE
MayTick == state = "RUNNING"

CheckAlarm ==
    /\ main = "alarm"
    /\ alarm_pending' = FALSE
    /\ IF alarm_pending /\ MayTick
       THEN main' = "tick" /\ due' \in 0 .. job_count
       ELSE main' = "chld" /\ due' = 0
    /\ UNCHANGED <<state, job_count, cur, armed, chld_pending, drain_requested, sigchld,
                   kernel, records, drain, threads>>

(* An SQL job, which needs db_mutex for its statement.                      *)
BeginSqlJob ==
    /\ main = "tick"
    /\ due > 0
    /\ main' = "sql"
    /\ UNCHANGED <<state, job_count, due, cur, armed, flags, kernel, records, drain, threads>>

EndSqlJob ==
    /\ main = "sql"
    /\ ~db_taken
    /\ due' = due - 1
    /\ main' = "tick"
    /\ UNCHANGED <<state, job_count, cur, armed, flags, kernel, records, drain, threads>>

(* AgentJob::execute up to the fork, which may fail or may not be reached.  *)
Fork(p) ==
    /\ main = "tick"
    /\ due > 0
    /\ Free(p)
    /\ child' = [child EXCEPT ![p] = "alive"]
    /\ cur' = p
    /\ main' = "register"
    /\ UNCHANGED <<state, job_count, due, armed, flags, foreign, killed, records, drain, threads>>

ForkFails ==
    /\ main = "tick"
    /\ due > 0
    /\ due' = due - 1
    /\ UNCHANGED <<main, state, job_count, cur, armed, flags, kernel, records, drain, threads>>

(* registerProcess leaves an existing record as it is and answers           *)
(* ALREADY_EXISTS, which nobody reads.                                      *)
Register ==
    /\ main = "register"
    /\ IF registry[cur] = "absent"
       THEN /\ registry' = [registry EXCEPT ![cur] = "RUNNING"]
            /\ restart_count' = [restart_count EXCEPT ![cur] = 0]
       ELSE UNCHANGED records
    /\ due' = due - 1
    /\ cur' = None
    /\ main' = "tick"
    /\ UNCHANGED <<state, job_count, armed, flags, kernel, drain, threads>>

TickEnds ==
    /\ main = "tick"
    /\ due = 0
    /\ main' = "chld"
    /\ UNCHANGED <<state, job_count, due, cur, armed, flags, kernel, records, drain, threads>>

-----------------------------------------------------------------------------
(* processPendingSignals, third part: SIGCHLD.  The flag is cleared before  *)
(* the loop over waitpid.                                                   *)

NextPass_OnDraining == IF state = "DRAINING" THEN "exited" ELSE "drain"
NextPass == IF state = "STOPPED" THEN "exited" ELSE "drain"

CheckChld ==
    /\ main = "chld"
    /\ chld_pending' = FALSE
    /\ main' = IF chld_pending THEN "reap" ELSE NextPass
    /\ UNCHANGED <<state, job_count, due, cur, armed, alarm_pending, drain_requested, sigchld,
                   kernel, records, drain, threads>>

WaitAny(p) ==
    /\ main = "reap"
    /\ Zombie(p)
    /\ child' = [child EXCEPT ![p] = "gone"]
    /\ cur' = p
    /\ main' = "reapOne"
    /\ UNCHANGED <<state, job_count, due, armed, flags, foreign, killed, records, drain, threads>>

WaitAnyNone ==
    /\ main = "reap"
    /\ \A p \in Pids : ~Zombie(p)
    /\ main' = NextPass
    /\ UNCHANGED <<state, job_count, due, cur, armed, flags, kernel, records, drain, threads>>

AfterReapOne_Once == NextPass
AfterReapOne == "reap"

(* ProcessManager::reapOne.  Its waitpid finds the child only if nobody has *)
(* reaped it before; the action it answers is not looked at.                *)
reapOne ==
    /\ main = "reapOne"
    /\ IF Zombie(cur)
       THEN /\ child' = [child EXCEPT ![cur] = "gone"]
            /\ registry' = [registry EXCEPT ![cur] = IF @ = "absent" THEN @ ELSE "REAPED"]
            /\ restart_count' = [restart_count EXCEPT
                                    ![cur] = IF child[cur] = "failed" /\ registry[cur] # "absent" THEN @ + 1 ELSE @]
       ELSE UNCHANGED <<child, records>>
    /\ cur' = None
    /\ main' = AfterReapOne
    /\ UNCHANGED <<state, job_count, due, armed, flags, foreign, killed, drain, threads>>

-----------------------------------------------------------------------------
(* processPendingSignals, first part: handleDrainRequest with reapAll.      *)

Registered == {p \in Pids : registry[p] # "absent"}

CheckDrain ==
    /\ main = "drain"
    /\ drain_requested' = FALSE
    /\ IF drain_requested
       THEN /\ state' = "DRAINING"
            /\ armed' = FALSE
            /\ remaining' = Registered
            /\ main' = "term"
       ELSE /\ main' = "alarm"
            /\ UNCHANGED <<state, armed, remaining>>
    /\ UNCHANGED <<job_count, due, cur, alarm_pending, chld_pending, sigchld, kernel, records, signalled, threads>>

(* Phase 1.  kill answers ESRCH for a pid nobody has; a pid somebody else   *)
(* has by now is signalled.                                                 *)
SendTerm ==
    /\ main = "term"
    /\ signalled' = signalled \cup (remaining \cap foreign)
    /\ main' = "wait"
    /\ UNCHANGED <<state, job_count, due, cur, armed, flags, kernel, records, remaining, threads>>

(* Phase 2, one pass over the pids that remain.                             *)
StillAlive == {p \in remaining : child[p] = "alive"}

WaitPass ==
    /\ main = "wait"
    /\ remaining # {}
    /\ child' = [p \in Pids |-> IF p \in remaining /\ Zombie(p) THEN "gone" ELSE child[p]]
    /\ registry' = [p \in Pids |-> IF p \in remaining \ StillAlive THEN "REAPED" ELSE registry[p]]
    /\ remaining' = StillAlive
    /\ UNCHANGED <<main, state, job_count, due, cur, armed, flags, foreign, killed, restart_count, signalled, threads>>

AllReaped ==
    /\ main \in {"wait", "final"}
    /\ remaining = {}
    /\ main' = "join"
    /\ handlers' \in BOOLEAN
    /\ UNCHANGED <<state, job_count, due, cur, armed, flags, kernel, records, drain, db_taken>>

Stragglers_None == {}
Stragglers == StillAlive

(* SHUTDOWN_TIMEOUT_SEC have passed.  Phase 3: SIGKILL.                     *)
Timeout ==
    /\ main = "wait"
    /\ remaining # {}
    /\ killed' = Stragglers
    /\ signalled' = signalled \cup (remaining \cap foreign)
    /\ main' = "final"
    /\ UNCHANGED <<state, job_count, due, cur, armed, flags, child, foreign, records, remaining, threads>>

(* The final, blocking waitpid.                                             *)
FinalWait(p) ==
    /\ main = "final"
    /\ p \in remaining
    /\ child[p] # "alive"
    /\ IF Zombie(p)
       THEN /\ child' = [child EXCEPT ![p] = "gone"]
            /\ registry' = [registry EXCEPT ![p] = "REAPED"]
       ELSE UNCHANGED <<child, registry>>
    /\ killed' = killed \ {p}
    /\ remaining' = remaining \ {p}
    /\ UNCHANGED <<main, state, job_count, due, cur, armed, flags, foreign, restart_count, signalled, threads>>

(* ThreadPool::shutdown joins the workers, each once it is in no handler.    *)
PoolShutDown ==
    /\ main = "join"
    /\ ~handlers
    /\ main' = "disconnect"
    /\ UNCHANGED <<state, job_count, due, cur, armed, flags, kernel, records, drain, threads>>

(* disconnectDatabase takes db_mutex; then the state is set.                 *)
Stopped ==
    /\ main = "disconnect"
    /\ ~db_taken
    /\ state' = "STOPPED"
    /\ main' = "alarm"
    /\ UNCHANGED <<job_count, due, cur, armed, flags, kernel, records, drain, threads>>

-----------------------------------------------------------------------------
(* The other threads, as the main loop meets them.  A worker goes from one   *)
(* client of the queue to the next, and is in a handler as long as its client *)
(* keeps the connection; the mutex may be kept for ever by a thread that       *)
(* waits for the database or has forgotten to release it.                      *)

HandlerStarts ==
    /\ main = "join"
    /\ ~handlers /\ handlers' = TRUE
    /\ UNCHANGED <<main, state, job_count, due, cur, armed, flags, kernel, records, drain, db_taken>>

HandlerReturns ==
    /\ handlers /\ handlers' = FALSE
    /\ UNCHANGED <<main, state, job_count, due, cur, armed, flags, kernel, records, drain, db_taken>>

DbTaken ==
    /\ main # "exited"
    /\ db_taken' = ~db_taken
    /\ UNCHANGED <<main, state, job_count, due, cur, armed, flags, kernel, records, drain, handlers>>

MainLoop ==
    \/ Run
    \/ CheckAlarm
    \/ BeginSqlJob
    \/ EndSqlJob
    \/ (\E p \in Pids : Fork(p))
    \/ ForkFails
    \/ Register
    \/ TickEnds
    \/ CheckChld
    \/ (\E p \in Pids : WaitAny(p))
    \/ WaitAnyNone
    \/ reapOne
    \/ CheckDrain
    \/ SendTerm
    \/ WaitPass
    \/ AllReaped
    \/ (\E p \in Pids : FinalWait(p))
    \/ PoolShutDown
    \/ Stopped

Next ==
    \/ MainLoop
    \/ RegisterJob
    \/ Timeout
    \/ TimerFires
    \/ Terminate
    \/ handle_sigchld
    \/ HandlerStarts
    \/ HandlerReturns
    \/ DbTaken
    \/ \E p \in Pids : Die(p) \/ ForeignStarts(p) \/ ForeignEnds(p)

Spec == Init /\ [][Next]_vars

(* The main loop goes on, a pending SIGCHLD is delivered, the ten seconds   *)
(* of reapAll pass and SIGKILL ends a process.  Nothing else is promised:   *)
(* an agent may run for ever and ignore SIGTERM, a client may keep a worker  *)
(* in its handler and a thread may keep db_mutex; the main loop waits where   *)
(* the code does.                                                             *)
FairSpec ==
    /\ Spec
    /\ WF_vars(MainLoop)
    /\ WF_vars(handle_sigchld)
    /\ WF_vars(Timeout)
    /\ \A p \in Pids : WF_vars(p \in killed /\ Die(p))

-----------------------------------------------------------------------------
(* Properties.                                                              *)

DrainPlaces == {"term", "wait", "final", "join", "disconnect"}

Places == DrainPlaces \cup
    {"startup", "drain", "alarm", "tick", "sql", "register", "chld", "reap", "reapOne", "exited"}

(* The variables have their types; job_registry never holds more jobs than  *)
(* it has room for, and a tick starts each job once at most.                *)
TypeOK ==
    /\ main \in Places
    /\ state \in {"INITIALIZING", "RUNNING", "DRAINING", "STOPPED"}
    /\ job_count \in 0 .. MAX_JOBS
    /\ due \in 0 .. job_count
    /\ cur \in Pids \cup {None}
    /\ armed \in BOOLEAN
    /\ alarm_pending \in BOOLEAN /\ chld_pending \in BOOLEAN /\ drain_requested \in BOOLEAN
    /\ sigchld \in BOOLEAN
    /\ child \in [Pids -> {"none", "alive", "exited", "failed", "gone"}]
    /\ foreign \subseteq Pids
    /\ killed \subseteq Pids
    /\ registry \in [Pids -> {"absent", "RUNNING", "REAPED"}]
    /\ restart_count \in [Pids -> Nat]
    /\ remaining \subseteq Pids
    /\ signalled \subseteq Pids
    /\ handlers \in BOOLEAN /\ db_taken \in BOOLEAN

(* A dead child never waits for another one to die before it is reaped:     *)
(* unless the loop over waitpid is running, a SIGCHLD or the flag it sets   *)
(* is pending, though SIGCHLDs merge and the flag is cleared first.         *)
NoZombieForgotten ==
    (\E p \in Pids : Zombie(p)) /\ main \notin {"reap", "reapOne"} => sigchld \/ chld_pending

(* Once the scheduler has stopped no agent is left behind and none is       *)
(* started, whatever ticks, deaths and signals came during the drain.       *)
StoppedMeansNoAgents == state = "STOPPED" => \A p \in Pids : ~Live(p)

(* A SIGTERM leaves no agent behind, even if agents ignore their own SIGTERM  *)
(* and whatever the clients do: it is enough that db_mutex is given back, for   *)
(* a job of the tick may be waiting for it.                                       *)
DrainReapsAgents ==
    <>[]~db_taken =>
        (drain_requested ~> state \in {"DRAINING", "STOPPED"} /\ \A p \in Pids : ~Live(p))

(* SIGTERM ends the main loop, provided also that the workers' clients hang up *)
(* and no further ones are waiting: ThreadPool::shutdown and disconnectDatabase *)
(* have no time-out.                                                              *)
DrainCompletes ==
    <>[](~handlers /\ ~db_taken) => (drain_requested ~> main = "exited")

(* "send SIGTERM to all registered agent PIDs": shutdown signals agents and *)
(* no other process.  It does not hold: the records of agents that the       *)
(* SIGCHLD handler has reaped stay, and their ids may be somebody else's.     *)
OnlyAgentsAreSignalled == signalled = {}

(* The agents as the code around the supervisor sees them.                  *)
Agent(p) == CASE child[p] = "alive" -> "alive" [] Zombie(p) -> "ended" [] OTHER -> "none"

Abstract == INSTANCE Agents WITH phase <- state, agent <- [p \in Pids |-> Agent(p)]

(* Whatever comes in between, signals, deaths, reused process ids: no agent *)
(* is started but by a running scheduler, also after SIGTERM; each is        *)
(* waited for, after its death and once; and the scheduler is stopped when   *)
(* none is left (handleDrainRequest, processPendingSignals, reapAll).        *)
ImplementsAgents == Abstract!Spec
=============================================================================
