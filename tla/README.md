# JusticeFlow: models, checks and proofs

JusticeFlow is a case management system for police stations: C++ services and facades over one PostgreSQL database, an
operating-system layer (supervisor, thread pool, sockets, FIFOs, shared memory), a gateway for a dashboard, and AI agents in
Python that run as child processes. This directory holds TLA+ modules that model the parts of it where concurrency, failure
and order matter, TLC configurations that check them on small instances, and TLAPS proofs of what holds for all instances.
`PROJECT.json` says for every definition which lines of the source it stands for. Paths below are relative to `src/`.

## 1. Inventory

Three programs can be read out of the repository, and it matters which one a statement is about:

* the **running product**: `src/main.cpp` starts the `SystemManager` (facades, session store, managers), the `ApiGateway`
  (`DomainSocket`) and the command line, on the main thread;
* the **multi-user server** of `src/os_layer` (thread pool, workers, session manager, connection gate, scheduler, process
  manager) as its documentation (`os_layer.h`, `DESIGN.md`, `ARCHITECTURE.md`) and its tests wire it together; `main.cpp`
  does not start these parts;
* the **database**, `db/schema`: tables, constraints, triggers and functions which every program writes through.

| Component | State | Operations | Interacts with | What is hard | Correct if | Module |
|---|---|---|---|---|---|---|
| Thread pool (`os_layer/threading/thread_pool`) | ring buffer, condition variable, threads, shutdown flag | init, submit, worker loop, shutdown | workers get client sockets from it | lost wake-ups, shutdown against sleep, wrap-around, failed `pthread_create` | a bounded FIFO queue; accepted clients served; shutdown returns | `ThreadPool`, `TaskQueue` |
| Workers, session registry, connection gate (`worker`, `session_manager`, `connection_gate`) | where each connection is, registry, semaphore | login, query, logout, errors, exceptions | pool, session store, database | a slot or an entry lost on one of many ways out; a session that expires while waiting | slots conserved; registry = who is logged in; nobody starves | `Connections`, `Gate` |
| Locks and session data (`session_store`, `duty_cache`, `unix_socket`, `forensic_manager::_authAndConn`) | map + `map_lock`, cache + `cache_lock`, connection + `db_mutex`, `sessions` rows | insert, validate, refresh, remove, duty check, query, forensic calls | every manager | nesting of three locks; two copies of a session; failing statements | no deadlock; copies agree | `DbLocks` |
| Supervision of agents (`os_layer/scheduler`, `os_layer/process`) | flags, scheduler state, registry, children | signals, tick, fork, reap, drain | kernel, agents | merged SIGCHLDs, deaths at any moment, reused pids, agents that ignore SIGTERM, a shutdown that waits for clients and for a mutex | no zombie forgotten, drain reaps all, nothing outlives it | `Supervisor`, `Agents` |
| Enforcement (`subsystem3/enforcement`) | custody, warrant and bail rows | warrant, arrest, custody, bail, revoke; nightly jobs | database | each operation is several transactions; two officers on one arrest; failures between statements | custody, bail and warrant agree; final states final | `Enforcement` |
| Gateway and shutdown (`main`, `api_gateway`, `DomainSocket`) | `running_`, listener, socket file, threads, orchestrator | start, accept, serve, stop, signal handlers, exit | clients, kernel | `stop()` from handlers on any thread; freeing what a thread uses; `accept` against `close` | stop once, free last, no file left | `Gateway` |
| Requests of the dashboard (`socket_request`, `DomainSocket` frames and commands) | one stream each way | frames, parse, dispatch, nine read-only commands | client, database | partial reads and writes, pipelining through full buffers, a flat parser for nested JSON, numbers that no `int` holds | answers keep step with requests; the daemon lives | `Requests`, `RequestText`, `RequestReply` |
| Official numbers (`db/schema/03_functions.sql`) | `Sequence_Registry`, UNIQUE numbers | get_next_seq in four BEFORE INSERT triggers | every insert of FIRs, evidence, charge sheets, rosters | concurrent transactions, rollbacks, the 10000th number | numbers unique, ordered, without gaps | `Numbering`, `SerialNumbers` |
| Case files (`CaseFacade`, `CaseManager`, triggers on `Cases` and `Case_Officers`) | rows of cases, status log, assignments, a static counter of FIR numbers | register (two ways), close, read, assign, relieve, restart | other programs and clients of the database | triggers that look at what is committed; a counter that restarts; lost replies; closing twice | closed by a senior; a run keeps clear of its own numbers; the limit of cases holds | `CaseFiles` |
| Officers, duties, routes, ranks, deployments (`subsystem1`) | rows of the personnel tables | 21 statements | assignment trigger | statements that do not fit the tables; duties that change at midnight | a call changes whom the trigger admits | `Personnel`, in `CaseFiles` |
| Exhibits: evidence files, charge sheets (`subsystem2`, `MmapHandler`) | one handler for all threads, objects in memory, their rows | log evidence, draft, add law, submit, restart | database | plain fields used by several threads; memory changed before the database refuses | what is logged is mapped; memory = rows | `Exhibits` |
| Parties of a case: victims, witnesses, accused, vehicles (`CaseFacade`) | rows | six writes, four lists | database | a statement that writes a column of another one | the constraints of the tables hold | `Parties` |
| Forensic requests and evidence (`subsystem3/forensic`), duty cache | request, evidence and link rows, mutex, cached duty | create, link, receive, start, report, contest, amend, three queries | `DbLocks`, triggers on evidence | status read in one statement and written in another; three writes for one report; programs that die half-way | status moves along edges; evidence follows the report | `Forensics` |
| Audit trail (`subsystem3/audit`) and the life of `SystemManager` | connection, session at its end, conninfo | init, inject, query, shutdown | database server | lost connections, one attempt to reconnect, a session that is made read-only by a statement of its own | statements in read-only sessions only | `AuditTrail` |
| Login, tokens, session clock (`shr_infra/auth`), command line (`interface`) | session map, clock, context of the CLI, session of each connection | login, validate, refresh, logout, commands, disconnect | workers, database | expiry between two steps; several sessions of one officer; connections that break | whoever is shown as logged in is stored; no session without an owner; ranks never read too high | `Sessions` |
| Agent reports (`os_layer/ipc` FIFO, shared memory, manager) | FIFOs, status table | read, write, lock | agents, supervisor | non-blocking ends that never meet, a robust mutex | status delivered | not modelled, section 8 |
| Timer, daemon, job executor (`os_layer/scheduler`) | job table, ticks | register, fire, execute | supervisor, database | ticks merge, table full | jobs run once per period | `Supervisor`, partly: section 8 |
| Facades (`system.cpp`) | none | forward, check the session, format | all of the above | | | with the component they act on |
| AI agents, `mlock`, common, dashboard pages, data generator, build | see `PROJECT.json` | | | no protocol of their own | | not modelled, section 8 |

The parts meet as follows. `ThreadPool` decides which connection a worker gets; `Connections` is what the worker does with it,
with login, validation and query as single steps; `DbLocks` opens those steps and shows what happens inside them. `Gateway` has
one step for "a handler serves a request"; `Requests` opens that. `Numbering` is what an INSERT of any of these does inside the
database. `Sessions` is login as the store and the clock see it, where `DbLocks` has the locks. `Forensics` takes over what `DbLocks`
shows, that a program makes one successful forensic call in its life, and follows that call through its statements. `CaseFiles`
contains `Personnel` (EXTENDS), because the trigger on assignments reads the rows that subsystem 1 would write.
The modules are separate because the code shares no state across these seams except through the operations named.

## 2. Plan

Order: what carries most of the system first. Done: 1 `ThreadPool` (+ abstract `TaskQueue`), 2 `DbLocks`, 3 `Supervisor`
(+ abstract `Agents`), 4 `Enforcement`, 5 `Gateway`, 6 `Numbering` (+ abstract `SerialNumbers`), 7 `Connections` (+ abstract `Gate`),
8 `Requests` (+ `RequestText`, abstract `RequestReply`), 9 `CaseFiles` (+ `Personnel`), 10 `Forensics`, 11 `Exhibits`, `Parties` and
`AuditTrail`, 12 `Sessions`; each with proofs of all its safety properties. What is left:

1. **AgentReports**: one non-blocking read right after the spawn, FIFOs unlinked and created again by every job, agents that open
   for writing without waiting. Abstract specification: a mailbox per agent.
2. **Ticks**: `Supervisor` extended by the periods of the jobs.
3. A composition of `ThreadPool` and `Connections` (a worker's `Finish` is the end of its connection), with `Connections` as a
   refinement of the pool's clients; two overlapping `Gateway` processes on one socket path (`domain_socket.cpp:203`).
4. An abstract lock-order specification that `DbLocks` without forensic calls implements.

## 3. Modules and the code

**TaskQueue, ThreadPool.** `TaskQueue` is the promise: a bounded FIFO queue that accepts until it is closed and is emptied before
it ends. `ThreadPool` has the ring buffer (`task_queue`, `queue_head`, `queue_tail`, `task_count`), the flags, and per slot a
thread that is running, waiting, busy or gone. A critical section of `queue_mutex` is one action, as nothing it touches is
touched elsewhere; `pthread_cond_wait` is `Wait`, a wake-up only makes the thread compete again, and spurious ones happen.
`SetShutdownFlag` and `Broadcast` are two actions, because the code broadcasts after unlocking. `init` clamps its argument, creates
threads one by one and, where `pthread_create` fails, decrements the count that also bounds the loop: `CreateWorkerFails` does
just that, and `JoinHole` is the join of a slot that never held a thread, after which the model says nothing ("crashed").

**Connections.** Per connection the place of its worker (`worker.cpp`): reading, welcome, gate, execute, send, cleanup, close,
catch. `registry` is `SessionManager`'s map, keyed by a thread id the submitter chooses (`IdOf`); `slots` the semaphore. `Throw`
is an exception anywhere in the loop, `Catch` the handler at its end, which unregisters and closes whatever was done before.
`Login`, the validation in `Query`, `Logout` and the execution are single steps. SIGALRM and SIGCHLD do not interrupt
`sem_wait`: the handlers are installed with SA_RESTART. The code takes a slot for queries only; login, refresh and logout use
the database without one, although `DESIGN.md:150` and `ARCHITECTURE.md:98` speak of every worker. `Gate` is the promise of the
semaphore: two sets, who waits and who is inside, and never more than M inside. The code has no such sets, only a number; the
refinement reads them off the workers' places and shows that the number always tells the truth about them.

**DbLocks.** Three locks with their holders, and per thread the operation and the lock it wants next. `SessionStore` and
`DutyCache` call `executeQuery`, which takes `db_mutex`, under their own write lock; the forensic manager takes `db_mutex`
first and then validates the token and asks the duty cache. Acquiring a lock together with the work on the data it guards is one
action. A statement may fail (`missed` remembers for which token), sessions and cache entries age at any moment.

**Supervisor.** `main` is where the main loop is; the signal handlers only set flags, so each is an action that may come between
any two steps. `child` and `foreign` are the kernel's view of process ids, which are reused. `reapOne` is called after
`waitpid(-1)` has reaped the child, as the code does, and finds nobody. `reapAll` is `SendTerm`, `WaitPass`, `Timeout`
(SIGKILL to stragglers), `FinalWait`. Then `PoolShutDown` joins the workers and `Stopped` disconnects the database, and neither has
a time-out. What these two wait for belongs to other threads and is here two flags that change at any time: `handlers`, a worker
that is in the handler of a client (`HandlerStarts`, `HandlerReturns`: it leaves one client for the next in the queue), and `db_taken`,
which an SQL job of a tick needs too. Which jobs are due in a tick is left open. `Agents` is the promise: under each process id no
agent, one alive or one that has ended and waits to be collected; started while running only, and none left when stopped.

**Enforcement.** The rows are `custody`, `underWarrant`, `warrant`, `bail`, `bailOf`; `call` is the statement a session executes
next and what its checks found. Each operation is its checks, one action, and then each of its statements, one action each, since
all run in autocommit; `Fail` ends a call before any statement (refused, connection lost or process killed: the rows
are the same). `spoiled` collects arrests and warrants on which calls overlapped or failed, so that properties can say what a
well-behaved sequence of calls keeps. `recordArrest` and `updateCustodyStatus` have no rank gate; the other five operations do.
`UpdateWarrant` writes by id alone; the table's CHECK (`Contradicts`) refuses CANCELLED over EXECUTED and the reverse, but not either over
EXPIRED. The code names schemas `subsystem2` and `subsystem3` that `db/schema` does not create; the model reads them as the tables meant.

**Gateway.** Orchestrator code runs in contexts: 0 is `main()`, k > 0 the handler of the k-th signal, which never returns and
stands on whatever thread it interrupted. The kernel prefers the main thread for a signal unless it is blocked there
(`MayInterrupt`). A socket closed while a thread is in `accept()` on it keeps listening until that call returns, as on
Linux. Fields read from a deleted object are arbitrary. A nested `exit()` does not run the static destructor again.

**RequestText, Requests.** `RequestText` is the parser, on texts as sequences of tokens (punctuation, white space, quoted strings, bare
words): `parseObject` is flat, a nested object's value is read by `parsePrimitive` up to the first comma, brace or white space, and the
parameters are parsed a second time behind the first `"params"`. `Requests` is one connection: the client's side (any program: it may write
piecewise, send ahead of the answers, close anywhere), both socket buffers, and `clientHandler` with its loops over `recv` and `send`. Each
command is the set of statuses it may answer; what the database says is left open. The set is empty (`NoAnswer`) for a limit, offset or
index of digits alone that no `int` holds: `std::stoi` throws, nothing up to the start of the thread catches it, and `Terminates` ends the
daemon. Frames and answers have one size, and what they say is a constant: `TextOf[f]` the text of a frame, `Meant[f]` the request its
author had in mind, `Parsed[f]` what `fromJson` makes of the text. The end of `RequestText` writes requests the way the protocol describes
them, members in either order, with or without white space after colons and commas and inside braces; `Text` gives each of these texts and
`FromJson` is put to all of them. `RequestReply` is the promise to the client: whole requests, whole answers that fit, in order, and nobody
is hung up on but a client that has left, sent a frame that is out of range, or sent a request that has no answer (`GoDown`). The module is
about one connection: a daemon that is brought down by a request on another one is not in it, nor in `Gateway`, where requests end well.

**Numbering.** A client's INSERT is a transaction: UPDATE of the registry row, if none INSERT of it, the row itself with a number
of four digits, COMMIT. READ COMMITTED: a statement waits for whoever has written the row and continues with what was
committed. `Text` is `LPAD(n::TEXT, 4, '0')`, which cuts longer numbers off. `SerialNumbers` is the promise: a book per scope in
which the next number is entered and handed out in one step. Its step is the code's COMMIT.

**Personnel, CaseFiles.** `Personnel` has each statement of subsystem 1 as the columns it names and those it gives a number, next
to the columns of the tables and the enumerations among them; `Understood` is what PostgreSQL's analysis makes of it, `Effects`
what a call can come to. `CaseFiles` is the table of cases with its triggers. `registerCase` is two actions, `DrawNumber` (the
`static` counter) and `InsertCase`, since other threads run in between; the reply to a committed INSERT may be lost. An
assigning transaction has any number of rows, as the data generator's has, which inserts all its assignments before it commits once.
Each row is checked by the trigger (`CheckAssignment`), which counts the committed rows and the transaction's own, then inserted behind
the primary key, for which it may have to wait (`InsertAssignment`), and visible to others from the commit (`CommitAssignments`).
`fit` are the officers the trigger would let through now: on duty today, and active. `DutiesChange` is midnight, or another client that writes
`Duty_Roster` or `Officers`, at any time. `maker` and
`runs` tell which run of which program drew a number, `reclosed` which cases were closed when they were closed. `CallPersonnel`
changes `fit` where a statement of this program succeeds, which none of those that write does.

**Forensics.** A call goes from "duty" over "read" and "item" to its writes, "fields", "status", "deliver" or "link", each a
transaction; a program may die before each. `schema` says whether the tables are those of `db/schema` ("shipped") or such that
the statements fit ("expected"): with the first, `NothingMovesAsShipped` says what the program can do; the second shows the
logic of the manager, which would otherwise be out of reach. `overlapped` collects the requests that two calls were about at once.
The trigger `Returned` is part of the write that delivers the report.

**Exhibits.** `stage` is where a thread is in `logAndSecureEvidence`: before `map`, past the test of `is_mapped`, past `open`, or
about to insert. `fd` is the handler's field, which `mmap` uses whoever set it; `raced` remembers that two threads were in `map`
at once. A charge sheet is an object of the thread that drafted it; `SubmitToMagistrate` locks it, `UpdateSheet` sends the UPDATE,
and `Accepts` is what the table's constraints say to the columns the UPDATE sets.

**Parties.** One statement for each operation, with the columns that identify rows and officers. `UpdateWitnessProtection` writes its
caller into `recorded_by`, as the code does (finding 11).

**AuditTrail.** `conn` is `conn_`, null or what `PQstatus` says of it, `backend` the session at its other end; the server may go at any
time, and only the next statement finds out. A call goes from step to step, and the server may go between any two: `Connect` opens a
session, which begins as one that may write; `SetReadOnly` is the statement that changes this, and may be refused or lost, whereupon the
connection is given up (`AfterRefusedSet`); `RunStatement` is the query, `WireFacades` the rest of `init()`. A query whose connection is
lost begins with `Connect`, once; one that finds no connection is refused. The five queries are the columns and schemas they name.

**Sessions.** `store` is `session_map`, each access to it one action (it is behind a lock); a login is query, insertion and, at the
command line, the validation of the token just given, between which the clock may run. `held` is the CLI's context and each
worker's session. `Refresh` changes nothing that expires: its assignment is commented out, like the idle check.
`Position` and `Ordinal` are the two scales of ranks.

## 4. Runs

| Run | Instance | Properties | Shows |
|---|---|---|---|
| `pool` | 3 worker slots, 2 queue slots, 3 tasks, init with 0, 1, 3 or 4 | `ImplementsTaskQueue`, `ShutdownCompletes`, `AcceptedIsServed` | `ThreadPool` implements the bounded FIFO `TaskQueue`; if clients hang up, shutdown returns and every accepted task is served |
| `connections` | 3 connections, two with one id, 1 slot | `OneLateQuery`, `EveryoneGetsIn`, `ImplementsGate` | a session outlives its expiry by one query at most; everyone gets in if clients read, so no slot is lost on any way out; none is given back twice, so nobody is inside without one |
| `locks` | 3 threads, 1 token, forensic calls | `DeadlocksNeedLockDb`, `SessionsAgree`, `EveryCallReturns` | every deadlock involves a thread that keeps `db_mutex` through `lockDb`; map and table agree but for refused statements; every call returns while the forensic manager is not used |
| `supervisor` | 3 pids, 2 jobs | `NoZombieForgotten`, `DrainReapsAgents`, `DrainCompletes`, `ImplementsAgents` | dead children always have a signal or flag pending; after SIGTERM every agent is gone if `db_mutex` is given back, and the loop ends if clients hang up too; agents are started only while running, collected once, and none is left at the end |
| `enforcement_safety` | 3 sessions (a constable, two inspectors), 1 arrest, 1 warrant, 2 bails | `BailsAgreeWithCustody`, `FinalStatesAreKept` | bails agree with custody and final states stay, over calls that do not overlap or fail |
| `gateway` | 2 connections, 2 signals, backlog 1, 1 accept error | `FreedAfterAcceptLoop`, `EveryConnectionAccepted`, `NextClientReleasesStop` | the gateway is freed after its accept loop (one signal); nobody waits behind a silent client; a next client releases `stop()` |
| `requests` | 2 requests out of 9 texts, two with a number no `int` holds, frames of 2 + 2 units, buffers of 3; the parser: 4 ids, 13 commands, up to 2 parameters with 4 values each | `ReadByTheCode`, `EveryRequestAnswered`, `ImplementsRequestReply` | which texts the parser understands, and that each answer bears the id of its request; patient clients get every answer, up to a frame out of range or a number that brings the daemon down; the stream is a conversation of whole requests and answers |
| `numbering` | 3 clients, 1 scope, numbers up to 10 | `NumbersInOrder`, `EveryInsertEnds`, `ImplementsSerialNumbers` | numbers in order of commit, without a gap; every insert ends; to its clients the registry is a book |
| `casework` | 2 threads of a program that restarts once, 2 clerks, 2 officers, 2 cases, limit 1 | `ClosersAreSenior`, `RefusedForAnothersCase`, `OfficersWithinLimit`, `FitnessIsOthersDoing` | closed once, a case was closed by a senior; a run of a program never collides with its own numbers; cases of an officer are at most the limit times the transactions that run together; no call of the program changes who may be assigned |
| `records` | `Exhibits`: 2 threads, 2 files, 3 rows, 2 sheets, 1 restart; `Parties`: 2 persons, 2 officers, 1 vehicle, 3 rows; `AuditTrail` | `LoggedFilesAreSecured`, `OneFilePerRun`, `SheetsNeverReachCourt`, `StatementsAreReadOnly`, `BlindUntilShutdown` | what is logged is mapped unless two threads raced; one file per run; no submitted sheet leaves DRAFT; no audit query runs in a session that may write, whatever connection it meets; one reconnection that fails ends the trail |
| `forensics` | 2 programs, 2 requests, 2 items, both kinds of tables | `EvidenceFollowsReport`, `EdgesWhenAlone`, `NothingMovesAsShipped` | without overlapping calls a status moves along one edge at a time and evidence follows the report; with the tables as shipped nothing moves |
| `sessions` | the CLI, 2 connections, 4 officers, 3 tokens, lifetime 2, clock to 3 | `HeldIsStored`, `ValidHasAnOwner`, `RankCheckNeverLenient` | whoever is shown as logged in is stored; every valid session has an owner or lost its connection; no rank passes for a higher one |

Each property of a run has a mutant of the code, in `PROJECT.json`, that TLC finds to violate it; the mutated forms stand next to
the definitions, as `<Definition>_<What changed>`.

`records` puts three components that share no variable side by side: the first state chooses one of them, and the other two
stay as they are, so that the state space is the sum, not the product, of the three. `casework` does the same with two halves of one module: a
behaviour is about numbers, and the clerks do nothing, or about officers, and cases are opened by `registerFIR` alone; of numbers and
assignments each reads of the other only which cases there are and whether they are closed.

Properties that are proved (section 6) and not part of a run any more: `DeliveredInOrder`, `DrainedBeforeExit` and the wake-up and broadcast
properties of `ThreadPool`; `SlotsAccounted` and `RegistryFollows` of `Connections`; `NoDeadlock` of `DbLocks`; `StoppedMeansNoAgents` of
`Supervisor`; the single stopper and the socket file of `Gateway`; `AnswersFit` and `HangsUpOnlyWhen` of `Requests`; `AnswersAreFiled` and
`FullScopeStaysFull` of `Numbering`; and the type invariants of all modules. To have TLC check one of them, add it to the configuration of
its module.

Four statements of the documentation stay in the modules as definitions with a comment, and are checked by no run, since they do
not hold: `NobodyKeepsTheMutex` (`DbLocks`), `OnlyAgentsAreSignalled` (`Supervisor`), `TerminalCustody` (`Enforcement`), `StopReturns`
(`Gateway`). The properties checked in their place say what holds instead. To see a counterexample of the first, the second or the
fourth, put it into the configuration of its module's run (without its other properties); for the third use two sessions and
`MinimumRank = 4`.

**Bounds.** They are the constants above and the guards that use them: `MaxSignals`, `MaxErrors` (`Gateway`), `MaxFrames` (`Requests`),
`KeyLists` and `Texts` (`RequestText`), `MaxSeq`, `MaxRuns` (`CaseFiles`), `MaxRows`, `MaxSheets`, `MaxRestarts` (`Exhibits`), `MaxParties`
(`Parties`), `MaxTime`, `MaxTokens` (`Sessions`), the finite sets of ids in `Enforcement`, `Forensics` and of tasks in `ThreadPool`.
`Connections`, `DbLocks`, `Supervisor`, `Numbering` and `AuditTrail` are finite without any. Three tasks wrap a ring of two; three workers
allow a sleeper, a waker and a busy one. Two waiters for one slot besides its holder show a lost slot; in the code M = N = 50, where the
gate never blocks, so the run uses the case in which it does. A reader, a writer and a holder of the mutex take three threads. Two signals
are needed for a second context inside the first; a third adds nothing the second does not. One failing `accept` stands for errors that
pass: one that lasts, such as EMFILE, would keep everybody waiting and is left out of `EveryConnectionAccepted`. A frame larger than the
buffer makes both sides block mid-frame, and two frames in a row show a shift. A `Limit` of 10 for 10000 keeps what matters: the cut-off
number is one that exists. Two clerks and a limit of 1, over two cases and two roles, let two transactions each fill the limit (the bound of
2 is reached); one restart makes a number meet that of an earlier run, which for the database is another program; two threads are what a
race in `map` takes, and a third row shows a file beyond those two. Two programs at one request overlap; two requests share an item. Four
officers have the ranks that login reads, and one it does not; two sessions of one officer and one of another take three tokens, and a
lifetime of two steps lets a session end at each point of a login. The proofs remove these bounds for what they state.

**Deadlock** is not checked where the system may come to rest: all tasks done, process ended, client silent, main loop over,
mutex leaked. The configurations say so. Symmetry (clerks, threads, programs, connections, officers and bails that are alike) is used
in runs that check invariants and action properties only. In `enforcement_safety` `MinimumRank` is 1: with the code's 4, which
`validateRank` compares with positions 0 to 3, no gated operation is reachable (`RankCheckNeverLenient`) and the run would show nothing.

## 5. Fairness

* `ThreadPool`: weak fairness of each worker's own steps and of the supervisor thread (the operating system schedules threads).
  Not assumed: that clients hang up or anyone submits; `ShutdownCompletes` and `AcceptedIsServed` state it as a premise.
* `Connections`: weak fairness per worker, and of "somebody enters the gate" (`sem_post` wakes one waiter, not a particular
  one). Premise of `EveryoneGetsIn`: clients read, and queries stop coming.
* `DbLocks`: weak fairness per thread. `EveryCallReturns` assumes no forensic call and no new calls.
* `Supervisor`: the main loop where it can go on, delivery of SIGCHLD, the passing of ten seconds, and that SIGKILL kills. Agents may ignore SIGTERM.
  Not assumed, as nothing in the code ensures it: that `ThreadPool::shutdown` and `disconnectDatabase` return. The first joins workers that may be
  reading from a silent client, the second takes `db_mutex`, which may be kept (finding 1), and so does an SQL job of a tick. Both are premises:
  `DrainReapsAgents` has `<>[]~db_taken`, `DrainCompletes` also that the handlers return for good.
* `Gateway`: weak fairness of every thread. Clients, the operator and signals owe nothing.
* `Requests`: the handler's thread, a client that finishes what it has begun to write and reads what comes; it may close instead.
* `Numbering`: strong fairness per client, as PostgreSQL queues waiters for a row in the order in which they came.
* The other modules state no fairness: their calls come from people who may stop calling, and what the code leaves undone (an
  expired session in the map, a sheet that is locked, a lost audit connection) it leaves undone for good, which invariants and action properties say.

## 6. Proofs

TLAPS checks all theorems in the `*Proofs` modules, for every value of the constants that satisfies the module's named
assumption (sizes are positive numbers, markers like `None` are not members of the sets). The argument is each time an inductive
invariant stronger than the properties, one lemma per action. Every invariant, action property and refinement that a run checks is
also a theorem:

* `ThreadPoolProofs`: `QueueInv` = `TypeOK`, `RingOK` (tail is head plus count modulo the capacity), `DeliveredInOrder`. Without
  `RingOK` a dequeue could read any slot. It carries the refinement: every step is a `TaskQueue` step or a stutter. `ShutdownInv`
  relates the flag, the program counter and exits; the wake-up theorem needs that submit signals whenever someone waits.
* `ConnectionsProofs`: `IInv` = `TypeOK`, `LoginsFirst`, `OneEach`, `Unlisted`, `RegistryFollows`, `LateOnce`, `Counted`.
  `Counted` states the slots with finiteness of `Inside`, as cardinality is only known for finite sets; connections may be infinitely many.
  `ImplementsGateCorrect` takes from it that whoever enters found fewer than M inside, and that leaving takes out one who was in.
* `DbLocksProofs`: `LockInv` says which places hold which locks, from which a cycle of waits is traced back to a holder of
  `db_mutex`; `NoDeadlockCorrect` has the hypothesis that the forensic manager is not used. `SessionInv` covers the moments
  between the two writes of a session.
* `SupervisorProofs`: `SafeInv` (places against scheduler states) and `DrainInv`: every living or unreaped child has a record, or is the one
  about to be recorded, and during the drain is among `remaining`. `ImplementsAgentsCorrect` needs both: the first says that a fork
  happens only while the scheduler is RUNNING, the second that STOPPED finds every process id free; the waits, which reap several
  children or none, are steps that collect a set of them.
* `Subsystem3Proofs`, enforcement: `TypeInv` = `TypeOK`, `CallsOK`, `BailsOK`, `Serial` (calls on an unspoiled row do not overlap), then
  `WarrantsOK` and `ArrestsOK`: what a call checked still holds at its next statement.
* `Subsystem3Proofs`, forensics: `ForensicsInv` adds to the types and `EvidenceFollowsReport`: `LabCalls` (which places go with which
  operations), `OneAtATime` (a request that is not in `overlapped` has one call at most), `Undisturbed` (what that call has read is still
  so), `Reported` and `NobodyOnDuty` (with the shipped tables no call gets past the duty cache).
* `GatewayProofs`: `IInv` = `TypeOK`, `OneStopper`, `MainAlone`, `Handlers`, `RunningNotStopped`, `PathOwned`, `Joined`; the last says who is
  past the join. `FreedAfterAcceptLoop` is for one signal; with two the model does reach the deletion under a running loop, and
  `domain_socket.h:25` forbids the call from handlers anyway.
* `ClientsProofs`, requests: `Framing`, the heart: units under way, in hand and still held by the client make a whole number of frames, one
  per unanswered request. `EndsOnlyWhen` says what has ended a connection. `RequestsAnswersFit`, `ReadByTheCodeCorrect`, `RequestsHangsUpOnlyWhen` and
  `ImplementsRequestReplyCorrect` have the hypothesis `Legible`: each frame's text
  is one that is understood, or no object at all. TLC checks it of the run's frames (`AuthorIsLegible` in `MCRequests`); a frame
  like the documented example does not satisfy it, and its answer is not one to what was meant (finding 5). For the way back,
  `Returning` counts the units of answers as `Framing` does those of requests, so that `read \div FrameSize` counts whole answers.
* `ClientsProofs`, parser: `PlainTextsAreUnderstood` and `OnlyCompactParametersAre`, for all ids, commands, names, numbers of parameters and values;
  but no parameter is called `request_id` or `command` or is given twice (`TextsAssumption`), and no command is called `params`.
  `JoinedUnfolds` and `MembersUnfolds` show that the two recursive functions do what their definitions say; `MemberOfBraces` says where in
  a text each member, separator and brace stands; `PairRead` what the parser makes of a member there; `RowRead` that members
  which stand in a row are the list it returns. A request with parameters is then the row of its members followed, when compact,
  by its parameters but the first, which the flat parser takes for members (`CompactFollows`), or one whose third member ends where a
  string stands instead of a comma (`SpacedEnd`). `LegibleIsReadWell` carries this to the answers, and to there being none.
* `ClientsProofs`, sessions: `SessionsInv` = `SessionTypes`, `TokensAreUnique` (over the store and the sessions about to be inserted, for
  any number of them), `Preparing` (what a user in the middle of a login has), `GuestsKeepNothing`, `HeldIsStored`, `ValidHasAnOwner`.
* `RecordsProofs`, numbering: `IInv` = `TypeOK`, `RowsLocked` (who may write the registry row), `Drawn`, `NumbersInOrder`,
  `AnswersAreFiled`; `LimitClashes` is the lemma that the first number too long is the text of an earlier one.
  `ImplementsSerialNumbersCorrect` rests on `NumbersInOrder` and `Drawn` at the commit: the number drawn is the length of the book plus one,
  and below the limit.
* `RecordsProofs`, exhibits: `EvidenceInv` counts: the logged pieces with a file are at most one per run and one for each thread that
  may still be in `map` (`Counted`), which takes finiteness of the threads; `SheetInv` relates each object to its row.
* `RecordsProofs`, case files: `FilesInv` = `FilesPart` (rows, log, numbers that differ), `NumbersPart` (calls under way and cases of one
  run have different numbers, none above the counter), `StaffPart` (the rows one transaction has in hand for an officer are within the
  limit, and with those of all others and the committed ones within the limit times the number of clerks: a check that admits found the
  committed rows and its own below the limit, and each other transaction has at most a limit of its own), `RefusedForAnothersCase`.
  `NextIdIsFree` rests on the well-foundedness of the natural numbers, which makes the CHOOSE of the next id one that exists.
* `RecordsProofs`, parties: the types, with the constraints of the tables. Audit trail: `AuditSteps` says what the connection is at each step; the
  heart is that a session that may write is met only where the next statement is the one that changes it.

The provers cannot instantiate the library's theorems of induction, which take a predicate as a parameter. What takes induction here rests
on `WFMin` (a nonempty set has a minimal element with regard to a well-founded relation), which takes a set instead: `LeastOne` and `UpTo`
in `ClientsProofs` are the two forms that are used, the least counterexample and "holds at 0, is inherited, holds up to n".

**Only model-checked:** the liveness properties, since liveness under fairness and ENABLED are out of the prover's reach:
`ShutdownCompletes`, `AcceptedIsServed`, `EveryoneGetsIn`, `EveryCallReturns`, `DrainReapsAgents`, `DrainCompletes`, `EveryConnectionAccepted`,
`NextClientReleasesStop`, `EveryRequestAnswered`, `EveryInsertEnds`.

## 7. What the checks found in the code

The statement that is quoted for each of these is in `PROJECT.json`, except for 8 and 11, which no property is about.

Locks, processes, sockets:
1. `forensic_manager.cpp:169`: a successful call returns with `db_mutex` locked and no caller unlocks it; every later statement of the process blocks.
2. `signal_handler.cpp:99`: children are reaped before the code that keeps the records looks; records stay RUNNING and nothing is restarted.
3. `process_manager.cpp:116`: consequently shutdown signals pids of agents long dead, whoever has them now.
4. `domain_socket.cpp:277`: `close()` does not wake `accept()`; leaving the CLI hangs until a dashboard connects.
5. `socket_request.cpp:136`: the request documented in `socket_request.h:123` (and the one in `api_gateway/README.md`) is answered "Malformed JSON request", and so is every request with a parameter and white space (`OnlyCompactParametersAre`).

Cases and officers:
6. `system.cpp:1325`: a closed case can be closed again, by any officer and without a session; the approver is overwritten and nothing is logged.
7. `03_functions.sql:519`: the limit of ten active cases counts committed rows and the transaction's own, without a lock; transactions that run together each fill it.
8. `CaseManager.cpp:55`: `fetchCase` throws for every case, in `std::stoll` of a NULL.
9. `subsystem1.cpp:370`: no statement of subsystem 1 that writes fits its table, and reads of officers throw.
10. `03_functions.sql:67`: the 10000th number of a scope is cut off to an existing one, and the scope is stuck.
11. `system.cpp:1492`: changing the protection of a witness overwrites who recorded the statement.

Evidence, charge sheets, laboratory:
12. `EvidenceManager.cpp:82`: the mapping is never released; after the first file, also one whose INSERT failed, every other is refused.
13. `mmap_handler.cpp:31`: the handler's fields are used by all threads without a lock; the wrong file may be mapped.
14. `InvestigationManager.cpp:65`: a charge sheet is locked in memory, and then the database refuses its submission each time.
15. `duty_cache.cpp:112`: every officer is off duty, so every forensic operation behind the check is refused.
16. `forensic_manager.cpp:207`: no request can be created or amended, as nothing sets `rank_ok`.
17. `forensic_repository.cpp:192`: the statements name columns the schema does not have.
18. `forensic_manager.cpp:453`: a status is overwritten without looking again, so two programs move it backwards; a report may stop half-way for ever.
19. `arrest_manager.cpp:372`: terminal custody states are overwritten by a call that checked earlier; `revokeBail` does it alone.

Sessions and audit:
20. `worker.cpp:505`: a connection that breaks leaves its session valid until the end of its lifetime, and in the map after it.
21. `session_store.cpp:153`: the idle timeout is commented out.
22. `auth_manager.cpp:190`: ranks are compared on two scales; nobody passes for INSPECTOR.
23. `session_store.cpp:137`: the count of active sessions includes expired ones.
24. `audit_manager.cpp:146`: after one reconnection that fails the audit subsystem answers DB_ERROR until the program ends.
25. `audit_query.cpp:50`: every audit query names columns that do not exist.

Requests:
26. `domain_socket.cpp:160` and `:595`: `std::stoi` throws on a limit, offset or index of too many digits, no one catches it, and the whole program ends.

`02_tables.sql:59` has a `;` for a `,` inside `CREATE TABLE Officers`, so the table is not created as the file stands; the models take it as meant.

## 8. Not modelled, and why

* **Shared status table, FIFOs**: the product never creates or attaches the table (`getStatusTable` is null), and the status FIFO's two
  ends do not meet in practice; left in the plan. `Requests` leaves open whether a table is there.
* **Timer, daemon, job executor**: `Supervisor` has the limit of the job table, the arming of the timer and the alarms that merge in one
  flag; jobs are due at any tick, so their periods, the double fork of the daemon and what a job executes are left out.
* **`log_change`** (the audit trigger): appends one row to each change, which no part of the program can read (finding 25).
* **AI agents, data generator, `mlock_guard`**: numerical or purely sequential code; agents appear as processes that exit.
* **Dashboard pages**: read-only pages without state. **Tables, help, history of the CLI**: layout.
* **The rest of `subsystem1/src` and `subsystem2`'s lists**: vectors in objects that nothing else reads.
* **`system.h`, `common`**: declarations and constants; they appear as CONSTANTS and sets of the modules.
* **Tests, build files, installation scripts, docs**: read as statements about the code.

Hazards noticed and not in the list of `PROJECT.json`, as no property of a run is about them: expired sessions are never removed from the
map; jobs beyond `MAX_JOBS` are dropped; `valid_until` is compared at midnight UTC; a case may close between `requestWarrant`'s check and
its INSERT; the officer who took a witness's statement is forgotten when the protection changes (finding 11); detached handler threads may
run during the static destructors; a reply lost after COMMIT invites filing twice; an old process waiting in `stop()` unlinks the socket of
the new one; a failed `pthread_create` leaves a hole that shutdown joins (`thread_pool.cpp:23`; it is in the model). The following are in
the models too, and their statements are proved or part of a stronger property: `session_manager.cpp:24` (two connections with one id),
`worker.cpp:460` (slots on the ways out), `session_store.cpp:28` (the INSERT of a session is refused), `signal_handler.cpp:84` (flags set
between two steps), `process_registry.cpp:13` (reused pids), `arrest_manager.cpp:298` (recordArrest without a rank gate),
`domain_socket.cpp:249`, `:269`, `:376` and `main.cpp:165` (stop and exit from several contexts), `03_functions.sql:67` (the 10000th
number).
