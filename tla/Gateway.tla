------------------------------- MODULE Gateway -------------------------------
(***************************************************************************)
(* The running program around the dashboard's socket: main() and the        *)
(* orchestrator, the accept thread of DomainSocket, one detached handler    *)
(* thread for each connection, the clients, and the handlers of SIGINT and  *)
(* SIGTERM, which shut the program down on whichever thread they interrupt. *)
(*                                                                         *)
(* What runs orchestrator code is a context: context 0 is the body of       *)
(* main(), context k > 0 the signal handler of the k-th signal delivered.   *)
(* A context stands still while a later one runs on its thread; the signal  *)
(* handlers never return, they end in exit().                               *)
(*                                                                         *)
(* The listening socket outlives close() for as long as a thread is blocked *)
(* in accept() on it, as it does on Linux.                                  *)
(***************************************************************************)
EXTENDS Naturals, Sequences, FiniteSets

CONSTANTS
    Clients,                \* connections, and the threads that handle them
    Signals,                \* the signals with a handler that shuts down
    Main, Acceptor,         \* the other two threads
    None,                   \* no thread, client or signal
    DOMAIN_SOCKET_BACKLOG,
    MaxSignals,             \* bound on the signals delivered
    MaxErrors               \* bound on the failures of accept()

ASSUME GatewayAssumption ==
    /\ DOMAIN_SOCKET_BACKLOG \in Nat
    /\ MaxSignals \in Nat /\ MaxErrors \in Nat
    /\ Main # Acceptor
    /\ {Main, Acceptor} \cap Clients = {}
    /\ None \notin Clients \cup {Main, Acceptor} \cup Signals

VARIABLES
    up,           \* the process exists
    pc,           \* where each context is
    on,           \* the thread it runs on
    sig,          \* the signal it handles
    exiting,      \* it is in the static destructors
    delivered,    \* number of signals delivered
    orch,         \* g_orchestrator is set
    initialized,  \* m_initialized
    gateway,      \* the object m_api_gateway owns
    running,      \* DomainSocket::running_
    fdOpen,       \* server_fd_ is open
    path,         \* the socket file
    acc,          \* where the accept thread is
    taken,        \* the connection accept() returned
    errors,       \* failures of accept() so far
    backlog,      \* connections not yet accepted
    conn          \* each client's connection

contexts == <<pc, on, sig, exiting, delivered>>
object   == <<orch, initialized, gateway>>
socket   == <<running, fdOpen, path>>
accept   == <<acc, taken, errors>>
clients  == <<backlog, conn>>
vars     == <<up, contexts, object, socket, accept, clients>>

Contexts == 0..MaxSignals
Threads  == {Main, Acceptor} \cup Clients

Startup  == {"boot", "bind", "flag", "spawn", "mark"}
Stopping == {"close", "join", "unlink"}
Steps    == Startup \cup Stopping \cup
            {"off", "cli", "shutdown", "stop", "free", "clear", "exit"}

\* A socket file may be left over from a run that crashed.
Init ==
    /\ up = TRUE
    /\ pc = [k \in Contexts |-> IF k = 0 THEN "boot" ELSE "off"]
    /\ on = [k \in Contexts |-> IF k = 0 THEN Main ELSE None]
    /\ sig = [k \in Contexts |-> None]
    /\ exiting = [k \in Contexts |-> FALSE]
    /\ delivered = 0
    /\ orch = TRUE /\ initialized = FALSE /\ gateway = "none"
    /\ running = FALSE /\ fdOpen = FALSE
    /\ path \in {"none", "stale"}
    /\ acc = "none" /\ taken = None /\ errors = 0
    /\ backlog = <<>>
    /\ conn = [c \in Clients |-> "away"]

-----------------------------------------------------------------------------
(* Contexts, signals and the listening socket *)

Interrupted(t) == \E k \in Contexts \ {0} : on[k] = t

\* Context k stands at step s and its thread is executing it.
At(k, s) ==
    /\ up
    /\ pc[k] = s
    /\ \A j \in Contexts : j > k => on[j] # on[k]

Goto(k, s) == pc' = [pc EXCEPT ![k] = s]

Handled == {"idle", "asked", "hungup"}

Alive(t) ==
    \/ t = Main
    \/ t = Acceptor /\ acc \notin {"none", "ended"}
    \/ t \in Clients /\ conn[t] \in Handled

Blocks(t, s) == \E k \in Contexts : on[k] = t /\ sig[k] = s

(* The kernel gives a signal to the main thread unless that thread is already *)
(* in the handler of the same signal; then any other thread may get it.       *)
MayInterrupt(t, s) ==
    /\ Alive(t)
    /\ ~Blocks(t, s)
    /\ t # Main => Blocks(Main, s)

\* accept() in progress keeps the socket listening after close().
InAccept  == acc = "blocked" /\ ~Interrupted(Acceptor)
Listening == fdOpen \/ InAccept

Waiting == {backlog[i] : i \in 1..Len(backlog)}

\* Those who wait in the backlog of a socket that vanishes are reset.
ResetBacklog ==
    /\ backlog' = <<>>
    /\ conn' = [c \in Clients |-> IF c \in Waiting THEN "away" ELSE conn[c]]

\* handle_sigint, handle_sigterm, up to the call of shutdown(). A thread taken
\* out of accept() lets go of a socket that was closed meanwhile.
Signal(t, s) ==
    /\ up
    /\ delivered < MaxSignals
    /\ MayInterrupt(t, s)
    /\ delivered' = delivered + 1
    /\ on' = [on EXCEPT ![delivered + 1] = t]
    /\ sig' = [sig EXCEPT ![delivered + 1] = s]
    /\ Goto(delivered + 1, IF orch THEN "shutdown" ELSE "exit")
    /\ IF t = Acceptor /\ InAccept /\ ~fdOpen THEN ResetBacklog ELSE UNCHANGED clients
    /\ UNCHANGED <<up, exiting, object, socket, accept>>

\* The process is gone, with every thread and connection; the file stays.
ProcessEnds ==
    /\ up' = FALSE
    /\ fdOpen' = FALSE
    /\ acc' = "ended"
    /\ backlog' = <<>>
    /\ conn' = [c \in Clients |-> "away"]

-----------------------------------------------------------------------------
(* main() and JusticeFlowOrchestrator::initialize *)

\* The SystemManager is up and the gateway object is made ...
Boot ==
    /\ At(0, "boot")
    /\ gateway' = "live"
    /\ Goto(0, "bind")
    /\ UNCHANGED <<up, on, sig, exiting, delivered, orch, initialized, socket, accept, clients>>

\* ... or validate() or the SystemManager fails, and main() returns 1.
BootFails ==
    /\ At(0, "boot")
    /\ Goto(0, "exit")
    /\ UNCHANGED <<up, on, sig, exiting, delivered, object, socket, accept, clients>>

\* DomainSocket::start: unlink, socket, bind, chmod, listen
Bind ==
    /\ At(0, "bind")
    /\ fdOpen' = TRUE
    /\ path' = "bound"
    /\ Goto(0, "flag")
    /\ UNCHANGED <<up, on, sig, exiting, delivered, object, running, accept, clients>>

\* One of them fails; whatever was made is undone.
BindFails ==
    /\ At(0, "bind")
    /\ path' = "none"
    /\ Goto(0, "exit")
    /\ UNCHANGED <<up, on, sig, exiting, delivered, object, running, fdOpen, accept, clients>>

SetRunning ==
    /\ At(0, "flag")
    /\ running' = TRUE
    /\ Goto(0, "spawn")
    /\ UNCHANGED <<up, on, sig, exiting, delivered, object, fdOpen, path, accept, clients>>

SpawnAcceptor ==
    /\ At(0, "spawn")
    /\ acc' = "head"
    /\ Goto(0, "mark")
    /\ UNCHANGED <<up, on, sig, exiting, delivered, object, socket, taken, errors, clients>>

SpawnAcceptorFails ==
    /\ At(0, "spawn")
    /\ running' = FALSE
    /\ fdOpen' = FALSE
    /\ path' = "none"
    /\ ResetBacklog
    /\ Goto(0, "exit")
    /\ UNCHANGED <<up, on, sig, exiting, delivered, object, accept>>

MarkInitialized ==
    /\ At(0, "mark")
    /\ initialized' = TRUE
    /\ Goto(0, "cli")
    /\ UNCHANGED <<up, on, sig, exiting, delivered, orch, gateway, socket, accept, clients>>

\* The operator leaves the CLI; g_orchestrator.reset() forgets the pointer
\* and then runs the destructor.
QuitCli ==
    /\ At(0, "cli")
    /\ orch' = FALSE
    /\ Goto(0, "shutdown")
    /\ UNCHANGED <<up, on, sig, exiting, delivered, initialized, gateway, socket, accept, clients>>

-----------------------------------------------------------------------------
(* JusticeFlowOrchestrator::shutdown, by whichever context *)

Shutdown(k) ==
    /\ At(k, "shutdown")
    /\ Goto(k, CASE ~initialized -> "exit"
                 [] initialized /\ gateway = "live" -> "stop"
                 [] OTHER -> "clear")
    /\ UNCHANGED <<up, on, sig, exiting, delivered, object, socket, accept, clients>>

\* Mutated: running_ is read, and not exchanged.
BeginStop_Load(k) ==
    /\ At(k, "stop")
    /\ Goto(k, IF running THEN "close" ELSE "free")
    /\ UNCHANGED <<up, on, sig, exiting, delivered, object, socket, accept, clients>>

\* DomainSocket::stop: the one that clears running_ goes on, others return.
BeginStop(k) ==
    /\ At(k, "stop")
    /\ running' = FALSE
    /\ Goto(k, IF running THEN "close" ELSE "free")
    /\ UNCHANGED <<up, on, sig, exiting, delivered, object, fdOpen, path, accept, clients>>

\* server_fd_ read from a deleted object may be anything.
CloseListener(k) ==
    /\ At(k, "close")
    /\ fdOpen' \in IF gateway = "freed" THEN {FALSE, fdOpen} ELSE {FALSE}
    /\ IF fdOpen' \/ InAccept THEN UNCHANGED clients ELSE ResetBacklog
    /\ Goto(k, "join")
    /\ UNCHANGED <<up, on, sig, exiting, delivered, object, running, path, accept>>

\* Mutated: the thread is not joined.
Joinable_Always(k) == TRUE

\* A thread that joins itself gets EDEADLK, and there is none before its
\* creation (accept_thread_ is 0).
Joinable(k) == acc \in {"none", "ended"} \/ on[k] = Acceptor

Join(k) ==
    /\ At(k, "join")
    /\ Joinable(k)
    /\ Goto(k, "unlink")
    /\ UNCHANGED <<up, on, sig, exiting, delivered, object, socket, accept, clients>>

Unlink(k) ==
    /\ At(k, "unlink")
    /\ path' = "none"
    /\ Goto(k, "free")
    /\ UNCHANGED <<up, on, sig, exiting, delivered, object, running, fdOpen, accept, clients>>

\* m_api_gateway.reset(); its destructor's own stop() finds running_ cleared.
Free(k) ==
    /\ At(k, "free")
    /\ gateway' = "freed"
    /\ Goto(k, IF exiting[k] THEN "exit" ELSE "clear")
    /\ UNCHANGED <<up, on, sig, exiting, delivered, orch, initialized, socket, accept, clients>>

\* SystemManager::shutdown, m_initialized = false
FinishShutdown(k) ==
    /\ At(k, "clear")
    /\ initialized' = FALSE
    /\ Goto(k, "exit")
    /\ UNCHANGED <<up, on, sig, exiting, delivered, orch, gateway, socket, accept, clients>>

(* exit(): if g_orchestrator still owns an orchestrator with a gateway, its  *)
(* destructor stops and frees the gateway, unless another exit() has begun   *)
(* to; then the process is gone.                                             *)
Exit(k) ==
    /\ At(k, "exit")
    /\ IF orch /\ gateway = "live" /\ \A j \in Contexts : ~exiting[j]
       THEN /\ exiting' = [exiting EXCEPT ![k] = TRUE]
            /\ Goto(k, "stop")
            /\ UNCHANGED <<up, fdOpen, acc, clients>>
       ELSE /\ ProcessEnds
            /\ UNCHANGED <<pc, exiting>>
    /\ UNCHANGED <<on, sig, delivered, object, running, path, taken, errors>>

-----------------------------------------------------------------------------
(* DomainSocket::acceptLoop *)

AcceptorAt(s) == up /\ acc = s /\ ~Interrupted(Acceptor)

\* running_ as the accept thread reads it, anything once the object is deleted
Running == IF gateway = "freed" THEN BOOLEAN ELSE {running}

AfterFailure == {IF r THEN "head" ELSE "ended" : r \in Running}

LoopHead ==
    /\ AcceptorAt("head")
    /\ \E r \in Running : acc' = IF r THEN "accept" ELSE "ended"
    /\ UNCHANGED <<up, contexts, object, socket, taken, errors, clients>>

\* accept() on a descriptor that was closed before fails.
EnterAccept ==
    /\ AcceptorAt("accept")
    /\ IF fdOpen THEN acc' = "blocked" ELSE acc' \in AfterFailure
    /\ UNCHANGED <<up, contexts, object, socket, taken, errors, clients>>

\* The connection that has waited longest. If the descriptor was closed
\* meanwhile the socket vanishes with this call.
Accept ==
    /\ AcceptorAt("blocked")
    /\ backlog # <<>>
    /\ taken' = Head(backlog)
    /\ acc' = "took"
    /\ backlog' = IF fdOpen THEN Tail(backlog) ELSE <<>>
    /\ conn' = [c \in Clients |->
                  IF c = Head(backlog) THEN "taken"
                  ELSE IF c \in Waiting /\ ~fdOpen THEN "away" ELSE conn[c]]
    /\ UNCHANGED <<up, contexts, object, socket, errors>>

\* EINTR, no more descriptors, a connection aborted
AcceptFails ==
    /\ AcceptorAt("blocked")
    /\ errors < MaxErrors
    /\ errors' = errors + 1
    /\ acc' \in AfterFailure
    /\ IF fdOpen THEN UNCHANGED clients ELSE ResetBacklog
    /\ UNCHANGED <<up, contexts, object, socket, taken>>

\* Mutated: the accept thread serves a connection itself.
SpawnHandler_Inline ==
    /\ AcceptorAt("took")
    /\ \A c \in Clients : conn[c] \notin Handled
    /\ conn' = [conn EXCEPT ![taken] = "idle"]
    /\ acc' = "head" /\ taken' = None
    /\ UNCHANGED <<up, contexts, object, socket, errors, backlog>>

\* A detached thread gets the connection, or pthread_create fails and it is
\* closed.
SpawnHandler ==
    /\ AcceptorAt("took")
    /\ \E s \in {"idle", "away"} : conn' = [conn EXCEPT ![taken] = s]
    /\ acc' = "head" /\ taken' = None
    /\ UNCHANGED <<up, contexts, object, socket, errors, backlog>>

-----------------------------------------------------------------------------
(* DomainSocket::clientHandler, in the thread of the connection *)

HandlerAt(c, s) == up /\ conn[c] = s /\ ~Interrupted(c)

SetConn(c, s) ==
    /\ conn' = [conn EXCEPT ![c] = s]
    /\ UNCHANGED <<up, contexts, object, socket, accept, backlog>>

\* recvFrame, dispatch and sendFrame; malformed JSON is answered too
Serve(c) == HandlerAt(c, "asked") /\ SetConn(c, "idle")

\* A frame whose length is out of range, or an answer that cannot be sent
ServeFails(c) == HandlerAt(c, "asked") /\ SetConn(c, "away")

EndOfFile(c) == HandlerAt(c, "hungup") /\ SetConn(c, "away")

(* The dashboard *)

Connect(c) ==
    /\ up /\ path = "bound" /\ Listening
    /\ conn[c] = "away"
    /\ Len(backlog) <= DOMAIN_SOCKET_BACKLOG
    /\ backlog' = Append(backlog, c)
    /\ conn' = [conn EXCEPT ![c] = "queued"]
    /\ UNCHANGED <<up, contexts, object, socket, accept>>

Ask(c)    == up /\ conn[c] = "idle" /\ SetConn(c, "asked")
HangUp(c) == up /\ conn[c] \in {"idle", "asked"} /\ SetConn(c, "hungup")

-----------------------------------------------------------------------------
MainStep ==
    \/ Boot \/ BootFails \/ Bind \/ BindFails \/ SetRunning
    \/ SpawnAcceptor \/ SpawnAcceptorFails \/ MarkInitialized

ContextStep(k) ==
    \/ Shutdown(k) \/ BeginStop(k) \/ CloseListener(k) \/ Join(k)
    \/ Unlink(k) \/ Free(k) \/ FinishShutdown(k) \/ Exit(k)

AcceptorStep ==
    \/ LoopHead \/ EnterAccept \/ Accept \/ AcceptFails
    \/ SpawnHandler

HandlerStep(c) == Serve(c) \/ ServeFails(c) \/ EndOfFile(c)

ClientStep(c) == Connect(c) \/ Ask(c) \/ HangUp(c)

Next ==
    \/ MainStep \/ QuitCli
    \/ \E k \in Contexts : ContextStep(k)
    \/ \E t \in Threads, s \in Signals : Signal(t, s)
    \/ AcceptorStep
    \/ \E c \in Clients : HandlerStep(c) \/ ClientStep(c)

Spec == Init /\ [][Next]_vars

(* Threads are scheduled. Nothing obliges a client to connect, to ask or to  *)
(* hang up, the operator to leave the CLI, or a signal to come.              *)
Fairness ==
    /\ WF_vars(MainStep)
    /\ \A k \in Contexts : WF_vars(ContextStep(k))
    /\ WF_vars(AcceptorStep)
    /\ \A c \in Clients : WF_vars(HandlerStep(c))

FairSpec == Spec /\ Fairness

-----------------------------------------------------------------------------
TypeOK ==
    /\ up \in BOOLEAN
    /\ pc \in [Contexts -> Steps]
    /\ on \in [Contexts -> Threads \cup {None}]
    /\ sig \in [Contexts -> Signals \cup {None}]
    /\ exiting \in [Contexts -> BOOLEAN]
    /\ delivered \in Contexts
    /\ orch \in BOOLEAN /\ initialized \in BOOLEAN
    /\ gateway \in {"none", "live", "freed"}
    /\ running \in BOOLEAN /\ fdOpen \in BOOLEAN
    /\ path \in {"none", "stale", "bound"}
    /\ acc \in {"none", "head", "accept", "blocked", "took", "ended"}
    /\ taken \in Clients \cup {None}
    /\ acc = "took" => taken \in Clients
    /\ errors \in 0..MaxErrors
    /\ backlog \in Seq(Clients)
    /\ Len(backlog) <= DOMAIN_SOCKET_BACKLOG + 1
    /\ conn \in [Clients -> {"away", "queued", "taken"} \cup Handled]

\* stop() and the destructor both run from signal handlers on any thread; of
\* all the contexts inside stop() at most one gets past the exchange of
\* running_, so that nothing is closed, joined or unlinked twice.
OneStopper ==
    \A j, k \in Contexts :
        pc[j] \in Stopping /\ pc[k] \in Stopping => j = k

\* With a single signal, however it falls into startup, the CLI or shutdown,
\* the gateway object is deleted only when the accept thread, which uses it
\* in every turn of its loop, has ended or never ran.
FreedAfterAcceptLoop ==
    up /\ delivered <= 1 /\ gateway = "freed" => acc \in {"none", "ended"}

\* The process leaves its socket file behind only if it is ended in the
\* middle of start(), or by a second context while a first is still on its
\* way through shutdown() and stop().
Abandoned == \E k \in Contexts : pc[k] \in {"flag", "shutdown", "stop"} \cup Stopping

OrderlyExitUnlinks == [][up /\ ~up' /\ ~Abandoned => path' # "bound"]_vars

\* A connection in the backlog gets a handler thread or is closed, whatever
\* the clients that came before it do: the thread that accepts never waits
\* for them (the comment in acceptLoop: "one slow client cannot block the
\* loop").
Pending(c) == conn[c] \in {"queued", "taken"}

EveryConnectionAccepted ==
    \A c \in Clients : Pending(c) ~> ~Pending(c)

\* A stop() that waits for the accept thread is released by one more client.
NextClientReleasesStop ==
    \A k \in Contexts :
        (up /\ pc[k] = "join" /\ backlog # <<>>) ~> (~up \/ pc[k] # "join")

\* "Closing server_fd_ causes accept() in the accept thread to return with
\* EBADF / EINVAL, allowing the thread to notice running_ == false and exit
\* cleanly": stop() does not wait for ever.  It does, when no client comes any
\* more; what holds is NextClientReleasesStop.
StopReturns ==
    \A k \in Contexts : (up /\ pc[k] = "join") ~> (~up \/ pc[k] # "join")
=============================================================================
