------------------------------ MODULE GatewayProofs ------------------------------
(***************************************************************************)
(* Proofs about Gateway for any number of clients and of signals.          *)
(***************************************************************************)
EXTENDS Gateway, SequenceTheorems, TLAPS

(* As long as no signal was delivered context 0 is alone: what its place says *)
(* of the pointers, of running_ and of the accept thread.                     *)
MainAlone ==
    up /\ delivered = 0 =>
        /\ \A j \in Contexts : pc[0] \in Startup \cup {"cli"} => ~exiting[j]
        /\ pc[0] \in Startup \cup {"cli"} => orch
        /\ pc[0] \in (Startup \ {"boot"}) \cup {"cli", "shutdown"} => gateway = "live"
        /\ pc[0] \in {"boot", "bind", "flag", "spawn"} => acc = "none"
        /\ pc[0] \in {"boot", "bind", "flag"} => ~running
        /\ pc[0] \in {"spawn", "mark"} => running
        /\ pc[0] \in {"cli", "shutdown"} => initialized
        /\ orch => pc[0] \notin Stopping \cup {"shutdown"}
        /\ orch /\ pc[0] \in {"stop", "free", "clear", "exit"} => ~running /\ acc = "none"

(* Signal handlers: the first runs on the main thread, over context 0, and    *)
(* finds g_orchestrator null only if context 0 was past the CLI.              *)
Handlers ==
    /\ on[0] = Main /\ sig[0] = None
    /\ delivered >= 1 => on[1] = Main
    /\ \A k \in Contexts \ {0} : pc[k] \notin Startup \cup {"cli"}
    /\ pc[0] # "off"
    /\ \A k \in Contexts : k > delivered => pc[k] = "off" /\ on[k] = None /\ ~exiting[k]
    /\ delivered = 1 /\ ~orch => pc[1] = "exit"

(* running_ is set only before anyone has got into stop().                    *)
RunningNotStopped ==
    running =>
        /\ gateway = "live"
        /\ \A k \in Contexts : pc[k] \notin Stopping \cup {"free", "clear"}
        /\ \A k \in Contexts : exiting[k] => pc[k] = "stop"
        /\ ~orch => pc[0] \in {"shutdown", "stop"}

(* A bound socket file has someone who will unlink it.                        *)
PathOwned ==
    path = "bound" =>
       running \/ \E k \in Contexts : pc[k] \in Stopping \cup {"flag"}

(* With at most one signal the last context delivered is the one that runs,   *)
(* and stop() has joined the accept thread wherever running_ is clear.        *)
Joined ==
    up /\ delivered <= 1 =>
        /\ gateway = "freed" => acc \in {"none", "ended"}
        /\ pc[delivered] \in {"unlink", "free"} => acc \in {"none", "ended"}
        /\ (delivered = 0 \/ orch) /\ ~running /\ acc \notin {"none", "ended"} => pc[delivered] \in {"close", "join"}

IInv == TypeOK /\ OneStopper /\ MainAlone /\ Handlers /\ RunningNotStopped /\ PathOwned /\ Joined

-----------------------------------------------------------------------------
(* Contexts *)

LEMMA ContextFacts ==
    /\ 0 \in Contexts
    /\ Contexts \subseteq Nat
    /\ \A n \in Contexts : n < MaxSignals => n + 1 \in Contexts
    /\ \A n \in Contexts : n >= 1 => 1 \in Contexts
BY GatewayAssumption DEF Contexts

(* With at most one signal delivered, the context that runs orchestrator code *)
(* is the last one.                                                           *)
LEMMA Current ==
    ASSUME TypeOK, Handlers, NEW k \in Contexts, NEW s, s # "off", At(k, s), delivered <= 1
    PROVE  k = delivered
<1>1. k <= delivered
  BY ContextFacts DEF TypeOK, Handlers, At
<1>2. delivered = 1 => k # 0
  BY ContextFacts DEF TypeOK, Handlers, At
<1> QED BY <1>1, <1>2, ContextFacts DEF TypeOK

(* main()'s body moves only as long as no signal was delivered.               *)
LEMMA BodyAlone ==
    ASSUME TypeOK, Handlers, NEW s, At(0, s)
    PROVE  delivered = 0 /\ \A k \in Contexts \ {0} : pc[k] = "off" /\ ~exiting[k]
BY ContextFacts DEF TypeOK, Handlers, At

-----------------------------------------------------------------------------
(* Types *)

LEMMA InitTypeOK == Init => TypeOK
<1> SUFFICES ASSUME Init PROVE TypeOK
  OBVIOUS
<1>1. delivered \in Contexts /\ errors \in 0..MaxErrors
  BY GatewayAssumption DEF Init, Contexts
<1>2. backlog \in Seq(Clients) /\ Len(backlog) <= DOMAIN_SOCKET_BACKLOG + 1
  BY GatewayAssumption, EmptySeq DEF Init
<1>3. pc \in [Contexts -> Steps] /\ on \in [Contexts -> Threads \cup {None}]
  BY DEF Init, Steps, Threads, Startup
<1>4. sig \in [Contexts -> Signals \cup {None}] /\ exiting \in [Contexts -> BOOLEAN]
  BY DEF Init
<1> QED BY <1>1, <1>2, <1>3, <1>4 DEF Init, TypeOK

(* What can become of the backlog and of the connections.                     *)
BacklogOK == backlog \in Seq(Clients) /\ Len(backlog) <= DOMAIN_SOCKET_BACKLOG + 1
ConnOK    == conn \in [Clients -> {"away", "queued", "taken"} \cup Handled]

LEMMA ResetOK == ASSUME TypeOK, ResetBacklog PROVE BacklogOK' /\ ConnOK'
BY GatewayAssumption, EmptySeq DEF ResetBacklog, BacklogOK, ConnOK, TypeOK

LEMMA StepTypeOK == ASSUME TypeOK, Handlers, [Next]_vars PROVE TypeOK'
<1> USE GatewayAssumption, ContextFacts DEF Goto
<1>1. ASSUME Boot PROVE TypeOK'
  BY <1>1 DEF Boot, TypeOK, Steps, Startup, Stopping, Threads, contexts, object, socket, accept, clients
<1>2. ASSUME BootFails PROVE TypeOK'
  BY <1>2 DEF BootFails, TypeOK, Steps, Startup, Stopping, Threads, contexts, object, socket, accept, clients
<1>3. ASSUME Bind PROVE TypeOK'
  BY <1>3 DEF Bind, TypeOK, Steps, Startup, Stopping, Threads, contexts, object, socket, accept, clients
<1>4. ASSUME BindFails PROVE TypeOK'
  BY <1>4 DEF BindFails, TypeOK, Steps, Startup, Stopping, Threads, contexts, object, socket, accept, clients
<1>5. ASSUME SetRunning PROVE TypeOK'
  BY <1>5 DEF SetRunning, TypeOK, Steps, Startup, Stopping, Threads, contexts, object, socket, accept, clients
<1>6. ASSUME SpawnAcceptor PROVE TypeOK'
  BY <1>6 DEF SpawnAcceptor, TypeOK, Steps, Startup, Stopping, Threads, contexts, object, socket, accept, clients
<1>7. ASSUME SpawnAcceptorFails PROVE TypeOK'
  <2>1. BacklogOK' /\ ConnOK'
    BY <1>7, ResetOK DEF SpawnAcceptorFails
  <2> QED BY <1>7, <2>1 DEF SpawnAcceptorFails, BacklogOK, ConnOK, TypeOK, Steps, Startup, Stopping, Threads, contexts, object, socket, accept, clients
<1>8. ASSUME MarkInitialized PROVE TypeOK'
  BY <1>8 DEF MarkInitialized, TypeOK, Steps, Startup, Stopping, Threads, contexts, object, socket, accept, clients
<1>9. ASSUME QuitCli PROVE TypeOK'
  BY <1>9 DEF QuitCli, TypeOK, Steps, Startup, Stopping, Threads, contexts, object, socket, accept, clients
<1>10. ASSUME NEW k \in Contexts, Shutdown(k) PROVE TypeOK'
  BY <1>10 DEF Shutdown, TypeOK, Steps, Startup, Stopping, Threads, contexts, object, socket, accept, clients
<1>11. ASSUME NEW k \in Contexts, BeginStop(k) PROVE TypeOK'
  BY <1>11, ZenonT(30) DEF BeginStop, TypeOK, Steps, Startup, Stopping, Threads, contexts, object, socket, accept, clients
<1>12. ASSUME NEW k \in Contexts, CloseListener(k) PROVE TypeOK'
  <2>1. BacklogOK' /\ ConnOK'
    BY <1>12, ResetOK DEF CloseListener, clients, TypeOK, BacklogOK, ConnOK
  <2>2. fdOpen' \in BOOLEAN
    BY <1>12 DEF CloseListener, TypeOK
  <2>3. pc' \in [Contexts -> Steps]
    BY <1>12 DEF CloseListener, TypeOK, Steps, Stopping
  <2> QED BY <1>12, <2>1, <2>2, <2>3 DEF CloseListener, BacklogOK, ConnOK, TypeOK, object, accept
<1>13. ASSUME NEW k \in Contexts, Join(k) PROVE TypeOK'
  BY <1>13 DEF Join, Joinable, TypeOK, Steps, Startup, Stopping, Threads, contexts, object, socket, accept, clients
<1>14. ASSUME NEW k \in Contexts, Unlink(k) PROVE TypeOK'
  BY <1>14 DEF Unlink, TypeOK, Steps, Startup, Stopping, Threads, contexts, object, socket, accept, clients
<1>15. ASSUME NEW k \in Contexts, Free(k) PROVE TypeOK'
  BY <1>15 DEF Free, TypeOK, Steps, Startup, Stopping, Threads, contexts, object, socket, accept, clients
<1>16. ASSUME NEW k \in Contexts, FinishShutdown(k) PROVE TypeOK'
  BY <1>16 DEF FinishShutdown, TypeOK, Steps, Startup, Stopping, Threads, contexts, object, socket, accept, clients
<1>17. ASSUME NEW k \in Contexts, Exit(k) PROVE TypeOK'
  <2>1. ASSUME ProcessEnds PROVE BacklogOK' /\ ConnOK'
    BY <1>17, <2>1, EmptySeq DEF ProcessEnds, BacklogOK, ConnOK
  <2>2. ASSUME UNCHANGED clients PROVE BacklogOK' /\ ConnOK'
    BY <2>2 DEF clients, TypeOK, BacklogOK, ConnOK
  <2>3. BacklogOK' /\ ConnOK'
    BY <1>17, <2>1, <2>2 DEF Exit
  <2>4. pc' \in [Contexts -> Steps] /\ exiting' \in [Contexts -> BOOLEAN]
    BY <1>17 DEF Exit, TypeOK, Steps, Stopping
  <2>5. up' \in BOOLEAN /\ fdOpen' \in BOOLEAN /\ acc' \in {acc, "ended"}
    BY <1>17 DEF Exit, ProcessEnds, TypeOK
  <2> QED BY <1>17, <2>3, <2>4, <2>5 DEF Exit, BacklogOK, ConnOK, TypeOK, object
<1>18. ASSUME NEW t \in Threads, NEW s \in Signals, Signal(t, s) PROVE TypeOK'
  <2>1. BacklogOK' /\ ConnOK'
    BY <1>18, ResetOK DEF Signal, clients, TypeOK, BacklogOK, ConnOK
  <2>2. delivered' \in Contexts /\ pc' \in [Contexts -> Steps]
    BY <1>18 DEF Signal, TypeOK, Steps
  <2>3. on' \in [Contexts -> Threads \cup {None}] /\ sig' \in [Contexts -> Signals \cup {None}]
    BY <1>18 DEF Signal, TypeOK
  <2> QED BY <1>18, <2>1, <2>2, <2>3 DEF Signal, BacklogOK, ConnOK, TypeOK, object, socket, accept
<1>19. ASSUME LoopHead PROVE TypeOK'
  BY <1>19 DEF LoopHead, AcceptorAt, Running, TypeOK, contexts, object, socket, clients
<1>20. ASSUME EnterAccept PROVE TypeOK'
  BY <1>20 DEF EnterAccept, AcceptorAt, AfterFailure, Running, TypeOK, contexts, object, socket, clients
<1>21. ASSUME Accept PROVE TypeOK'
  <2>1. Head(backlog) \in Clients /\ Tail(backlog) \in Seq(Clients) /\ Len(Tail(backlog)) < Len(backlog)
    BY <1>21, HeadTailProperties DEF Accept, TypeOK
  <2>2. BacklogOK'
    BY <1>21, <2>1, EmptySeq DEF Accept, TypeOK, BacklogOK
  <2>3. ConnOK'
    BY <1>21 DEF Accept, TypeOK, ConnOK
  <2> QED BY <1>21, <2>1, <2>2, <2>3 DEF Accept, BacklogOK, ConnOK, TypeOK, contexts, object, socket
<1>22. ASSUME AcceptFails PROVE TypeOK'
  <2>1. BacklogOK' /\ ConnOK'
    BY <1>22, ResetOK DEF AcceptFails, clients, TypeOK, BacklogOK, ConnOK
  <2>2. acc' \in {"head", "ended"} /\ errors' \in 0..MaxErrors
    BY <1>22 DEF AcceptFails, AfterFailure, Running, TypeOK
  <2> QED BY <1>22, <2>1, <2>2 DEF AcceptFails, BacklogOK, ConnOK, TypeOK, contexts, object, socket
<1>23. ASSUME SpawnHandler PROVE TypeOK'
  BY <1>23 DEF SpawnHandler, AcceptorAt, Handled, TypeOK, contexts, object, socket, clients
<1>24. ASSUME NEW c \in Clients, Serve(c) PROVE TypeOK'
  BY <1>24 DEF Serve, HandlerAt, SetConn, Handled, TypeOK, contexts, object, socket, accept
<1>25. ASSUME NEW c \in Clients, ServeFails(c) PROVE TypeOK'
  BY <1>25 DEF ServeFails, HandlerAt, SetConn, Handled, TypeOK, contexts, object, socket, accept
<1>26. ASSUME NEW c \in Clients, EndOfFile(c) PROVE TypeOK'
  BY <1>26 DEF EndOfFile, HandlerAt, SetConn, Handled, TypeOK, contexts, object, socket, accept
<1>27. ASSUME NEW c \in Clients, Connect(c) PROVE TypeOK'
  <2>1. BacklogOK'
    BY <1>27, AppendProperties DEF Connect, TypeOK, BacklogOK
  <2> QED BY <1>27, <2>1 DEF Connect, BacklogOK, TypeOK, contexts, object, socket, accept
<1>28. ASSUME NEW c \in Clients, Ask(c) PROVE TypeOK'
  BY <1>28 DEF Ask, SetConn, Handled, TypeOK, contexts, object, socket, accept
<1>29. ASSUME NEW c \in Clients, HangUp(c) PROVE TypeOK'
  BY <1>29 DEF HangUp, SetConn, Handled, TypeOK, contexts, object, socket, accept
<1>30. CASE UNCHANGED vars
  BY <1>30 DEF vars, TypeOK, Steps, Startup, Stopping, Threads, contexts, object, socket, accept, clients
<1> QED BY <1>1, <1>2, <1>3, <1>4, <1>5, <1>6, <1>7, <1>8, <1>9, <1>10, <1>11, <1>12, <1>13, <1>14, <1>15, <1>16, <1>17, <1>18, <1>19, <1>20, <1>21, <1>22, <1>23, <1>24, <1>25, <1>26, <1>27, <1>28, <1>29, <1>30 DEF Next, MainStep, ContextStep, AcceptorStep, HandlerStep, ClientStep

-----------------------------------------------------------------------------
(* The inductive invariant *)

LEMMA InitIInv == Init => IInv
<1> SUFFICES ASSUME Init PROVE IInv
  OBVIOUS
<1>1. OneStopper /\ MainAlone /\ Handlers
  BY ContextFacts, GatewayAssumption DEF Init, OneStopper, MainAlone, Handlers, Startup, Stopping, Contexts
<1>2. RunningNotStopped /\ PathOwned /\ Joined
  BY ContextFacts DEF Init, RunningNotStopped, PathOwned, Joined
<1> QED BY <1>1, <1>2, InitTypeOK DEF IInv

Safe == OneStopper /\ MainAlone /\ Handlers /\ RunningNotStopped /\ PathOwned /\ Joined

LEMMA BootSafe == ASSUME TypeOK, Safe, Boot PROVE Safe'
<1> USE ContextFacts DEF Safe
<1>0. /\ up /\ delivered = 0 /\ on[0] = Main
      /\ \A k \in Contexts \ {0} : pc[k] = "off" /\ ~exiting[k]
  BY BodyAlone DEF Boot, At, Handlers
<1>1. \A k \in Contexts \ {0} : pc'[k] = "off"
  BY <1>0 DEF Boot, Goto, TypeOK
<1>2. OneStopper'
  BY <1>0, <1>1 DEF Boot, At, Goto, TypeOK, Startup, Stopping, OneStopper, object, socket, accept
<1>3. MainAlone'
  BY <1>0, <1>1 DEF Boot, At, Goto, TypeOK, Startup, Stopping, MainAlone, object, socket, accept
<1>4. Handlers'
  BY <1>0, <1>1 DEF Boot, At, Goto, TypeOK, Startup, Stopping, Handlers, object, socket, accept
<1>5. RunningNotStopped'
  BY <1>0, <1>1 DEF Boot, At, Goto, TypeOK, Startup, Stopping, RunningNotStopped, object, socket, accept, MainAlone
<1>6. PathOwned'
  BY <1>0, <1>1 DEF Boot, At, Goto, TypeOK, Startup, Stopping, PathOwned, object, socket, accept, RunningNotStopped, MainAlone
<1>7. Joined'
  BY <1>0, <1>1 DEF Boot, At, Goto, TypeOK, Startup, Stopping, Joined, object, socket, accept, MainAlone
<1> QED BY <1>2, <1>3, <1>4, <1>5, <1>6, <1>7

LEMMA BootFailsSafe == ASSUME TypeOK, Safe, BootFails PROVE Safe'
<1> USE ContextFacts DEF Safe
<1>0. /\ up /\ delivered = 0 /\ on[0] = Main
      /\ \A k \in Contexts \ {0} : pc[k] = "off" /\ ~exiting[k]
  BY BodyAlone DEF BootFails, At, Handlers
<1>1. \A k \in Contexts \ {0} : pc'[k] = "off"
  BY <1>0 DEF BootFails, Goto, TypeOK
<1>2. OneStopper'
  BY <1>0, <1>1 DEF BootFails, At, Goto, TypeOK, Startup, Stopping, OneStopper, object, socket, accept
<1>3. MainAlone'
  BY <1>0, <1>1 DEF BootFails, At, Goto, TypeOK, Startup, Stopping, MainAlone, object, socket, accept
<1>4. Handlers'
  BY <1>0, <1>1 DEF BootFails, At, Goto, TypeOK, Startup, Stopping, Handlers, object, socket, accept
<1>5. RunningNotStopped'
  BY <1>0, <1>1 DEF BootFails, At, Goto, TypeOK, Startup, Stopping, RunningNotStopped, object, socket, accept, MainAlone
<1>6. PathOwned'
  BY <1>0, <1>1 DEF BootFails, At, Goto, TypeOK, Startup, Stopping, PathOwned, object, socket, accept, RunningNotStopped, MainAlone
<1>7. Joined'
  BY <1>0, <1>1 DEF BootFails, At, Goto, TypeOK, Startup, Stopping, Joined, object, socket, accept, MainAlone
<1> QED BY <1>2, <1>3, <1>4, <1>5, <1>6, <1>7

LEMMA BindSafe == ASSUME TypeOK, Safe, Bind PROVE Safe'
<1> USE ContextFacts DEF Safe
<1>0. /\ up /\ delivered = 0 /\ on[0] = Main
      /\ \A k \in Contexts \ {0} : pc[k] = "off" /\ ~exiting[k]
  BY BodyAlone DEF Bind, At, Handlers
<1>1. \A k \in Contexts \ {0} : pc'[k] = "off"
  BY <1>0 DEF Bind, Goto, TypeOK
<1>2. OneStopper'
  BY <1>0, <1>1 DEF Bind, At, Goto, TypeOK, Startup, Stopping, OneStopper, object, socket, accept
<1>3. MainAlone'
  BY <1>0, <1>1 DEF Bind, At, Goto, TypeOK, Startup, Stopping, MainAlone, object, socket, accept
<1>4. Handlers'
  BY <1>0, <1>1 DEF Bind, At, Goto, TypeOK, Startup, Stopping, Handlers, object, socket, accept
<1>5. RunningNotStopped'
  BY <1>0, <1>1 DEF Bind, At, Goto, TypeOK, Startup, Stopping, RunningNotStopped, object, socket, accept, MainAlone
<1>6. PathOwned'
  BY <1>0, <1>1 DEF Bind, At, Goto, TypeOK, Startup, Stopping, PathOwned, object, socket, accept, RunningNotStopped, MainAlone
<1>7. Joined'
  BY <1>0, <1>1 DEF Bind, At, Goto, TypeOK, Startup, Stopping, Joined, object, socket, accept, MainAlone
<1> QED BY <1>2, <1>3, <1>4, <1>5, <1>6, <1>7

LEMMA BindFailsSafe == ASSUME TypeOK, Safe, BindFails PROVE Safe'
<1> USE ContextFacts DEF Safe
<1>0. /\ up /\ delivered = 0 /\ on[0] = Main
      /\ \A k \in Contexts \ {0} : pc[k] = "off" /\ ~exiting[k]
  BY BodyAlone DEF BindFails, At, Handlers
<1>1. \A k \in Contexts \ {0} : pc'[k] = "off"
  BY <1>0 DEF BindFails, Goto, TypeOK
<1>2. OneStopper'
  BY <1>0, <1>1 DEF BindFails, At, Goto, TypeOK, Startup, Stopping, OneStopper, object, socket, accept
<1>3. MainAlone'
  BY <1>0, <1>1 DEF BindFails, At, Goto, TypeOK, Startup, Stopping, MainAlone, object, socket, accept
<1>4. Handlers'
  BY <1>0, <1>1 DEF BindFails, At, Goto, TypeOK, Startup, Stopping, Handlers, object, socket, accept
<1>5. RunningNotStopped'
  BY <1>0, <1>1 DEF BindFails, At, Goto, TypeOK, Startup, Stopping, RunningNotStopped, object, socket, accept, MainAlone
<1>6. PathOwned'
  BY <1>0, <1>1 DEF BindFails, At, Goto, TypeOK, Startup, Stopping, PathOwned, object, socket, accept, RunningNotStopped, MainAlone
<1>7. Joined'
  BY <1>0, <1>1 DEF BindFails, At, Goto, TypeOK, Startup, Stopping, Joined, object, socket, accept, MainAlone
<1> QED BY <1>2, <1>3, <1>4, <1>5, <1>6, <1>7

LEMMA SetRunningSafe == ASSUME TypeOK, Safe, SetRunning PROVE Safe'
<1> USE ContextFacts DEF Safe
<1>0. /\ up /\ delivered = 0 /\ on[0] = Main
      /\ \A k \in Contexts \ {0} : pc[k] = "off" /\ ~exiting[k]
  BY BodyAlone DEF SetRunning, At, Handlers
<1>1. \A k \in Contexts \ {0} : pc'[k] = "off"
  BY <1>0 DEF SetRunning, Goto, TypeOK
<1>2. OneStopper'
  BY <1>0, <1>1 DEF SetRunning, At, Goto, TypeOK, Startup, Stopping, OneStopper, object, socket, accept
<1>3. MainAlone'
  BY <1>0, <1>1 DEF SetRunning, At, Goto, TypeOK, Startup, Stopping, MainAlone, object, socket, accept
<1>4. Handlers'
  BY <1>0, <1>1 DEF SetRunning, At, Goto, TypeOK, Startup, Stopping, Handlers, object, socket, accept
<1>5. RunningNotStopped'
  BY <1>0, <1>1 DEF SetRunning, At, Goto, TypeOK, Startup, Stopping, RunningNotStopped, object, socket, accept, MainAlone
<1>6. PathOwned'
  BY <1>0, <1>1 DEF SetRunning, At, Goto, TypeOK, Startup, Stopping, PathOwned, object, socket, accept, RunningNotStopped, MainAlone
<1>7. Joined'
  BY <1>0, <1>1 DEF SetRunning, At, Goto, TypeOK, Startup, Stopping, Joined, object, socket, accept, MainAlone
<1> QED BY <1>2, <1>3, <1>4, <1>5, <1>6, <1>7

LEMMA SpawnAcceptorSafe == ASSUME TypeOK, Safe, SpawnAcceptor PROVE Safe'
<1> USE ContextFacts DEF Safe
<1>0. /\ up /\ delivered = 0 /\ on[0] = Main
      /\ \A k \in Contexts \ {0} : pc[k] = "off" /\ ~exiting[k]
  BY BodyAlone DEF SpawnAcceptor, At, Handlers
<1>1. \A k \in Contexts \ {0} : pc'[k] = "off"
  BY <1>0 DEF SpawnAcceptor, Goto, TypeOK
<1>2. OneStopper'
  BY <1>0, <1>1 DEF SpawnAcceptor, At, Goto, TypeOK, Startup, Stopping, OneStopper, object, socket, accept
<1>3. MainAlone'
  BY <1>0, <1>1 DEF SpawnAcceptor, At, Goto, TypeOK, Startup, Stopping, MainAlone, object, socket, accept
<1>4. Handlers'
  BY <1>0, <1>1 DEF SpawnAcceptor, At, Goto, TypeOK, Startup, Stopping, Handlers, object, socket, accept
<1>5. RunningNotStopped'
  BY <1>0, <1>1 DEF SpawnAcceptor, At, Goto, TypeOK, Startup, Stopping, RunningNotStopped, object, socket, accept, MainAlone
<1>6. PathOwned'
  BY <1>0, <1>1 DEF SpawnAcceptor, At, Goto, TypeOK, Startup, Stopping, PathOwned, object, socket, accept, RunningNotStopped, MainAlone
<1>7. Joined'
  BY <1>0, <1>1 DEF SpawnAcceptor, At, Goto, TypeOK, Startup, Stopping, Joined, object, socket, accept, MainAlone
<1> QED BY <1>2, <1>3, <1>4, <1>5, <1>6, <1>7

LEMMA SpawnAcceptorFailsSafe == ASSUME TypeOK, Safe, SpawnAcceptorFails PROVE Safe'
<1> USE ContextFacts DEF Safe
<1>0. /\ up /\ delivered = 0 /\ on[0] = Main
      /\ \A k \in Contexts \ {0} : pc[k] = "off" /\ ~exiting[k]
  BY BodyAlone DEF SpawnAcceptorFails, At, Handlers
<1>1. \A k \in Contexts \ {0} : pc'[k] = "off"
  BY <1>0 DEF SpawnAcceptorFails, Goto, TypeOK
<1>2. OneStopper'
  BY <1>0, <1>1 DEF SpawnAcceptorFails, At, Goto, TypeOK, Startup, Stopping, OneStopper, object, socket, accept
<1>3. MainAlone'
  BY <1>0, <1>1 DEF SpawnAcceptorFails, At, Goto, TypeOK, Startup, Stopping, MainAlone, object, socket, accept
<1>4. Handlers'
  BY <1>0, <1>1 DEF SpawnAcceptorFails, At, Goto, TypeOK, Startup, Stopping, Handlers, object, socket, accept
<1>5. RunningNotStopped'
  BY <1>0, <1>1 DEF SpawnAcceptorFails, At, Goto, TypeOK, Startup, Stopping, RunningNotStopped, object, socket, accept, MainAlone
<1>6. PathOwned'
  BY <1>0, <1>1 DEF SpawnAcceptorFails, At, Goto, TypeOK, Startup, Stopping, PathOwned, object, socket, accept, RunningNotStopped, MainAlone
<1>7. Joined'
  BY <1>0, <1>1 DEF SpawnAcceptorFails, At, Goto, TypeOK, Startup, Stopping, Joined, object, socket, accept, MainAlone
<1> QED BY <1>2, <1>3, <1>4, <1>5, <1>6, <1>7

LEMMA MarkInitializedSafe == ASSUME TypeOK, Safe, MarkInitialized PROVE Safe'
<1> USE ContextFacts DEF Safe
<1>0. /\ up /\ delivered = 0 /\ on[0] = Main
      /\ \A k \in Contexts \ {0} : pc[k] = "off" /\ ~exiting[k]
  BY BodyAlone DEF MarkInitialized, At, Handlers
<1>1. \A k \in Contexts \ {0} : pc'[k] = "off"
  BY <1>0 DEF MarkInitialized, Goto, TypeOK
<1>2. OneStopper'
  BY <1>0, <1>1 DEF MarkInitialized, At, Goto, TypeOK, Startup, Stopping, OneStopper, object, socket, accept
<1>3. MainAlone'
  BY <1>0, <1>1 DEF MarkInitialized, At, Goto, TypeOK, Startup, Stopping, MainAlone, object, socket, accept
<1>4. Handlers'
  BY <1>0, <1>1 DEF MarkInitialized, At, Goto, TypeOK, Startup, Stopping, Handlers, object, socket, accept
<1>5. RunningNotStopped'
  BY <1>0, <1>1 DEF MarkInitialized, At, Goto, TypeOK, Startup, Stopping, RunningNotStopped, object, socket, accept, MainAlone
<1>6. PathOwned'
  BY <1>0, <1>1 DEF MarkInitialized, At, Goto, TypeOK, Startup, Stopping, PathOwned, object, socket, accept, RunningNotStopped, MainAlone
<1>7. Joined'
  BY <1>0, <1>1 DEF MarkInitialized, At, Goto, TypeOK, Startup, Stopping, Joined, object, socket, accept, MainAlone
<1> QED BY <1>2, <1>3, <1>4, <1>5, <1>6, <1>7

LEMMA QuitCliSafe == ASSUME TypeOK, Safe, QuitCli PROVE Safe'
<1> USE ContextFacts DEF Safe
<1>0. /\ up /\ delivered = 0 /\ on[0] = Main
      /\ \A k \in Contexts \ {0} : pc[k] = "off" /\ ~exiting[k]
  BY BodyAlone DEF QuitCli, At, Handlers
<1>1. \A k \in Contexts \ {0} : pc'[k] = "off"
  BY <1>0 DEF QuitCli, Goto, TypeOK
<1>2. OneStopper'
  BY <1>0, <1>1 DEF QuitCli, At, Goto, TypeOK, Startup, Stopping, OneStopper, object, socket, accept
<1>3. MainAlone'
  BY <1>0, <1>1 DEF QuitCli, At, Goto, TypeOK, Startup, Stopping, MainAlone, object, socket, accept
<1>4. Handlers'
  BY <1>0, <1>1 DEF QuitCli, At, Goto, TypeOK, Startup, Stopping, Handlers, object, socket, accept
<1>5. RunningNotStopped'
  BY <1>0, <1>1 DEF QuitCli, At, Goto, TypeOK, Startup, Stopping, RunningNotStopped, object, socket, accept, MainAlone
<1>6. PathOwned'
  BY <1>0, <1>1 DEF QuitCli, At, Goto, TypeOK, Startup, Stopping, PathOwned, object, socket, accept, RunningNotStopped, MainAlone
<1>7. Joined'
  BY <1>0, <1>1 DEF QuitCli, At, Goto, TypeOK, Startup, Stopping, Joined, object, socket, accept, MainAlone
<1> QED BY <1>2, <1>3, <1>4, <1>5, <1>6, <1>7

LEMMA ShutdownSafe == ASSUME TypeOK, Safe, NEW k \in Contexts, Shutdown(k) PROVE Safe'
<1> USE ContextFacts DEF Safe
<1>0. up /\ (delivered <= 1 => k = delivered) /\ k <= delivered
  BY Current, GatewayAssumption DEF Shutdown, At, Handlers, TypeOK
<1>1. OneStopper'
  BY <1>0 DEF Shutdown, At, Goto, TypeOK, Startup, Stopping, OneStopper, object, socket, accept, RunningNotStopped
<1>2. MainAlone'
  BY <1>0 DEF Shutdown, At, Goto, TypeOK, Startup, Stopping, MainAlone, object, socket, accept, Joined, RunningNotStopped, Handlers
<1>3. Handlers'
  BY <1>0 DEF Shutdown, At, Goto, TypeOK, Startup, Stopping, Handlers, object, socket, accept, MainAlone
<1>4. RunningNotStopped'
  <2> SUFFICES ASSUME running PROVE RunningNotStopped'
    BY DEF Shutdown, RunningNotStopped, socket
  <2>1. k = 0 => initialized
    BY BodyAlone, <1>0 DEF Shutdown, At, MainAlone
  <2>2. gateway = "live" /\ ~exiting[k]
    BY DEF Shutdown, At, RunningNotStopped
  <2>3. pc'[k] \in {"exit", "stop"} /\ (k = 0 => pc'[k] = "stop")
    BY <2>1, <2>2 DEF Shutdown, Goto, TypeOK
  <2>4. pc' = [pc EXCEPT ![k] = pc'[k]] /\ UNCHANGED <<exiting, orch, gateway, running>>
    BY DEF Shutdown, Goto, TypeOK, object, socket
  <2> QED BY <2>2, <2>3, <2>4 DEF RunningNotStopped, Stopping, TypeOK
<1>5. PathOwned'
  BY <1>0 DEF Shutdown, At, Goto, TypeOK, Startup, Stopping, PathOwned, object, socket, accept, RunningNotStopped, OneStopper
<1>6. Joined'
  BY <1>0 DEF Shutdown, At, Goto, TypeOK, Startup, Stopping, Joined, object, socket, accept, MainAlone, Handlers, RunningNotStopped
<1> QED BY <1>1, <1>2, <1>3, <1>4, <1>5, <1>6

LEMMA BeginStopSafe == ASSUME TypeOK, Safe, NEW k \in Contexts, BeginStop(k) PROVE Safe'
<1> USE ContextFacts DEF Safe
<1>0. up /\ (delivered <= 1 => k = delivered) /\ k <= delivered
  BY Current, GatewayAssumption DEF BeginStop, At, Handlers, TypeOK
<1>1. OneStopper'
  BY <1>0 DEF BeginStop, At, Goto, TypeOK, Startup, Stopping, OneStopper, object, socket, accept, RunningNotStopped
<1>2. MainAlone'
  BY <1>0 DEF BeginStop, At, Goto, TypeOK, Startup, Stopping, MainAlone, object, socket, accept, Joined, RunningNotStopped, Handlers
<1>3. Handlers'
  BY <1>0 DEF BeginStop, At, Goto, TypeOK, Startup, Stopping, Handlers, object, socket, accept, MainAlone
<1>4. RunningNotStopped'
  BY <1>0 DEF BeginStop, At, Goto, TypeOK, Startup, Stopping, RunningNotStopped, object, socket, accept, MainAlone
<1>5. PathOwned'
  BY <1>0 DEF BeginStop, At, Goto, TypeOK, Startup, Stopping, PathOwned, object, socket, accept, RunningNotStopped, OneStopper
<1>6. Joined'
  BY <1>0 DEF BeginStop, At, Goto, TypeOK, Startup, Stopping, Joined, object, socket, accept, MainAlone, Handlers, RunningNotStopped
<1> QED BY <1>1, <1>2, <1>3, <1>4, <1>5, <1>6

LEMMA CloseListenerSafe == ASSUME TypeOK, Safe, NEW k \in Contexts, CloseListener(k) PROVE Safe'
<1> USE ContextFacts DEF Safe
<1>0. up /\ (delivered <= 1 => k = delivered) /\ k <= delivered
  BY Current, GatewayAssumption DEF CloseListener, At, Handlers, TypeOK
<1>1. OneStopper'
  BY <1>0 DEF CloseListener, At, Goto, TypeOK, Startup, Stopping, OneStopper, object, socket, accept, RunningNotStopped
<1>2. MainAlone'
  BY <1>0 DEF CloseListener, At, Goto, TypeOK, Startup, Stopping, MainAlone, object, socket, accept, Joined, RunningNotStopped, Handlers
<1>3. Handlers'
  BY <1>0 DEF CloseListener, At, Goto, TypeOK, Startup, Stopping, Handlers, object, socket, accept, MainAlone
<1>4. RunningNotStopped'
  BY <1>0 DEF CloseListener, At, Goto, TypeOK, Startup, Stopping, RunningNotStopped, object, socket, accept, MainAlone
<1>5. PathOwned'
  BY <1>0 DEF CloseListener, At, Goto, TypeOK, Startup, Stopping, PathOwned, object, socket, accept, RunningNotStopped, OneStopper
<1>6. Joined'
  BY <1>0 DEF CloseListener, At, Goto, TypeOK, Startup, Stopping, Joined, object, socket, accept, MainAlone, Handlers, RunningNotStopped
<1> QED BY <1>1, <1>2, <1>3, <1>4, <1>5, <1>6

LEMMA JoinSafe == ASSUME TypeOK, Safe, NEW k \in Contexts, Join(k) PROVE Safe'
<1> USE ContextFacts DEF Safe
<1>0. up /\ (delivered <= 1 => k = delivered) /\ k <= delivered
  BY Current, GatewayAssumption DEF Join, At, Handlers, TypeOK
<1>1. OneStopper'
  BY <1>0 DEF Join, At, Goto, Joinable, TypeOK, Startup, Stopping, OneStopper, object, socket, accept, RunningNotStopped
<1>2. MainAlone'
  BY <1>0 DEF Join, At, Goto, Joinable, TypeOK, Startup, Stopping, MainAlone, object, socket, accept, Joined, RunningNotStopped, Handlers
<1>3. Handlers'
  BY <1>0 DEF Join, At, Goto, Joinable, TypeOK, Startup, Stopping, Handlers, object, socket, accept, MainAlone
<1>4. RunningNotStopped'
  BY <1>0 DEF Join, At, Goto, Joinable, TypeOK, Startup, Stopping, RunningNotStopped, object, socket, accept, MainAlone
<1>5. PathOwned'
  BY <1>0 DEF Join, At, Goto, Joinable, TypeOK, Startup, Stopping, PathOwned, object, socket, accept, RunningNotStopped, OneStopper
<1>6. Joined'
  BY <1>0 DEF Join, At, Goto, Joinable, TypeOK, Startup, Stopping, Joined, object, socket, accept, MainAlone, Handlers, RunningNotStopped
<1> QED BY <1>1, <1>2, <1>3, <1>4, <1>5, <1>6

LEMMA UnlinkSafe == ASSUME TypeOK, Safe, NEW k \in Contexts, Unlink(k) PROVE Safe'
<1> USE ContextFacts DEF Safe
<1>0. up /\ (delivered <= 1 => k = delivered) /\ k <= delivered
  BY Current, GatewayAssumption DEF Unlink, At, Handlers, TypeOK
<1>1. OneStopper'
  BY <1>0 DEF Unlink, At, Goto, TypeOK, Startup, Stopping, OneStopper, object, socket, accept, RunningNotStopped
<1>2. MainAlone'
  BY <1>0 DEF Unlink, At, Goto, TypeOK, Startup, Stopping, MainAlone, object, socket, accept, Joined, RunningNotStopped, Handlers
<1>3. Handlers'
  BY <1>0 DEF Unlink, At, Goto, TypeOK, Startup, Stopping, Handlers, object, socket, accept, MainAlone
<1>4. RunningNotStopped'
  BY <1>0 DEF Unlink, At, Goto, TypeOK, Startup, Stopping, RunningNotStopped, object, socket, accept, MainAlone
<1>5. PathOwned'
  BY <1>0 DEF Unlink, At, Goto, TypeOK, Startup, Stopping, PathOwned, object, socket, accept, RunningNotStopped, OneStopper
<1>6. Joined'
  BY <1>0 DEF Unlink, At, Goto, TypeOK, Startup, Stopping, Joined, object, socket, accept, MainAlone, Handlers, RunningNotStopped
<1> QED BY <1>1, <1>2, <1>3, <1>4, <1>5, <1>6

LEMMA FreeSafe == ASSUME TypeOK, Safe, NEW k \in Contexts, Free(k) PROVE Safe'
<1> USE ContextFacts DEF Safe
<1>0. up /\ (delivered <= 1 => k = delivered) /\ k <= delivered
  BY Current, GatewayAssumption DEF Free, At, Handlers, TypeOK
<1>1. OneStopper'
  BY <1>0 DEF Free, At, Goto, TypeOK, Startup, Stopping, OneStopper, object, socket, accept, RunningNotStopped
<1>2. MainAlone'
  BY <1>0 DEF Free, At, Goto, TypeOK, Startup, Stopping, MainAlone, object, socket, accept, Joined, RunningNotStopped, Handlers
<1>3. Handlers'
  BY <1>0 DEF Free, At, Goto, TypeOK, Startup, Stopping, Handlers, object, socket, accept, MainAlone
<1>4. RunningNotStopped'
  BY <1>0 DEF Free, At, Goto, TypeOK, Startup, Stopping, RunningNotStopped, object, socket, accept, MainAlone
<1>5. PathOwned'
  BY <1>0 DEF Free, At, Goto, TypeOK, Startup, Stopping, PathOwned, object, socket, accept, RunningNotStopped, OneStopper
<1>6. Joined'
  BY <1>0 DEF Free, At, Goto, TypeOK, Startup, Stopping, Joined, object, socket, accept, MainAlone, Handlers, RunningNotStopped
<1> QED BY <1>1, <1>2, <1>3, <1>4, <1>5, <1>6

LEMMA FinishShutdownSafe == ASSUME TypeOK, Safe, NEW k \in Contexts, FinishShutdown(k) PROVE Safe'
<1> USE ContextFacts DEF Safe
<1>0. up /\ (delivered <= 1 => k = delivered) /\ k <= delivered
  BY Current, GatewayAssumption DEF FinishShutdown, At, Handlers, TypeOK
<1>1. OneStopper'
  BY <1>0 DEF FinishShutdown, At, Goto, TypeOK, Startup, Stopping, OneStopper, object, socket, accept, RunningNotStopped
<1>2. MainAlone'
  BY <1>0 DEF FinishShutdown, At, Goto, TypeOK, Startup, Stopping, MainAlone, object, socket, accept, Joined, RunningNotStopped, Handlers
<1>3. Handlers'
  BY <1>0 DEF FinishShutdown, At, Goto, TypeOK, Startup, Stopping, Handlers, object, socket, accept, MainAlone
<1>4. RunningNotStopped'
  BY <1>0 DEF FinishShutdown, At, Goto, TypeOK, Startup, Stopping, RunningNotStopped, object, socket, accept, MainAlone
<1>5. PathOwned'
  BY <1>0 DEF FinishShutdown, At, Goto, TypeOK, Startup, Stopping, PathOwned, object, socket, accept, RunningNotStopped, OneStopper
<1>6. Joined'
  BY <1>0 DEF FinishShutdown, At, Goto, TypeOK, Startup, Stopping, Joined, object, socket, accept, MainAlone, Handlers, RunningNotStopped
<1> QED BY <1>1, <1>2, <1>3, <1>4, <1>5, <1>6

LEMMA ExitSafe == ASSUME TypeOK, Safe, NEW k \in Contexts, Exit(k) PROVE Safe'
<1> USE ContextFacts DEF Safe
<1>0. up /\ (delivered <= 1 => k = delivered) /\ k <= delivered
  BY Current, GatewayAssumption DEF Exit, At, Handlers, TypeOK
<1>1. OneStopper'
  BY <1>0, ZenonT(30) DEF Exit, At, Goto, ProcessEnds, TypeOK, Startup, Stopping, OneStopper, object, socket, accept, RunningNotStopped
<1>2. MainAlone'
  BY <1>0 DEF Exit, At, Goto, ProcessEnds, TypeOK, Startup, Stopping, MainAlone, object, socket, accept, Joined, RunningNotStopped, Handlers
<1>3. Handlers'
  BY <1>0 DEF Exit, At, Goto, ProcessEnds, TypeOK, Startup, Stopping, Handlers, object, socket, accept, MainAlone
<1>4. RunningNotStopped'
  BY <1>0 DEF Exit, At, Goto, ProcessEnds, TypeOK, Startup, Stopping, RunningNotStopped, object, socket, accept, MainAlone
<1>5. PathOwned'
  BY <1>0 DEF Exit, At, Goto, ProcessEnds, TypeOK, Startup, Stopping, PathOwned, object, socket, accept, RunningNotStopped, OneStopper
<1>6. Joined'
  BY <1>0 DEF Exit, At, Goto, ProcessEnds, TypeOK, Startup, Stopping, Joined, object, socket, accept, MainAlone, Handlers, RunningNotStopped
<1> QED BY <1>1, <1>2, <1>3, <1>4, <1>5, <1>6

LEMMA SignalSafe == ASSUME TypeOK, Safe, NEW t \in Threads, NEW s \in Signals, Signal(t, s) PROVE Safe'
<1> USE ContextFacts, GatewayAssumption DEF Safe
<1>0. delivered = 0 => t = Main
  <2> SUFFICES ASSUME delivered = 0, t # Main PROVE FALSE
    OBVIOUS
  <2>1. PICK k \in Contexts : on[k] = Main /\ sig[k] = s
    BY DEF Signal, MayInterrupt, Blocks
  <2>2. k = 0
    BY <2>1 DEF Handlers, TypeOK
  <2> QED BY <2>1, <2>2 DEF Handlers
<1>1. /\ up /\ up' = up /\ delivered' = delivered + 1 /\ delivered + 1 \in Contexts
      /\ delivered \in Nat /\ delivered + 1 # 0
      /\ pc[delivered + 1] = "off"
      /\ pc' = [pc EXCEPT ![delivered + 1] = IF orch THEN "shutdown" ELSE "exit"]
      /\ on' = [on EXCEPT ![delivered + 1] = t]
      /\ sig' = [sig EXCEPT ![delivered + 1] = s]
      /\ UNCHANGED <<exiting, orch, initialized, gateway, running, fdOpen, path, acc>>
  BY DEF Signal, Goto, TypeOK, Handlers, object, socket, accept
<1>2. OneStopper'
  BY <1>0, <1>1 DEF TypeOK, Stopping, OneStopper
<1>3. MainAlone'
  BY <1>0, <1>1 DEF TypeOK, Stopping, MainAlone
<1>4. Handlers'
  BY <1>0, <1>1 DEF TypeOK, Stopping, Handlers, Startup
<1>5. RunningNotStopped'
  BY <1>0, <1>1 DEF TypeOK, Stopping, RunningNotStopped, Handlers
<1>6. PathOwned'
  BY <1>0, <1>1 DEF TypeOK, Stopping, PathOwned
<1>7. Joined'
  BY <1>0, <1>1 DEF TypeOK, Stopping, Joined, MainAlone, Startup, Handlers
<1> QED BY <1>2, <1>3, <1>4, <1>5, <1>6, <1>7

(* The other steps leave contexts, object and socket file alone, and the     *)
(* accept thread, once ended or as long as it does not exist, stays so.      *)
LEMMA OthersSafe ==
    ASSUME TypeOK, Safe, UNCHANGED <<contexts, object, socket>>,
           up' = up, acc' # acc => acc \notin {"none", "ended"} /\ acc' # "none"
    PROVE  Safe'
<1> USE DEF Safe, contexts, object, socket
<1>1. OneStopper' /\ Handlers' /\ RunningNotStopped' /\ PathOwned'
  BY DEF OneStopper, Handlers, RunningNotStopped, PathOwned
<1>2. MainAlone'
  BY DEF MainAlone
<1>3. Joined'
  BY DEF Joined
<1> QED BY <1>1, <1>2, <1>3

LEMMA AcceptorSafe == ASSUME TypeOK, Safe, AcceptorStep PROVE Safe'
<1>1. UNCHANGED <<contexts, object, socket>> /\ up' = up
  BY DEF AcceptorStep, LoopHead, EnterAccept, Accept, AcceptFails, SpawnHandler
<1>2. acc \notin {"none", "ended"} /\ acc' # "none"
  BY DEF AcceptorStep, LoopHead, EnterAccept, Accept, AcceptFails, SpawnHandler,
         AcceptorAt, AfterFailure
<1> QED BY <1>1, <1>2, OthersSafe

LEMMA ClientSafe == ASSUME TypeOK, Safe, NEW c \in Clients, HandlerStep(c) \/ ClientStep(c) PROVE Safe'
<1>1. UNCHANGED <<contexts, object, socket>> /\ up' = up /\ acc' = acc
  BY DEF HandlerStep, ClientStep, Serve, ServeFails, EndOfFile, Connect, Ask, HangUp, SetConn, accept
<1> QED BY <1>1, OthersSafe

LEMMA StepIInv == ASSUME IInv, [Next]_vars PROVE IInv'
<1>1. TypeOK /\ Safe
  BY DEF IInv, Safe
<1>2. TypeOK'
  BY <1>1, StepTypeOK DEF Safe
<1>3. Safe'
  <2>1. CASE MainStep \/ QuitCli
    BY <1>1, <2>1, BootSafe, BootFailsSafe, BindSafe, BindFailsSafe, SetRunningSafe, SpawnAcceptorSafe, SpawnAcceptorFailsSafe, MarkInitializedSafe, QuitCliSafe DEF MainStep
  <2>2. CASE \E k \in Contexts : ContextStep(k)
    BY <1>1, <2>2, ShutdownSafe, BeginStopSafe, CloseListenerSafe, JoinSafe, UnlinkSafe, FreeSafe, FinishShutdownSafe, ExitSafe DEF ContextStep
  <2>3. CASE \E t \in Threads, s \in Signals : Signal(t, s)
    BY <1>1, <2>3, SignalSafe
  <2>4. CASE AcceptorStep
    BY <1>1, <2>4, AcceptorSafe
  <2>5. CASE \E c \in Clients : HandlerStep(c) \/ ClientStep(c)
    BY <1>1, <2>5, ClientSafe
  <2>6. CASE UNCHANGED vars
    BY <1>1, <2>6, OthersSafe DEF vars, accept
  <2> QED BY <2>1, <2>2, <2>3, <2>4, <2>5, <2>6 DEF Next
<1> QED BY <1>2, <1>3 DEF IInv, Safe

(* The inductive invariant holds in every reachable state.                    *)
THEOREM GatewayInvariant == Spec => []IInv
<1>1. IInv /\ [Next]_vars => IInv'
  BY StepIInv
<1> QED BY <1>1, InitIInv, PTL DEF Spec

-----------------------------------------------------------------------------
(* Every variable keeps its type; the backlog never exceeds what the kernel    *)
(* grants DOMAIN_SOCKET_BACKLOG.                                               *)
THEOREM GatewayTypeCorrect == Spec => []TypeOK
<1>1. IInv => TypeOK
  BY DEF IInv
<1> QED BY <1>1, GatewayInvariant, PTL

(* Of any number of signal handlers, on any threads, and main() at most one is *)
(* past the exchange of running_ in stop().                                    *)
THEOREM GatewayOneStopper == Spec => []OneStopper
<1>1. IInv => OneStopper
  BY DEF IInv
<1> QED BY <1>1, GatewayInvariant, PTL

(* With at most one signal the gateway is deleted only after its accept loop.  *)
THEOREM GatewayFreedAfterAcceptLoop == Spec => []FreedAfterAcceptLoop
<1>1. IInv => FreedAfterAcceptLoop
  BY DEF IInv, Joined, FreedAfterAcceptLoop
<1> QED BY <1>1, GatewayInvariant, PTL

(* A process that ends with no context left behind in start() or stop() has    *)
(* unlinked its socket file.                                                   *)
THEOREM GatewayOrderlyExitUnlinks == Spec => OrderlyExitUnlinks
<1>1. ASSUME IInv, [Next]_vars, up, ~up', ~Abandoned PROVE path' # "bound"
  <2>1. PICK k \in Contexts : Exit(k)
    BY <1>1 DEF Next, vars, MainStep, ContextStep, AcceptorStep, HandlerStep, ClientStep,
       Boot, BootFails, Bind, BindFails, SetRunning, SpawnAcceptor, SpawnAcceptorFails,
       MarkInitialized, QuitCli, Shutdown, BeginStop, CloseListener, Join, Unlink, Free,
       FinishShutdown, Signal, LoopHead, EnterAccept, Accept, AcceptFails, SpawnHandler,
       Serve, ServeFails, EndOfFile, Connect, Ask, HangUp, SetConn
  <2>2. ~running
    BY <1>1, <2>1, ContextFacts DEF Exit, IInv, RunningNotStopped, Abandoned
  <2>3. path # "bound"
    BY <1>1, <2>2 DEF IInv, PathOwned, Abandoned
  <2> QED BY <2>1, <2>3 DEF Exit
<1>2. IInv /\ [Next]_vars => [up /\ ~up' /\ ~Abandoned => path' # "bound"]_vars
  BY <1>1
<1> QED BY <1>2, GatewayInvariant, PTL DEF Spec, OrderlyExitUnlinks
=============================================================================
