-------------------------------- MODULE Agents --------------------------------
(***************************************************************************)
(* What the supervisor promises about the agents it runs: they are started  *)
(* only while it is running, each that has ended is collected once and not  *)
(* before, and the supervisor stops only when none is left.  The signals,    *)
(* the process registry and the drain that implement this are in Supervisor. *)
(***************************************************************************)
CONSTANT Pids

VARIABLES
    phase,   \* of the supervisor
    agent    \* under each process id: no agent of ours, one alive, one ended

agentVars == <<phase, agent>>

Init ==
    /\ phase = "INITIALIZING"
    /\ agent = [p \in Pids |-> "none"]

Open ==
    /\ phase = "INITIALIZING"
    /\ phase' = "RUNNING"
    /\ UNCHANGED agent

Start(p) ==
    /\ phase = "RUNNING"
    /\ agent[p] = "none"
    /\ agent' = [agent EXCEPT ![p] = "alive"]
    /\ UNCHANGED phase

End(p) ==
    /\ agent[p] = "alive"
    /\ agent' = [agent EXCEPT ![p] = "ended"]
    /\ UNCHANGED phase

(* Any number of those that have ended, at once. *)
Collect ==
    /\ \E dead \in SUBSET {p \in Pids : agent[p] = "ended"} :
          agent' = [p \in Pids |-> IF p \in dead THEN "none" ELSE agent[p]]
    /\ UNCHANGED phase

Drain ==
    /\ phase = "RUNNING"
    /\ phase' = "DRAINING"
    /\ UNCHANGED agent

Close ==
    /\ phase = "DRAINING"
    /\ \A p \in Pids : agent[p] = "none"
    /\ phase' = "STOPPED"
    /\ UNCHANGED agent

Next ==
    \/ Open \/ Drain \/ Close \/ Collect
    \/ \E p \in Pids : Start(p) \/ End(p)

Spec == Init /\ [][Next]_agentVars
=============================================================================
