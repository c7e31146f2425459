----------------------------- MODULE TaskQueue -----------------------------
(***************************************************************************)
(* What the work queue of the thread pool promises to the code around it:  *)
(* a bounded first-in first-out queue.  A submitted task is accepted only  *)
(* while there is room, and the tasks that were accepted are handed to     *)
(* workers in the order in which they were accepted, each of them once.    *)
(* The ring buffer, the worker threads and the condition variable that     *)
(* implement this are in ThreadPool.                                       *)
(***************************************************************************)
EXTENDS Integers, Sequences

CONSTANTS
    Tasks,      \* what can be submitted: accepted client connections
    Capacity    \* how many tasks may be queued

VARIABLES
    queue,      \* accepted and not yet handed to a worker, oldest first
    handed      \* handed to workers so far, in that order

queueVars == <<queue, handed>>

Init ==
    /\ queue = << >>
    /\ handed = << >>

(* A task joins the queue if the queue has room. *)
Accept(t) ==
    /\ Len(queue) < Capacity
    /\ queue' = Append(queue, t)
    /\ UNCHANGED handed

(* The oldest queued task goes to some worker. *)
HandOver ==
    /\ queue # << >>
    /\ queue' = Tail(queue)
    /\ handed' = Append(handed, Head(queue))

Next ==
    \/ \E t \in Tasks : Accept(t)
    \/ HandOver

Spec == Init /\ [][Next]_queueVars
=============================================================================
