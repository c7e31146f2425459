----------------------------- MODULE ThreadPool -----------------------------
(***************************************************************************)
(* The thread pool of the supervisor (os_layer/threading): a ring buffer   *)
(* of tasks guarded by queue_mutex, the worker threads that sleep on       *)
(* task_available_cond, any number of threads that call submit, and the    *)
(* supervisor thread that calls init and, much later, shutdown.            *)
(*                                                                         *)
(* Everything the code does between acquiring and releasing queue_mutex    *)
(* touches only what that mutex guards, so a critical section is one       *)
(* action.  pthread_cond_wait releases the mutex and goes to sleep in one  *)
(* indivisible step; a woken worker has to take the mutex again and to     *)
(* look again, which is its next action.  The broadcast of shutdown is     *)
(* outside the critical section that sets the flag, and so is an action    *)
(* of its own, as is every pthread_create and every pthread_join.          *)
(***************************************************************************)
EXTENDS Integers, Sequences, FiniteSets

CONSTANTS
    MAX_WORKERS,        \* size of workers[]
    QUEUE_CAPACITY,     \* size of task_queue[]
    Tasks,              \* the connections that may be submitted
    NoTask,             \* contents of a slot that was never written
    InitArgs,           \* what init may be called with
    CreateMayFail       \* whether pthread_create can fail

ASSUME PoolAssumption ==
    /\ MAX_WORKERS \in Nat \ {0}
    /\ QUEUE_CAPACITY \in Nat \ {0}
    /\ NoTask \notin Tasks
    /\ InitArgs \subseteq Int
    /\ CreateMayFail \in BOOLEAN

Workers == 0 .. MAX_WORKERS - 1
Slots   == 0 .. QUEUE_CAPACITY - 1

VARIABLES
    task_queue, queue_head, queue_tail, task_count,  \* the ring buffer
    shutdown_flag,
    initialized, active_worker_count,
    thread,     \* per worker slot: where its thread is, "absent" if none
    current,    \* per worker slot: the task its thread is processing
    pc,         \* where the supervisor thread is
    index,      \* its loop variable, in init and in shutdown
    accepted,   \* history: the tasks for which submit returned true
    taken,      \* history: the tasks dequeued, in order
    promised    \* history: Len(accepted) when shutdown_flag was set

ring     == <<task_queue, queue_head, queue_tail, task_count>>
workerV  == <<thread, current>>
superV   == <<pc, index, initialized, active_worker_count>>
vars     == <<task_queue, queue_head, queue_tail, task_count, shutdown_flag,
              initialized, active_worker_count, thread, current, pc, index,
              accepted, taken, promised>>

(* "running": the thread is about to acquire queue_mutex; "waiting": asleep *)
(* on task_available_cond; "busy": inside Worker::process_task.             *)
ThreadStates == {"absent", "running", "waiting", "busy", "exited"}

In(state) == {w \in Workers : thread[w] = state}

(* The process has not died.                                                *)
Alive == pc # "crashed"

(* Decisions of the code, named so that each can be varied on its own: the  *)
(* variant ending in a fault's name is used by a sensitivity run only.      *)
Full == task_count = QUEUE_CAPACITY

Advance(slot) == (slot + 1) % QUEUE_CAPACITY

HeadAfterDequeue_NotAdvanced == queue_head
HeadAfterDequeue == Advance(queue_head)

MayWait == task_count = 0 /\ ~shutdown_flag

MayExit == shutdown_flag /\ task_count = 0

Init ==
    /\ task_queue = [s \in Slots |-> NoTask]
    /\ queue_head = 0
    /\ queue_tail = 0
    /\ task_count = 0
    /\ shutdown_flag = FALSE
    /\ initialized = FALSE
    /\ active_worker_count = 0
    /\ thread = [w \in Workers |-> "absent"]
    /\ current = [w \in Workers |-> NoTask]
    /\ pc = "idle"
    /\ index = 0
    /\ accepted = << >>
    /\ taken = << >>
    /\ promised = 0

-----------------------------------------------------------------------------
(* ThreadPool::init.  A call with n <= 0, or a second call, returns at      *)
(* once and changes nothing.                                                *)

InitPool(n) ==
    /\ pc = "idle"
    /\ ~initialized
    /\ n > 0
    /\ active_worker_count' = IF n > MAX_WORKERS THEN MAX_WORKERS ELSE n
    /\ index' = 0
    /\ pc' = "spawning"
    /\ UNCHANGED <<ring, workerV, shutdown_flag, initialized, accepted, taken, promised>>

CreateWorker ==
    /\ pc = "spawning"
    /\ index < active_worker_count
    /\ thread' = [thread EXCEPT ![index] = "running"]
    /\ index' = index + 1
    /\ UNCHANGED <<ring, shutdown_flag, initialized, active_worker_count, current,
                   pc, accepted, taken, promised>>

(* pthread_create fails: the count, which is also the bound of the loop,    *)
(* is decremented and the loop moves on to the next slot.                   *)
CreateWorkerFails ==
    /\ pc = "spawning"
    /\ index < active_worker_count
    /\ CreateMayFail
    /\ active_worker_count' = active_worker_count - 1
    /\ index' = index + 1
    /\ UNCHANGED <<ring, workerV, shutdown_flag, initialized, pc, accepted, taken, promised>>

InitDone ==
    /\ pc = "spawning"
    /\ index >= active_worker_count
    /\ initialized' = TRUE
    /\ pc' = "up"
    /\ UNCHANGED <<ring, workerV, shutdown_flag, active_worker_count, index,
                   accepted, taken, promised>>

-----------------------------------------------------------------------------
(* ThreadPool::submit, called from any thread at any time, even before init *)
(* and after shutdown.  When the queue is full it returns false and changes *)
(* nothing.  A connection that was accepted is not submitted again.         *)

(* pthread_cond_signal: one of the sleeping workers, if there is any.       *)
SignalOne_Forgotten == UNCHANGED thread

SignalOne ==
    \/ /\ In("waiting") = {}
       /\ UNCHANGED thread
    \/ \E w \in In("waiting") : thread' = [thread EXCEPT ![w] = "running"]

Submit(t) ==
    /\ Alive
    /\ \A k \in 1 .. Len(accepted) : accepted[k] # t
    /\ ~Full
    /\ task_queue' = [task_queue EXCEPT ![queue_tail] = t]
    /\ queue_tail' = Advance(queue_tail)
    /\ task_count' = task_count + 1
    /\ SignalOne
    /\ accepted' = Append(accepted, t)
    /\ UNCHANGED <<queue_head, shutdown_flag, superV, current, taken, promised>>

-----------------------------------------------------------------------------
(* ThreadPool::worker_routine *)

Dequeue(w) ==
    /\ Alive
    /\ thread[w] = "running"
    /\ task_count # 0
    /\ current' = [current EXCEPT ![w] = task_queue[queue_head]]
    /\ queue_head' = HeadAfterDequeue
    /\ task_count' = task_count - 1
    /\ thread' = [thread EXCEPT ![w] = "busy"]
    /\ taken' = Append(taken, task_queue[queue_head])
    /\ UNCHANGED <<task_queue, queue_tail, shutdown_flag, superV, accepted, promised>>

Wait(w) ==
    /\ Alive
    /\ thread[w] = "running"
    /\ MayWait
    /\ thread' = [thread EXCEPT ![w] = "waiting"]
    /\ UNCHANGED <<ring, shutdown_flag, superV, current, accepted, taken, promised>>

Exit(w) ==
    /\ Alive
    /\ thread[w] = "running"
    /\ MayExit
    /\ thread' = [thread EXCEPT ![w] = "exited"]
    /\ UNCHANGED <<ring, shutdown_flag, superV, current, accepted, taken, promised>>

(* Worker::process_task returns: the client hung up or logged out, or an    *)
(* exception was caught.                                                    *)
Finish(w) ==
    /\ Alive
    /\ thread[w] = "busy"
    /\ thread' = [thread EXCEPT ![w] = "running"]
    /\ current' = [current EXCEPT ![w] = NoTask]
    /\ UNCHANGED <<ring, shutdown_flag, superV, accepted, taken, promised>>

(* POSIX allows pthread_cond_wait to return without a signal.               *)
SpuriousWakeup(w) ==
    /\ Alive
    /\ thread[w] = "waiting"
    /\ thread' = [thread EXCEPT ![w] = "running"]
    /\ UNCHANGED <<ring, shutdown_flag, superV, current, accepted, taken, promised>>

-----------------------------------------------------------------------------
(* ThreadPool::shutdown, which the scheduler calls when it drains, whether  *)
(* or not init was called.                                                  *)

SetShutdownFlag ==
    /\ pc \in {"idle", "up"}
    /\ shutdown_flag' = TRUE
    /\ promised' = Len(accepted)
    /\ pc' = "flagged"
    /\ UNCHANGED <<ring, workerV, initialized, active_worker_count, index, accepted, taken>>

WokenByBroadcast_Nobody == {}
WokenByBroadcast == In("waiting")

Broadcast ==
    /\ pc = "flagged"
    /\ thread' = [w \in Workers |-> IF w \in WokenByBroadcast THEN "running" ELSE thread[w]]
    /\ index' = 0
    /\ pc' = "joining"
    /\ UNCHANGED <<ring, current, shutdown_flag, initialized, active_worker_count,
                   accepted, taken, promised>>

(* pthread_join(workers[index]): returns when that thread has exited.       *)
JoinWorker ==
    /\ pc = "joining"
    /\ index < active_worker_count
    /\ thread[index] = "exited"
    /\ index' = index + 1
    /\ UNCHANGED <<ring, workerV, shutdown_flag, initialized, active_worker_count,
                   pc, accepted, taken, promised>>

(* pthread_join on a slot whose pthread_create failed: the pool is a static *)
(* object, so the slot is zero and pthread_join follows a null pointer.     *)
JoinHole ==
    /\ pc = "joining"
    /\ index < active_worker_count
    /\ thread[index] = "absent"
    /\ pc' = "crashed"
    /\ UNCHANGED <<ring, workerV, shutdown_flag, initialized, active_worker_count,
                   index, accepted, taken, promised>>

ShutdownDone ==
    /\ pc = "joining"
    /\ index >= active_worker_count
    /\ pc' = "done"
    /\ UNCHANGED <<ring, workerV, shutdown_flag, initialized, active_worker_count,
                   index, accepted, taken, promised>>

-----------------------------------------------------------------------------
WorkerStep(w) ==
    \/ Dequeue(w)
    \/ Wait(w)
    \/ Exit(w)

SupervisorStep ==
    \/ CreateWorker
    \/ CreateWorkerFails
    \/ InitDone
    \/ Broadcast
    \/ JoinWorker
    \/ JoinHole
    \/ ShutdownDone

(* The pool has been shut down, or the process has died.                    *)
Stopped ==
    /\ pc \in {"done", "crashed"}
    /\ UNCHANGED vars

Next ==
    \/ \E n \in InitArgs : InitPool(n)
    \/ \E t \in Tasks : Submit(t)
    \/ \E w \in Workers : WorkerStep(w) \/ Finish(w) \/ SpuriousWakeup(w)
    \/ SetShutdownFlag
    \/ SupervisorStep
    \/ Stopped

(* Every thread that can take a step of the pool's own code takes it.  That *)
(* a client hangs up (Finish), that anybody submits, and that anybody calls *)
(* init or shutdown is not assumed.                                         *)
Fairness ==
    /\ \A w \in Workers : WF_vars(WorkerStep(w))
    /\ WF_vars(SupervisorStep)

Spec     == Init /\ [][Next]_vars
FairSpec == Spec /\ Fairness

-----------------------------------------------------------------------------
TypeOK ==
    /\ task_queue \in [Slots -> Tasks \cup {NoTask}]
    /\ queue_head \in Slots
    /\ queue_tail \in Slots
    /\ task_count \in 0 .. QUEUE_CAPACITY
    /\ shutdown_flag \in BOOLEAN
    /\ initialized \in BOOLEAN
    /\ active_worker_count \in 0 .. MAX_WORKERS
    /\ thread \in [Workers -> ThreadStates]
    /\ current \in [Workers -> Tasks \cup {NoTask}]
    /\ pc \in {"idle", "spawning", "up", "flagged", "joining", "done", "crashed"}
    /\ index \in 0 .. MAX_WORKERS
    /\ accepted \in Seq(Tasks)
    /\ taken \in Seq(Tasks \cup {NoTask})
    /\ promised \in Nat

(* The tasks in the buffer, oldest first.                                   *)
Buffered ==
    [k \in 1 .. task_count |-> task_queue[(queue_head + k - 1) % QUEUE_CAPACITY]]

(* No accepted task is lost, duplicated or overtaken: what the workers have *)
(* dequeued, followed by what is still in the ring buffer, is exactly what  *)
(* submit accepted.  It goes wrong if head, tail and count ever disagree,   *)
(* at the wrap-around or when the buffer is full.                           *)
DeliveredInOrder == accepted = taken \o Buffered

(* Two workers never serve the same client connection.                      *)
OneWorkerPerTask ==
    \A v, w \in Workers : v # w /\ current[v] # NoTask => current[v] # current[w]

(* No worker leaves while a task accepted before the shutdown is waiting:   *)
(* the pool finishes what it promised before its first thread exits.        *)
DrainedBeforeExit == In("exited") # {} => Len(taken) >= promised

(* No wake-up is lost: while some worker sleeps, there are at least as many *)
(* workers on their way to the queue as there are tasks in it.              *)
NoLostWakeup == In("waiting") # {} => Cardinality(In("running")) >= task_count

(* Once the broadcast of shutdown is over nobody sleeps, so the joins can   *)
(* only be held up by clients.                                              *)
NobodySleepsThroughShutdown ==
    pc \in {"joining", "done"} => In("waiting") = {}

-----------------------------------------------------------------------------
(* What the client side would have to do for the pool to make progress:     *)
(* nobody keeps a connection open for ever.                                 *)
ClientsHangUp == \A w \in Workers : []<>(thread[w] # "busy")

(* shutdown returns, provided that clients hang up, or crashes on a slot     *)
(* whose thread was never created.                                          *)
ShutdownCompletes == ClientsHangUp => (pc = "flagged" ~> pc \in {"done", "crashed"})

(* A task accepted before shutdown by a pool with at least one thread        *)
(* reaches a worker, even if shutdown is called meanwhile, provided clients  *)
(* hang up.                                                                 *)
AcceptedIsServed ==
    ClientsHangUp =>
        \A t \in Tasks :
            (/\ pc \in {"spawning", "up"}
             /\ In("absent") # Workers
             /\ \E k \in 1 .. Len(accepted) : accepted[k] = t)
            ~> (pc = "crashed" \/ \E k \in 1 .. Len(taken) : taken[k] = t)

(* The ring buffer and its workers implement the bounded queue.             *)
Abstract == INSTANCE TaskQueue
    WITH Capacity <- QUEUE_CAPACITY, queue <- Buffered, handed <- taken

ImplementsTaskQueue == Abstract!Spec
=============================================================================
