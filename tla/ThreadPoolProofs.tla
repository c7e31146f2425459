-------------------------- MODULE ThreadPoolProofs --------------------------
(***************************************************************************)
(* Proofs about ThreadPool, for every size of the pool and of its buffer.  *)
(***************************************************************************)
EXTENDS ThreadPool, SequenceTheorems, FiniteSetTheorems, TLAPS

(* Arithmetic of the ring: the three places a slot number is computed.      *)
LEMMA RingArithmetic ==
    /\ \A s \in Int : s % QUEUE_CAPACITY \in Slots
    /\ \A s \in Slots : Advance(s) \in Slots
    /\ \A s \in Slots : Advance(s) = IF s + 1 = QUEUE_CAPACITY THEN 0 ELSE s + 1
    /\ \A s \in Slots, k \in 0 .. QUEUE_CAPACITY :
           (s + k) % QUEUE_CAPACITY =
               IF s + k < QUEUE_CAPACITY THEN s + k ELSE s + k - QUEUE_CAPACITY
<1> DEFINE N == QUEUE_CAPACITY
<1>1. N \in Nat \ {0}
  BY PoolAssumption
<1> HIDE DEF N
<1>2. \A s \in Int : s % N \in 0 .. N - 1
  BY <1>1
<1>3. \A s \in 0 .. N - 1 : (s + 1) % N = IF s + 1 = N THEN 0 ELSE s + 1
  BY <1>1
<1>4. \A s \in 0 .. N - 1 : s + 1 \in Int
  BY <1>1
<1>5. \A s \in 0 .. N - 1, k \in 0 .. N :
          (s + k) % N = IF s + k < N THEN s + k ELSE s + k - N
  BY <1>1
<1>6. QED
  BY <1>2, <1>3, <1>4, <1>5 DEF N, Slots, Advance

LEMMA TypeInit == Init => TypeOK
BY PoolAssumption DEF Init, TypeOK, Workers, Slots, ThreadStates

LEMMA TypeStep == TypeOK /\ [Next]_vars => TypeOK'
<1> SUFFICES ASSUME TypeOK, [Next]_vars
             PROVE  TypeOK'
  OBVIOUS
<1> USE PoolAssumption DEF TypeOK, Workers, Slots, ThreadStates
<1> USE DEF ring, workerV, superV
<1>1. ASSUME NEW n \in InitArgs, InitPool(n)
      PROVE  TypeOK'
  BY <1>1 DEF InitPool
<1>2. ASSUME NEW t \in Tasks, Submit(t)
      PROVE  TypeOK'
  <2>0. queue_tail' \in Slots
    <3>1. queue_tail' = Advance(queue_tail)
      BY <1>2 DEF Submit
    <3>2. Advance(queue_tail) \in Slots
      BY RingArithmetic
    <3>3. QED
      BY <3>1, <3>2
  <2>1. task_queue' \in [Slots -> Tasks \cup {NoTask}]
    BY <1>2 DEF Submit
  <2>2. task_count' \in 0 .. QUEUE_CAPACITY
    BY <1>2 DEF Submit, Full
  <2>3. thread' \in [Workers -> ThreadStates]
    BY <1>2 DEF Submit, SignalOne, In
  <2>4. accepted' \in Seq(Tasks)
    BY <1>2 DEF Submit
  <2>5. QED
    BY <1>2, <2>0, <2>1, <2>2, <2>3, <2>4 DEF Submit
<1>3. ASSUME NEW w \in Workers, Dequeue(w)
      PROVE  TypeOK'
  BY <1>3 DEF Dequeue, HeadAfterDequeue, Advance
<1>4. ASSUME NEW w \in Workers, Wait(w) \/ Exit(w) \/ Finish(w) \/ SpuriousWakeup(w)
      PROVE  TypeOK'
  BY <1>4 DEF Wait, Exit, Finish, SpuriousWakeup
<1>5. CASE SetShutdownFlag
  BY <1>5 DEF SetShutdownFlag
<1>6. CASE CreateWorker
  BY <1>6 DEF CreateWorker
<1>7. CASE CreateWorkerFails
  BY <1>7 DEF CreateWorkerFails
<1>8. CASE Broadcast
  BY <1>8 DEF Broadcast
<1>9. CASE InitDone
  BY <1>9 DEF InitDone
<1>10. CASE JoinWorker
  BY <1>10 DEF JoinWorker
<1>11. CASE JoinHole \/ ShutdownDone
  BY <1>11 DEF JoinHole, ShutdownDone
<1>12. CASE Stopped \/ UNCHANGED vars
  BY <1>12 DEF Stopped, vars
<1>13. QED
  BY <1>1, <1>2, <1>3, <1>4, <1>5, <1>6, <1>7, <1>8, <1>9, <1>10, <1>11, <1>12
  DEF Next, WorkerStep, SupervisorStep

(* Every reachable state is well typed; in particular the two indices stay  *)
(* inside the buffer and the count between 0 and QUEUE_CAPACITY, and the    *)
(* loops of init and shutdown stay inside workers[] even though init        *)
(* decrements its own bound.                                                *)
THEOREM TypeCorrect == Spec => []TypeOK
BY TypeInit, TypeStep, PTL DEF Spec

-----------------------------------------------------------------------------
(* Moving the head of one sequence to the end of another leaves their       *)
(* concatenation as it was.                                                 *)
LEMMA MoveHead ==
  ASSUME NEW S, NEW s \in Seq(S), NEW r \in Seq(S), r # << >>
  PROVE  Append(s, Head(r)) \o Tail(r) = s \o r
<1>1. Head(r) \in S /\ Tail(r) \in Seq(S) /\ <<Head(r)>> \in Seq(S)
  BY HeadTailProperties
<1>2. Append(s, Head(r)) = s \o <<Head(r)>>
  BY <1>1, AppendIsConcat
<1>3. r = <<Head(r)>> \o Tail(r)
  <2>1. /\ Len(Tail(r)) = Len(r) - 1 /\ Len(r) \in Nat
        /\ \A i \in 1 .. Len(r) - 1 : Tail(r)[i] = r[i + 1]
    BY HeadTailProperties
  <2>2. /\ <<Head(r)>> \o Tail(r) \in Seq(S)
        /\ Len(<<Head(r)>> \o Tail(r)) = Len(r)
        /\ \A i \in 1 .. Len(r) :
              (<<Head(r)>> \o Tail(r))[i] = IF i <= 1 THEN <<Head(r)>>[i] ELSE Tail(r)[i - 1]
    BY <1>1, <2>1, ConcatProperties
  <2>3. \A i \in 1 .. Len(r) : r[i] = (<<Head(r)>> \o Tail(r))[i]
    BY <2>1, <2>2
  <2>4. QED
    BY <2>2, <2>3, SeqEqual
<1>4. QED
  BY <1>1, <1>2, <1>3, ConcatAssociative

-----------------------------------------------------------------------------
(* head, tail and count agree: the first free slot is count slots after the *)
(* head.  Without it a submit could overwrite a task that is still queued.  *)
RingOK == queue_tail = (queue_head + task_count) % QUEUE_CAPACITY

BufferedOK ==
    /\ Buffered \in Seq(Tasks \cup {NoTask})
    /\ Len(Buffered) = task_count

LEMMA BufferedIsSeq == TypeOK => BufferedOK
<1> SUFFICES ASSUME TypeOK PROVE BufferedOK
  OBVIOUS
<1>1. \A k \in 1 .. task_count : (queue_head + k - 1) % QUEUE_CAPACITY \in Slots
  <2> TAKE k \in 1 .. task_count
  <2>1. queue_head + k - 1 \in Int
    BY PoolAssumption DEF TypeOK, Slots
  <2>2. QED
    BY <2>1, RingArithmetic
<1>2. \A k \in 1 .. task_count :
          task_queue[(queue_head + k - 1) % QUEUE_CAPACITY] \in Tasks \cup {NoTask}
  BY <1>1 DEF TypeOK
<1>3. task_count \in Nat
  BY PoolAssumption DEF TypeOK
<1>4. QED
  BY <1>2, <1>3 DEF BufferedOK, Buffered

(* A submit adds its task at the end of the buffer and disturbs no other.   *)
LEMMA SubmitAppends ==
  ASSUME TypeOK, RingOK, NEW t \in Tasks, Submit(t)
  PROVE  /\ RingOK'
         /\ Len(Buffered) < QUEUE_CAPACITY
         /\ Buffered' = Append(Buffered, t)
<1> DEFINE Slot(k) == (queue_head + k - 1) % QUEUE_CAPACITY
<1>1. /\ queue_head \in Slots /\ task_count \in Nat /\ task_count + 1 <= QUEUE_CAPACITY
      /\ QUEUE_CAPACITY \in Nat \ {0}
  BY PoolAssumption DEF TypeOK, Submit, Full
<1>2. /\ task_queue' = [task_queue EXCEPT ![queue_tail] = t]
      /\ queue_head' = queue_head /\ task_count' = task_count + 1
      /\ queue_tail' = Advance(queue_tail)
  BY DEF Submit
<1>3. queue_tail = Slot(task_count + 1) /\ queue_tail \in Slots
  BY <1>1 DEF RingOK, TypeOK
<1>4. \A k \in 1 .. task_count + 1 :
          Slot(k) = IF queue_head + (k - 1) < QUEUE_CAPACITY THEN queue_head + (k - 1)
                    ELSE queue_head + (k - 1) - QUEUE_CAPACITY
  <2> TAKE k \in 1 .. task_count + 1
  <2>1. k - 1 \in 0 .. QUEUE_CAPACITY /\ queue_head + k - 1 = queue_head + (k - 1)
    BY <1>1 DEF Slots
  <2>2. QED
    BY <1>1, <2>1, RingArithmetic
<1> HIDE DEF Slot
<1>5. \A k \in 1 .. task_count : Slot(k) \in Slots /\ Slot(k) # queue_tail
  BY <1>1, <1>3, <1>4 DEF Slots
<1>6. \A k \in 1 .. task_count : task_queue'[Slot(k)] = task_queue[Slot(k)]
  BY <1>2, <1>5 DEF TypeOK
<1>7. task_queue'[Slot(task_count + 1)] = t
  BY <1>2, <1>3 DEF TypeOK
<1>8. Buffered' = [k \in 1 .. task_count + 1 |-> task_queue'[Slot(k)]]
  BY <1>2 DEF Buffered, Slot
<1>9. Buffered = [k \in 1 .. task_count |-> task_queue[Slot(k)]]
  BY DEF Buffered, Slot
<1>10. Buffered \in Seq(Tasks \cup {NoTask}) /\ Len(Buffered) = task_count
  BY BufferedIsSeq DEF BufferedOK
<1>11. /\ Append(Buffered, t) \in Seq(Tasks \cup {NoTask})
       /\ Len(Append(Buffered, t)) = task_count + 1
       /\ \A k \in 1 .. task_count : Append(Buffered, t)[k] = Buffered[k]
       /\ Append(Buffered, t)[task_count + 1] = t
  BY <1>1, <1>10, AppendProperties
<1>12. \A k \in 1 .. task_count + 1 : Buffered'[k] = Append(Buffered, t)[k]
  BY <1>1, <1>6, <1>7, <1>8, <1>9, <1>11
<1>13. Buffered' = Append(Buffered, t)
  <2>1. TypeOK'
    BY TypeStep DEF Next
  <2>2. TypeOK' => BufferedOK'
    BY BufferedIsSeq, PTL
  <2>3. Buffered' \in Seq(Tasks \cup {NoTask}) /\ Len(Buffered') = task_count + 1
    BY <1>2, <2>1, <2>2 DEF BufferedOK
  <2>4. QED
    BY <1>11, <1>12, <2>3, SeqEqual
<1>14. RingOK'
  <2>1. queue_tail' = IF queue_tail + 1 = QUEUE_CAPACITY THEN 0 ELSE queue_tail + 1
    BY <1>2, <1>3, RingArithmetic
  <2>2. queue_tail = IF queue_head + task_count < QUEUE_CAPACITY
                     THEN queue_head + task_count
                     ELSE queue_head + task_count - QUEUE_CAPACITY
    BY <1>1, <1>3, <1>4
  <2>3. (queue_head + (task_count + 1)) % QUEUE_CAPACITY =
            IF queue_head + (task_count + 1) < QUEUE_CAPACITY
            THEN queue_head + (task_count + 1)
            ELSE queue_head + (task_count + 1) - QUEUE_CAPACITY
    <3>1. task_count + 1 \in 0 .. QUEUE_CAPACITY
      BY <1>1
    <3>2. QED
      BY <1>1, <3>1, RingArithmetic
  <2>4. queue_tail' = (queue_head + (task_count + 1)) % QUEUE_CAPACITY
    BY <1>1, <2>1, <2>2, <2>3 DEF Slots
  <2>5. QED
    BY <1>2, <2>4 DEF RingOK
<1>15. QED
  BY <1>1, <1>10, <1>13, <1>14

(* A dequeue removes the oldest task of the buffer and hands out that task. *)
LEMMA DequeueTakesHead ==
  ASSUME TypeOK, RingOK, NEW w \in Workers, Dequeue(w)
  PROVE  /\ RingOK'
         /\ Buffered # << >>
         /\ Buffered' = Tail(Buffered)
         /\ Head(Buffered) = task_queue[queue_head]
         /\ taken' = Append(taken, Head(Buffered))
<1> DEFINE Slot(h, k) == (h + k - 1) % QUEUE_CAPACITY
<1>1. /\ queue_head \in Slots /\ task_count \in 1 .. QUEUE_CAPACITY
      /\ QUEUE_CAPACITY \in Nat \ {0}
  BY PoolAssumption DEF TypeOK, Dequeue
<1>2. /\ task_queue' = task_queue /\ queue_tail' = queue_tail
      /\ queue_head' = Advance(queue_head) /\ task_count' = task_count - 1
      /\ taken' = Append(taken, task_queue[queue_head])
  BY DEF Dequeue, HeadAfterDequeue
<1>3. queue_head' = (IF queue_head + 1 = QUEUE_CAPACITY THEN 0 ELSE queue_head + 1)
  BY <1>1, <1>2, RingArithmetic
<1>4. queue_head' \in Slots
  BY <1>1, <1>2, RingArithmetic
<1>5. \A h \in Slots, j \in 0 .. QUEUE_CAPACITY :
          (h + j) % QUEUE_CAPACITY =
              IF h + j < QUEUE_CAPACITY THEN h + j ELSE h + j - QUEUE_CAPACITY
  BY RingArithmetic
<1>6. \A k \in 1 .. task_count - 1 : Slot(queue_head', k) = Slot(queue_head, k + 1)
  <2> TAKE k \in 1 .. task_count - 1
  <2>1. /\ k - 1 \in 0 .. QUEUE_CAPACITY /\ queue_head' + k - 1 = queue_head' + (k - 1)
        /\ k \in 0 .. QUEUE_CAPACITY /\ queue_head + (k + 1) - 1 = queue_head + k
    BY <1>1, <1>4 DEF Slots
  <2>2. Slot(queue_head', k) = IF queue_head' + (k - 1) < QUEUE_CAPACITY
                               THEN queue_head' + (k - 1)
                               ELSE queue_head' + (k - 1) - QUEUE_CAPACITY
    BY <1>4, <1>5, <2>1
  <2>3. Slot(queue_head, k + 1) = IF queue_head + k < QUEUE_CAPACITY THEN queue_head + k
                                  ELSE queue_head + k - QUEUE_CAPACITY
    BY <1>1, <1>5, <2>1
  <2> HIDE DEF Slot
  <2>4. QED
    BY <1>1, <1>3, <2>1, <2>2, <2>3 DEF Slots
<1>7. Slot(queue_head, 1) = queue_head
  <2>1. queue_head + 1 - 1 = queue_head + 0 /\ 0 \in 0 .. QUEUE_CAPACITY
    BY <1>1 DEF Slots
  <2>2. (queue_head + 0) % QUEUE_CAPACITY =
            IF queue_head + 0 < QUEUE_CAPACITY THEN queue_head + 0
            ELSE queue_head + 0 - QUEUE_CAPACITY
    BY <1>1, <1>5, <2>1
  <2>3. QED
    BY <1>1, <2>1, <2>2 DEF Slots
<1>8. RingOK'
  <2>1. (queue_head' + (task_count - 1)) % QUEUE_CAPACITY =
            IF queue_head' + (task_count - 1) < QUEUE_CAPACITY
            THEN queue_head' + (task_count - 1)
            ELSE queue_head' + (task_count - 1) - QUEUE_CAPACITY
    BY <1>1, <1>4, <1>5
  <2>2. (queue_head + task_count) % QUEUE_CAPACITY =
            IF queue_head + task_count < QUEUE_CAPACITY THEN queue_head + task_count
            ELSE queue_head + task_count - QUEUE_CAPACITY
    BY <1>1, <1>5
  <2>3. queue_tail = (queue_head' + (task_count - 1)) % QUEUE_CAPACITY
    BY <1>1, <1>3, <2>1, <2>2 DEF RingOK, Slots
  <2>4. QED
    BY <1>2, <2>3 DEF RingOK
<1> HIDE DEF Slot
<1>9. Buffered' = [k \in 1 .. task_count - 1 |-> task_queue[Slot(queue_head', k)]]
  BY <1>2 DEF Buffered, Slot
<1>10. Buffered = [k \in 1 .. task_count |-> task_queue[Slot(queue_head, k)]]
  BY DEF Buffered, Slot
<1>11. Buffered \in Seq(Tasks \cup {NoTask}) /\ Len(Buffered) = task_count
  BY BufferedIsSeq DEF BufferedOK
<1>12. Buffered # << >>
  BY <1>1, <1>11
<1>13. /\ Tail(Buffered) \in Seq(Tasks \cup {NoTask})
       /\ Len(Tail(Buffered)) = task_count - 1
       /\ \A k \in 1 .. task_count - 1 : Tail(Buffered)[k] = Buffered[k + 1]
  BY <1>11, <1>12, HeadTailProperties
<1>14. Buffered' = Tail(Buffered)
  <2>1. TypeOK'
    BY TypeStep DEF Next, WorkerStep
  <2>2. TypeOK' => BufferedOK'
    BY BufferedIsSeq, PTL
  <2>3. Buffered' \in Seq(Tasks \cup {NoTask}) /\ Len(Buffered') = task_count - 1
    BY <1>2, <2>1, <2>2 DEF BufferedOK
  <2>4. \A k \in 1 .. task_count - 1 : Buffered'[k] = Tail(Buffered)[k]
    BY <1>1, <1>6, <1>9, <1>10, <1>13
  <2>5. QED
    BY <1>13, <2>3, <2>4, SeqEqual
<1>15. Head(Buffered) = task_queue[queue_head]
  BY <1>1, <1>7, <1>10, <1>11
<1>16. QED
  BY <1>2, <1>8, <1>12, <1>14, <1>15

-----------------------------------------------------------------------------
(* Delivery and refinement.                                                 *)

QueueInv == TypeOK /\ RingOK /\ DeliveredInOrder

(* Every step but a submit and a dequeue leaves the ring and the histories  *)
(* of what went in and came out alone.                                      *)
LEMMA QuietSteps ==
  ASSUME [Next]_vars,
         \A t \in Tasks : ~Submit(t),
         \A w \in Workers : ~Dequeue(w)
  PROVE  UNCHANGED <<task_queue, queue_head, queue_tail, task_count, accepted, taken>>
<1> USE DEF ring, workerV, superV
<1>1. ASSUME NEW n \in InitArgs, InitPool(n)
      PROVE  UNCHANGED <<ring, accepted, taken>>
  BY <1>1 DEF InitPool
<1>2. ASSUME NEW w \in Workers, Wait(w) \/ Exit(w) \/ Finish(w) \/ SpuriousWakeup(w)
      PROVE  UNCHANGED <<ring, accepted, taken>>
  BY <1>2 DEF Wait, Exit, Finish, SpuriousWakeup
<1>3. CASE SetShutdownFlag
  BY <1>3 DEF SetShutdownFlag
<1>4. CASE SupervisorStep
  BY <1>4 DEF SupervisorStep, CreateWorker, CreateWorkerFails, InitDone, Broadcast,
              JoinWorker, JoinHole, ShutdownDone
<1>5. CASE Stopped \/ UNCHANGED vars
  BY <1>5 DEF Stopped, vars
<1>6. QED
  BY <1>1, <1>2, <1>3, <1>4, <1>5 DEF Next, WorkerStep

LEMMA QueueInit == Init => QueueInv
<1> SUFFICES ASSUME Init PROVE QueueInv
  OBVIOUS
<1>1. TypeOK
  BY TypeInit
<1>2. RingOK
  <2>1. (0 + 0) % QUEUE_CAPACITY = 0
    BY PoolAssumption
  <2>2. QED
    BY <2>1 DEF Init, RingOK
<1>3. Buffered = << >>
  <2>1. Buffered \in Seq(Tasks \cup {NoTask}) /\ Len(Buffered) = 0
    BY <1>1, BufferedIsSeq DEF BufferedOK, Init
  <2>2. QED
    BY <2>1, EmptySeq
<1>4. << >> \o << >> = << >>
  BY EmptySeq, ConcatEmptySeq
<1>5. QED
  BY <1>1, <1>2, <1>3, <1>4 DEF QueueInv, DeliveredInOrder, Init

LEMMA QueueStep == QueueInv /\ [Next]_vars => QueueInv'
<1> DEFINE S == Tasks \cup {NoTask}
<1> SUFFICES ASSUME QueueInv, [Next]_vars PROVE QueueInv'
  OBVIOUS
<1>1. TypeOK /\ RingOK /\ accepted = taken \o Buffered
  BY DEF QueueInv, DeliveredInOrder
<1>2. TypeOK'
  BY <1>1, TypeStep
<1>3. taken \in Seq(S) /\ Buffered \in Seq(S)
  BY <1>1, BufferedIsSeq DEF BufferedOK, TypeOK
<1>4. ASSUME NEW t \in Tasks, Submit(t)
      PROVE  QueueInv'
  <2>1. RingOK' /\ Buffered' = Append(Buffered, t)
    BY <1>1, <1>4, SubmitAppends
  <2>2. accepted' = Append(accepted, t) /\ taken' = taken
    BY <1>4 DEF Submit
  <2>3. Append(taken \o Buffered, t) = taken \o Append(Buffered, t)
    <3>1. t \in S
      OBVIOUS
    <3> HIDE DEF S
    <3>2. taken \o Buffered \in Seq(S) /\ Append(Buffered, t) \in Seq(S) /\ <<t>> \in Seq(S)
      BY <1>3, <3>1, ConcatProperties
    <3>3. /\ Append(Buffered, t) = Buffered \o <<t>>
          /\ Append(taken \o Buffered, t) = (taken \o Buffered) \o <<t>>
      BY <1>3, <3>1, <3>2, AppendIsConcat
    <3>4. QED
      BY <1>3, <3>2, <3>3, ConcatAssociative
  <2>4. QED
    BY <1>1, <1>2, <2>1, <2>2, <2>3 DEF QueueInv, DeliveredInOrder
<1>5. ASSUME NEW w \in Workers, Dequeue(w)
      PROVE  QueueInv'
  <2>1. /\ RingOK'
        /\ Buffered # << >>
        /\ Buffered' = Tail(Buffered)
        /\ taken' = Append(taken, Head(Buffered))
    BY <1>1, <1>5, DequeueTakesHead
  <2>2. accepted' = accepted
    BY <1>5 DEF Dequeue
  <2>3. Append(taken, Head(Buffered)) \o Tail(Buffered) = taken \o Buffered
    BY <1>3, <2>1, MoveHead
  <2>4. QED
    BY <1>1, <1>2, <2>1, <2>2, <2>3 DEF QueueInv, DeliveredInOrder
<1>6. ASSUME \A t \in Tasks : ~Submit(t), \A w \in Workers : ~Dequeue(w)
      PROVE  QueueInv'
  BY <1>1, <1>2, <1>6, QuietSteps DEF QueueInv, RingOK, DeliveredInOrder, Buffered
<1>7. QED
  BY <1>4, <1>5, <1>6

LEMMA QueueInvariant == Spec => []QueueInv
BY QueueInit, QueueStep, PTL DEF Spec

(* What the workers dequeued, followed by what the buffer still holds, is   *)
(* exactly what submit accepted, in order: nothing is lost, overwritten or  *)
(* overtaken, whatever the size of the buffer and however often it wraps.   *)
THEOREM DeliveryCorrect == Spec => []DeliveredInOrder
BY QueueInvariant, PTL DEF QueueInv

(* The ring buffer, its mutex and its condition variable are a bounded      *)
(* first-in first-out queue to the code around them.                        *)
THEOREM Refinement == Spec => ImplementsTaskQueue
<1>1. Init => Abstract!Init
  <2> SUFFICES ASSUME Init PROVE Abstract!Init
    OBVIOUS
  <2>1. Buffered \in Seq(Tasks \cup {NoTask}) /\ Len(Buffered) = 0
    BY TypeInit, BufferedIsSeq DEF BufferedOK, Init
  <2>2. QED
    BY <2>1, EmptySeq DEF Init, Abstract!Init
<1>2. QueueInv /\ [Next]_vars => [Abstract!Next]_(Abstract!queueVars)
  <2> SUFFICES ASSUME QueueInv, [Next]_vars
               PROVE  Abstract!Next \/ UNCHANGED Abstract!queueVars
    BY DEF Abstract!queueVars
  <2>1. TypeOK /\ RingOK
    BY DEF QueueInv
  <2>2. ASSUME NEW t \in Tasks, Submit(t)
        PROVE  Abstract!Next
    <3>1. Len(Buffered) < QUEUE_CAPACITY /\ Buffered' = Append(Buffered, t)
      BY <2>1, <2>2, SubmitAppends
    <3>2. taken' = taken
      BY <2>2 DEF Submit
    <3>3. QED
      BY <3>1, <3>2 DEF Abstract!Next, Abstract!Accept
  <2>3. ASSUME NEW w \in Workers, Dequeue(w)
        PROVE  Abstract!Next
    BY <2>1, <2>3, DequeueTakesHead DEF Abstract!Next, Abstract!HandOver
  <2>4. ASSUME \A t \in Tasks : ~Submit(t), \A w \in Workers : ~Dequeue(w)
        PROVE  UNCHANGED Abstract!queueVars
    BY <2>4, QuietSteps DEF Abstract!queueVars, Buffered
  <2>5. QED
    BY <2>2, <2>3, <2>4
<1>3. QED
  BY <1>1, <1>2, QueueInvariant, PTL DEF Spec, ImplementsTaskQueue, Abstract!Spec

-----------------------------------------------------------------------------
(* Shutdown.                                                                *)

(* The flag tells how far shutdown has come; a thread exits only after the  *)
(* flag is set; promised never runs ahead of what was accepted; and what    *)
(* was promised when the first thread left had all been dequeued.           *)
ShutdownInv ==
    /\ shutdown_flag <=> pc \in {"flagged", "joining", "done", "crashed"}
    /\ In("exited") # {} => shutdown_flag
    /\ promised <= Len(accepted)
    /\ DrainedBeforeExit
    /\ NobodySleepsThroughShutdown

LEMMA ShutdownInit == Init => ShutdownInv
<1> SUFFICES ASSUME Init PROVE ShutdownInv
  OBVIOUS
<1>1. In("exited") = {} /\ In("waiting") = {}
  BY DEF Init, In
<1>2. promised <= Len(accepted)
  BY EmptySeq DEF Init
<1>3. QED
  BY <1>1, <1>2 DEF Init, ShutdownInv, DrainedBeforeExit, NobodySleepsThroughShutdown

(* The histories only grow, and with an empty buffer the second has caught  *)
(* up with the first.                                                       *)
LEMMA HistoriesGrow ==
  ASSUME QueueInv, [Next]_vars
  PROVE  /\ Len(accepted) \in Nat /\ Len(taken) \in Nat
         /\ Len(accepted') \in Nat /\ Len(taken') \in Nat
         /\ Len(accepted) <= Len(accepted')
         /\ Len(taken) <= Len(taken')
         /\ Len(accepted) = Len(taken) + task_count
<1>1. TypeOK /\ RingOK /\ accepted = taken \o Buffered
  BY DEF QueueInv, DeliveredInOrder
<1>2. TypeOK'
  BY <1>1, TypeStep
<1>3. /\ accepted \in Seq(Tasks) /\ taken \in Seq(Tasks \cup {NoTask})
      /\ accepted' \in Seq(Tasks) /\ taken' \in Seq(Tasks \cup {NoTask})
  BY <1>1, <1>2 DEF TypeOK
<1>4. /\ Len(accepted) \in Nat /\ Len(taken) \in Nat
      /\ Len(accepted') \in Nat /\ Len(taken') \in Nat
  BY <1>3, LenProperties
<1>5. Len(accepted) = Len(taken) + task_count
  BY <1>1, <1>3, BufferedIsSeq, ConcatProperties DEF BufferedOK
<1>6. ASSUME NEW t \in Tasks, Submit(t)
      PROVE  Len(accepted) <= Len(accepted') /\ Len(taken) <= Len(taken')
  <2>1. accepted' = Append(accepted, t) /\ taken' = taken
    BY <1>6 DEF Submit
  <2>2. Len(accepted') = Len(accepted) + 1
    BY <1>3, <2>1, AppendProperties
  <2>3. QED
    BY <1>4, <2>1, <2>2
<1>7. ASSUME NEW w \in Workers, Dequeue(w)
      PROVE  Len(accepted) <= Len(accepted') /\ Len(taken) <= Len(taken')
  <2>1. accepted' = accepted /\ taken' = Append(taken, task_queue[queue_head])
    BY <1>7 DEF Dequeue
  <2>2. task_queue[queue_head] \in Tasks \cup {NoTask}
    BY <1>1 DEF TypeOK
  <2>3. Len(taken') = Len(taken) + 1
    BY <1>3, <2>1, <2>2, AppendProperties
  <2>4. QED
    BY <1>4, <2>1, <2>3
<1>8. ASSUME \A t \in Tasks : ~Submit(t), \A w \in Workers : ~Dequeue(w)
      PROVE  Len(accepted) <= Len(accepted') /\ Len(taken) <= Len(taken')
  BY <1>4, <1>8, QuietSteps
<1>9. QED
  BY <1>4, <1>5, <1>6, <1>7, <1>8

LEMMA ShutdownStep == QueueInv /\ ShutdownInv /\ [Next]_vars => ShutdownInv'
<1> SUFFICES ASSUME QueueInv, ShutdownInv, [Next]_vars
             PROVE  ShutdownInv'
  OBVIOUS
<1> USE DEF ring, workerV, superV
<1>1. /\ Len(accepted) \in Nat /\ Len(taken) \in Nat
      /\ Len(accepted') \in Nat /\ Len(taken') \in Nat
      /\ Len(accepted) <= Len(accepted')
      /\ Len(taken) <= Len(taken')
      /\ Len(accepted) = Len(taken) + task_count
  BY HistoriesGrow
<1>2. /\ thread \in [Workers -> ThreadStates] /\ promised \in Nat
      /\ task_count \in 0 .. QUEUE_CAPACITY /\ index \in 0 .. MAX_WORKERS
      /\ QUEUE_CAPACITY \in Nat
  BY PoolAssumption DEF QueueInv, TypeOK
<1>3. ASSUME NEW n \in InitArgs, InitPool(n)
      PROVE  ShutdownInv'
  BY <1>1, <1>2, <1>3 DEF InitPool, ShutdownInv, DrainedBeforeExit,
                          NobodySleepsThroughShutdown, In
<1>4. ASSUME NEW t \in Tasks, Submit(t)
      PROVE  ShutdownInv'
  <2>1. /\ pc' = pc /\ shutdown_flag' = shutdown_flag /\ promised' = promised
        /\ In("exited")' = In("exited") /\ In("waiting")' \subseteq In("waiting")
    BY <1>2, <1>4 DEF Submit, SignalOne, In
  <2>2. QED
    BY <1>1, <1>2, <2>1 DEF ShutdownInv, DrainedBeforeExit, NobodySleepsThroughShutdown
<1>5. ASSUME NEW w \in Workers, Dequeue(w) \/ Finish(w) \/ SpuriousWakeup(w)
      PROVE  ShutdownInv'
  <2>1. /\ pc' = pc /\ shutdown_flag' = shutdown_flag /\ promised' = promised
        /\ In("exited")' = In("exited") /\ In("waiting")' \subseteq In("waiting")
    BY <1>2, <1>5 DEF Dequeue, Finish, SpuriousWakeup, In
  <2>2. QED
    BY <1>1, <1>2, <2>1 DEF ShutdownInv, DrainedBeforeExit, NobodySleepsThroughShutdown
<1>6. ASSUME NEW w \in Workers, Wait(w)
      PROVE  ShutdownInv'
  <2>1. /\ pc' = pc /\ shutdown_flag' = shutdown_flag /\ promised' = promised
        /\ In("exited")' = In("exited") /\ ~shutdown_flag
    BY <1>2, <1>6 DEF Wait, MayWait, In
  <2>2. QED
    BY <1>1, <1>2, <2>1 DEF ShutdownInv, DrainedBeforeExit, NobodySleepsThroughShutdown
<1>7. ASSUME NEW w \in Workers, Exit(w)
      PROVE  ShutdownInv'
  <2>1. /\ pc' = pc /\ shutdown_flag' = shutdown_flag /\ promised' = promised
        /\ In("waiting")' = In("waiting") /\ shutdown_flag /\ task_count = 0
    BY <1>2, <1>7 DEF Exit, MayExit, In
  <2>2. Len(taken') >= promised'
    BY <1>1, <1>2, <2>1 DEF ShutdownInv
  <2>3. QED
    BY <1>1, <1>2, <2>1, <2>2 DEF ShutdownInv, DrainedBeforeExit,
                                  NobodySleepsThroughShutdown
<1>8. CASE SetShutdownFlag
  <2>1. ~shutdown_flag /\ In("exited") = {} /\ In("exited")' = In("exited")
    BY <1>8 DEF SetShutdownFlag, ShutdownInv, In
  <2>2. QED
    BY <1>1, <1>8, <2>1 DEF SetShutdownFlag, ShutdownInv, DrainedBeforeExit,
                            NobodySleepsThroughShutdown
<1>9. CASE CreateWorker
  <2>1. /\ pc = "spawning" /\ pc' = pc /\ shutdown_flag' = shutdown_flag
        /\ promised' = promised /\ In("exited")' \subseteq In("exited")
    BY <1>2, <1>9 DEF CreateWorker, In
  <2>2. QED
    BY <1>1, <1>2, <2>1 DEF ShutdownInv, DrainedBeforeExit, NobodySleepsThroughShutdown
<1>10. CASE CreateWorkerFails \/ InitDone
  BY <1>1, <1>2, <1>10 DEF CreateWorkerFails, InitDone, ShutdownInv, DrainedBeforeExit,
                           NobodySleepsThroughShutdown, In
<1>11. CASE Broadcast
  <2>1. /\ In("waiting")' = {} /\ In("exited")' = In("exited")
        /\ pc = "flagged" /\ pc' = "joining" /\ shutdown_flag' = shutdown_flag
        /\ promised' = promised
    BY <1>2, <1>11 DEF Broadcast, WokenByBroadcast, In
  <2>2. QED
    BY <1>1, <1>2, <2>1 DEF ShutdownInv, DrainedBeforeExit, NobodySleepsThroughShutdown
<1>12. CASE JoinWorker \/ JoinHole \/ ShutdownDone
  BY <1>1, <1>2, <1>12 DEF JoinWorker, JoinHole, ShutdownDone, ShutdownInv,
                           DrainedBeforeExit, NobodySleepsThroughShutdown, In
<1>13. CASE Stopped \/ UNCHANGED vars
  BY <1>1, <1>2, <1>13 DEF Stopped, vars, ShutdownInv, DrainedBeforeExit,
                           NobodySleepsThroughShutdown, In
<1>14. QED
  BY <1>3, <1>4, <1>5, <1>6, <1>7, <1>8, <1>9, <1>10, <1>11, <1>12, <1>13
  DEF Next, WorkerStep, SupervisorStep

LEMMA ShutdownInvariant == Spec => []ShutdownInv
BY ShutdownInit, ShutdownStep, QueueInvariant, PTL DEF Spec

(* No thread of the pool exits while a task accepted before shutdown was    *)
(* called is still in the buffer.                                           *)
THEOREM DrainCorrect == Spec => []DrainedBeforeExit
BY ShutdownInvariant, PTL DEF ShutdownInv

(* After the broadcast no worker sleeps or falls asleep again, although the *)
(* flag and the broadcast are two separate critical sections.               *)
THEOREM BroadcastCorrect == Spec => []NobodySleepsThroughShutdown
BY ShutdownInvariant, PTL DEF ShutdownInv

-----------------------------------------------------------------------------
(* Wake-ups.                                                                *)

(* Sets of worker slots can be counted.                                     *)
LEMMA RunningIsFinite ==
  ASSUME NEW T \in SUBSET Workers
  PROVE  IsFiniteSet(T) /\ Cardinality(T) \in Nat
<1>1. IsFiniteSet(Workers)
  BY PoolAssumption, FS_Interval DEF Workers
<1>2. QED
  BY <1>1, FS_Subset, FS_CardinalityType

LEMMA WakeupStep == TypeOK /\ NoLostWakeup /\ [Next]_vars => NoLostWakeup'
<1> SUFFICES ASSUME TypeOK, NoLostWakeup, [Next]_vars
             PROVE  NoLostWakeup'
  OBVIOUS
<1> USE DEF ring, workerV, superV
<1>1. /\ thread \in [Workers -> ThreadStates] /\ index \in 0 .. MAX_WORKERS
      /\ task_count \in Nat
  BY PoolAssumption DEF TypeOK
<1>2. thread' \in [Workers -> ThreadStates]
  BY TypeStep DEF TypeOK
<1>3. IsFiniteSet(In("running")) /\ Cardinality(In("running")) \in Nat
  BY RunningIsFinite DEF In
<1>4. IsFiniteSet(In("running")') /\ Cardinality(In("running")') \in Nat
  <2>1. In("running")' \in SUBSET Workers
    BY DEF In
  <2>2. QED
    BY <2>1, RunningIsFinite
<1>5. ASSUME In("running") \subseteq In("running")', In("waiting")' \subseteq In("waiting"),
             task_count' = task_count
      PROVE  NoLostWakeup'
  <2>1. Cardinality(In("running")) <= Cardinality(In("running")')
    BY <1>4, <1>5, FS_Subset
  <2>2. QED
    BY <1>1, <1>3, <1>4, <1>5, <2>1 DEF NoLostWakeup
<1>6. ASSUME task_count' = 0
      PROVE  NoLostWakeup'
  BY <1>4, <1>6 DEF NoLostWakeup
<1>7. ASSUME NEW t \in Tasks, Submit(t)
      PROVE  NoLostWakeup'
  <2>1. CASE In("waiting") = {} /\ UNCHANGED thread
    <3>1. In("waiting")' = {}
      BY <2>1 DEF In
    <3>2. QED
      BY <3>1 DEF NoLostWakeup
  <2>2. ASSUME NEW w \in In("waiting"), thread' = [thread EXCEPT ![w] = "running"]
        PROVE  NoLostWakeup'
    <3>1. In("running")' = In("running") \cup {w} /\ w \notin In("running")
      BY <1>1, <2>2 DEF In
    <3>2. Cardinality(In("running")') = Cardinality(In("running")) + 1
      BY <1>3, <3>1, FS_AddElement
    <3>3. task_count' = task_count + 1 /\ In("waiting") # {}
      BY <1>7, <2>2 DEF Submit
    <3>4. QED
      BY <1>1, <1>3, <3>2, <3>3 DEF NoLostWakeup
  <2>3. QED
    BY <1>7, <2>1, <2>2 DEF Submit, SignalOne
<1>8. ASSUME NEW w \in Workers, Dequeue(w)
      PROVE  NoLostWakeup'
  <2>1. /\ In("running")' = In("running") \ {w} /\ w \in In("running")
        /\ In("waiting")' = In("waiting")
    BY <1>1, <1>8 DEF Dequeue, In
  <2>2. Cardinality(In("running")') = Cardinality(In("running")) - 1
    BY <1>3, <2>1, FS_RemoveElement
  <2>3. task_count' = task_count - 1
    BY <1>8 DEF Dequeue
  <2>4. QED
    BY <1>1, <1>3, <2>1, <2>2, <2>3 DEF NoLostWakeup
<1>9. ASSUME NEW w \in Workers, Wait(w) \/ Exit(w)
      PROVE  NoLostWakeup'
  BY <1>6, <1>9 DEF Wait, MayWait, Exit, MayExit
<1>10. ASSUME NEW w \in Workers, Finish(w) \/ SpuriousWakeup(w)
       PROVE  NoLostWakeup'
  <2>1. /\ In("running") \subseteq In("running")' /\ In("waiting")' \subseteq In("waiting")
        /\ task_count' = task_count
    BY <1>1, <1>10 DEF Finish, SpuriousWakeup, In
  <2>2. QED
    BY <1>5, <2>1
<1>11. CASE CreateWorker \/ Broadcast
  <2>1. /\ In("running") \subseteq In("running")' /\ In("waiting")' \subseteq In("waiting")
        /\ task_count' = task_count
    BY <1>1, <1>11 DEF CreateWorker, Broadcast, WokenByBroadcast, In
  <2>2. QED
    BY <1>5, <2>1
<1>12. ASSUME UNCHANGED <<thread, task_count>>
       PROVE  NoLostWakeup'
  BY <1>12 DEF NoLostWakeup, In
<1>13. ASSUME NEW n \in InitArgs, InitPool(n)
       PROVE  NoLostWakeup'
  BY <1>12, <1>13 DEF InitPool
<1>14. CASE \/ SetShutdownFlag \/ CreateWorkerFails \/ InitDone \/ JoinWorker
            \/ JoinHole \/ ShutdownDone \/ Stopped \/ UNCHANGED vars
  BY <1>12, <1>14 DEF SetShutdownFlag, CreateWorkerFails, InitDone, JoinWorker, JoinHole,
                      ShutdownDone, Stopped, vars
<1>15. QED
  BY <1>7, <1>8, <1>9, <1>10, <1>11, <1>13, <1>14 DEF Next, WorkerStep, SupervisorStep

(* No signal is ever lost: a task never waits in the buffer for a worker    *)
(* that sleeps while nobody else is on the way to the queue.                *)
THEOREM WakeupCorrect == Spec => []NoLostWakeup
<1>1. Init => NoLostWakeup
  BY DEF Init, NoLostWakeup, In
<1>2. QED
  BY <1>1, WakeupStep, TypeCorrect, PTL DEF Spec

-----------------------------------------------------------------------------
(* Exclusive service.                                                       *)

(* No connection is accepted twice, and what a worker is serving was        *)
(* dequeued.                                                                *)
ServiceInv ==
    /\ \A i, j \in 1 .. Len(accepted) : accepted[i] = accepted[j] => i = j
    /\ \A w \in Workers :
          current[w] # NoTask => \E k \in 1 .. Len(taken) : taken[k] = current[w]
    /\ OneWorkerPerTask

LEMMA ServiceStep == QueueInv /\ ServiceInv /\ [Next]_vars => ServiceInv'
<1> SUFFICES ASSUME QueueInv, ServiceInv, [Next]_vars
             PROVE  ServiceInv'
  OBVIOUS
<1> USE DEF ring, workerV, superV
<1>1. TypeOK /\ RingOK /\ accepted = taken \o Buffered
  BY DEF QueueInv, DeliveredInOrder
<1>2. /\ current \in [Workers -> Tasks \cup {NoTask}]
      /\ accepted \in Seq(Tasks) /\ taken \in Seq(Tasks \cup {NoTask})
      /\ Len(accepted) \in Nat /\ Len(taken) \in Nat
  BY <1>1, LenProperties DEF TypeOK
<1>3. ASSUME UNCHANGED <<accepted, taken>>,
             \A w \in Workers : current'[w] \in {current[w], NoTask}
      PROVE  ServiceInv'
  BY <1>2, <1>3 DEF ServiceInv, OneWorkerPerTask
<1>4. ASSUME NEW t \in Tasks, Submit(t)
      PROVE  ServiceInv'
  <2>1. /\ accepted' = Append(accepted, t) /\ UNCHANGED <<taken, current>>
        /\ \A k \in 1 .. Len(accepted) : accepted[k] # t
    BY <1>4 DEF Submit
  <2>2. /\ Len(accepted') = Len(accepted) + 1
        /\ \A k \in 1 .. Len(accepted) : accepted'[k] = accepted[k]
        /\ accepted'[Len(accepted) + 1] = t
    BY <1>2, <2>1, AppendProperties
  <2>3. \A i, j \in 1 .. Len(accepted') : accepted'[i] = accepted'[j] => i = j
    BY <1>2, <2>1, <2>2 DEF ServiceInv
  <2>4. QED
    BY <2>1, <2>3 DEF ServiceInv, OneWorkerPerTask
<1>5. ASSUME NEW w \in Workers, Dequeue(w)
      PROVE  ServiceInv'
  <2> DEFINE t == Head(Buffered)
  <2>1. Buffered # << >> /\ taken' = Append(taken, t)
    BY <1>1, <1>5, DequeueTakesHead
  <2>2. accepted' = accepted /\ current' = [current EXCEPT ![w] = task_queue[queue_head]]
        /\ taken' = Append(taken, task_queue[queue_head])
    BY <1>5 DEF Dequeue
  <2>3. task_queue[queue_head] = t /\ t \in Tasks \cup {NoTask}
    BY <1>1, <1>5, DequeueTakesHead DEF TypeOK
  <2>4. \A k \in 1 .. Len(taken) : taken[k] # t
    <3>1. Buffered \in Seq(Tasks \cup {NoTask}) /\ Len(Buffered) \in Nat \ {0}
      BY <1>1, <2>1, BufferedIsSeq, EmptySeq DEF BufferedOK
    <3>2. /\ Len(accepted) = Len(taken) + Len(Buffered)
          /\ \A i \in 1 .. Len(taken) + Len(Buffered) :
                accepted[i] = IF i <= Len(taken) THEN taken[i] ELSE Buffered[i - Len(taken)]
      BY <1>1, <1>2, <3>1, ConcatProperties
    <3>3. accepted[Len(taken) + 1] = t
      <4>1. Len(taken) + 1 \in 1 .. Len(taken) + Len(Buffered) /\ ~(Len(taken) + 1 <= Len(taken))
        BY <1>2, <3>1
      <4>2. accepted[Len(taken) + 1] = Buffered[(Len(taken) + 1) - Len(taken)]
        BY <3>2, <4>1
      <4>3. (Len(taken) + 1) - Len(taken) = 1
        BY <1>2
      <4>4. QED
        BY <4>2, <4>3
    <3> HIDE DEF t
    <3>4. \A k \in 1 .. Len(taken) : accepted[k] = taken[k] /\ k # Len(taken) + 1
      BY <1>2, <3>1, <3>2
    <3>5. \A i, j \in 1 .. Len(accepted) : accepted[i] = accepted[j] => i = j
      BY DEF ServiceInv
    <3>6. Len(taken) + 1 \in 1 .. Len(accepted) /\ 1 .. Len(taken) \subseteq 1 .. Len(accepted)
      BY <1>2, <3>1, <3>2
    <3>7. QED
      BY <3>3, <3>4, <3>5, <3>6
  <2> HIDE DEF t
  <2>5. /\ Len(taken') = Len(taken) + 1 /\ taken'[Len(taken) + 1] = t
        /\ \A k \in 1 .. Len(taken) : taken'[k] = taken[k]
    BY <1>2, <2>1, <2>3, AppendProperties
  <2>6. \A v \in Workers :
           current[v] # NoTask => \E k \in 1 .. Len(taken) : taken[k] = current[v]
    BY DEF ServiceInv
  <2>7. \A v \in Workers \ {w} : (current'[v] = current[v] /\ current[v] # t) \/ current'[v] = NoTask
    BY <1>2, <2>2, <2>4, <2>6
  <2>8. current'[w] = t
    BY <1>2, <2>2, <2>3
  <2>9. \A v \in Workers :
           current'[v] # NoTask => \E k \in 1 .. Len(taken') : taken'[k] = current'[v]
    BY <1>2, <2>5, <2>6, <2>7, <2>8
  <2>10. OneWorkerPerTask'
    BY <2>7, <2>8 DEF ServiceInv, OneWorkerPerTask
  <2>11. QED
    BY <2>2, <2>9, <2>10 DEF ServiceInv
<1>6. ASSUME NEW w \in Workers, Finish(w)
      PROVE  ServiceInv'
  BY <1>2, <1>3, <1>6 DEF Finish
<1>7. ASSUME NEW n \in InitArgs, InitPool(n)
      PROVE  ServiceInv'
  BY <1>2, <1>3, <1>7 DEF InitPool
<1>8. ASSUME NEW w \in Workers, Wait(w) \/ Exit(w) \/ SpuriousWakeup(w)
      PROVE  ServiceInv'
  BY <1>2, <1>3, <1>8 DEF Wait, Exit, SpuriousWakeup
<1>9. CASE SetShutdownFlag \/ SupervisorStep \/ Stopped \/ UNCHANGED vars
  BY <1>2, <1>3, <1>9 DEF SetShutdownFlag, SupervisorStep, CreateWorker, CreateWorkerFails,
                      InitDone, Broadcast, JoinWorker, JoinHole, ShutdownDone, Stopped, vars
<1>10. QED
  BY <1>4, <1>5, <1>6, <1>7, <1>8, <1>9 DEF Next, WorkerStep

(* Two workers never serve the same connection at the same time.            *)
THEOREM ServiceCorrect == Spec => []OneWorkerPerTask
<1>1. Init => ServiceInv
  BY EmptySeq DEF Init, ServiceInv, OneWorkerPerTask
<1>2. ServiceInv => OneWorkerPerTask
  BY DEF ServiceInv
<1>3. QED
  BY <1>1, <1>2, ServiceStep, QueueInvariant, PTL DEF Spec
=============================================================================
