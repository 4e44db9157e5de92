----------------------------- MODULE Queues_proofs -----------------------------
(***************************************************************************)
(* The two shared queues.  The locked queue for any finite sets of producers *)
(* and consumers: the counter of the semaphore never lags behind the         *)
(* elements of the queue in a way a consumer could see.  The worker and the   *)
(* destructor of a ProcessorFifo for any callers, tasks and bound: nothing    *)
(* accepted is lost, reordered or handled twice.                              *)
(***************************************************************************)
EXTENDS LockedQueue, ProcessorFifo, FiniteSetTheorems, TLAPS

QInv == QueueTypeOK /\ Accounting

-----------------------------------------------------------------------------
(* The two sets that Accounting counts are finite.                            *)
LEMMA CountedAreFinite ==
  /\ IsFiniteSet(Notifying) /\ Cardinality(Notifying) \in Nat
  /\ IsFiniteSet(Taking) /\ Cardinality(Taking) \in Nat
<1>1. Notifying \in SUBSET Producers /\ Taking \in SUBSET Consumers
  BY DEF Notifying, Taking
<1>2. IsFiniteSet(Notifying) /\ IsFiniteSet(Taking)
  BY <1>1, FS_Subset, ThreadsAssumption
<1> QED
  BY <1>2, FS_CardinalityType

(* Append and Tail move the length of a sequence by one.                      *)
LEMMA Lengths ==
  ASSUME NEW s \in Seq(Values)
  PROVE  /\ Len(s) \in Nat
         /\ \A v \in Values : Append(s, v) \in Seq(Values) /\ Len(Append(s, v)) = Len(s) + 1
         /\ s # <<>> => /\ Head(s) \in Values /\ Tail(s) \in Seq(Values)
                        /\ Len(s) > 0 /\ Len(Tail(s)) = Len(s) - 1
OBVIOUS

(* A thread that goes from one place to another changes only the set it       *)
(* leaves and the set it enters.                                              *)
LEMMA Joined ==
  ASSUME NEW S, IsFiniteSet(S), NEW x, x \notin S
  PROVE  Cardinality(S \cup {x}) = Cardinality(S) + 1
BY FS_AddElement

LEMMA Left ==
  ASSUME NEW S, IsFiniteSet(S), NEW x \in S
  PROVE  Cardinality(S \ {x}) = Cardinality(S) - 1
BY FS_RemoveElement

-----------------------------------------------------------------------------
LEMMA InitQInv == QueueInit => QInv
<1> SUFFICES ASSUME QueueInit PROVE QInv
  OBVIOUS
<1>1. QueueTypeOK
  BY PushesAssumption DEF QueueInit, QueueTypeOK, ProducerPc, ConsumerPc
<1>2. Notifying = {} /\ Taking = {}
  BY DEF QueueInit, Notifying, Taking
<1>3. Accounting
  BY <1>2, FS_EmptySet DEF QueueInit, Accounting
<1> QED
  BY <1>1, <1>3 DEF QInv

(* push() up to its unlock: one element more, one more producer about to      *)
(* notify.                                                                    *)
LEMMA EnqueueKeeps ==
  ASSUME QInv, NEW prod \in Producers, NEW v \in Values, Enqueue(prod, v)
  PROVE  QInv'
<1> USE DEF QInv, QueueTypeOK, Enqueue
<1>1. QueueTypeOK'
  BY Lengths, PushesAssumption, ThreadsAssumption DEF ProducerPc, ConsumerPc
<1>2. Notifying' = Notifying \cup {prod} /\ prod \notin Notifying /\ Taking' = Taking
  BY ThreadsAssumption DEF Notifying, Taking
<1>3. Cardinality(Notifying') = Cardinality(Notifying) + 1
  BY <1>2, CountedAreFinite, Joined
<1>4. Len(m_Queue') = Len(m_Queue) + 1 /\ m_Count' = m_Count
  BY Lengths
<1>5. Accounting'
  BY <1>2, <1>3, <1>4, CountedAreFinite, Lengths DEF Accounting
<1> QED
  BY <1>1, <1>5

(* notify(): the producer pays by the counter instead; a sleeper that it wakes *)
(* has not passed the semaphore.                                              *)
LEMMA NotifyKeeps ==
  ASSUME QInv, NEW prod \in Producers, Notify(prod)
  PROVE  QInv'
<1> DEFINE asleep == {c \in Consumers : pc[c] = "asleep"}
<1>1. /\ pc[prod] = "notify" /\ m_Count' = m_Count + 1
      /\ UNCHANGED <<m_Queue, popped, pushes>>
  BY DEF Notify
<1>2. \/ pc' = [pc EXCEPT ![prod] = "out"]
      \/ \E c \in asleep : pc' = [pc EXCEPT ![prod] = "out", ![c] = "woken"]
  BY DEF Notify
<1>3. QueueTypeOK /\ Accounting
  BY DEF QInv
<1>4. QueueTypeOK'
  BY <1>1, <1>2, <1>3, ThreadsAssumption DEF QueueTypeOK, ProducerPc, ConsumerPc
<1>5. Notifying' = Notifying \ {prod} /\ prod \in Notifying /\ Taking' = Taking
  BY <1>1, <1>2, <1>3, ThreadsAssumption DEF Notifying, Taking, QueueTypeOK
<1>6. Cardinality(Notifying') = Cardinality(Notifying) - 1
  BY <1>5, CountedAreFinite, Left
<1>7. Accounting'
  BY <1>1, <1>3, <1>5, <1>6, CountedAreFinite, Lengths DEF Accounting, QueueTypeOK
<1> QED
  BY <1>4, <1>7 DEF QInv

(* wait(): the counter pays for the consumer that passes; one that goes to    *)
(* sleep changes nothing that is counted.                                     *)
LEMMA WaitKeeps ==
  ASSUME QInv, NEW c \in Consumers, Wait(c)
  PROVE  QInv'
<1>1. QueueTypeOK /\ Accounting
  BY DEF QInv
<1>2. pc[c] # "take" /\ UNCHANGED <<m_Queue, popped, pushes>>
  BY DEF Wait
<1>3. CASE m_Count > 0 /\ m_Count' = m_Count - 1 /\ pc' = [pc EXCEPT ![c] = "take"]
  <2>1. QueueTypeOK'
    BY <1>1, <1>2, <1>3, ThreadsAssumption DEF QueueTypeOK, ProducerPc, ConsumerPc
  <2>2. Taking' = Taking \cup {c} /\ c \notin Taking /\ Notifying' = Notifying
    BY <1>1, <1>2, <1>3, ThreadsAssumption DEF Notifying, Taking, QueueTypeOK
  <2>3. Cardinality(Taking') = Cardinality(Taking) + 1
    BY <2>2, CountedAreFinite, Joined
  <2>4. Accounting'
    BY <1>1, <1>2, <1>3, <2>2, <2>3, CountedAreFinite, Lengths DEF Accounting, QueueTypeOK
  <2> QED
    BY <2>1, <2>4 DEF QInv
<1>4. CASE m_Count' = m_Count /\ pc' = [pc EXCEPT ![c] = "asleep"]
  <2>1. QueueTypeOK'
    BY <1>1, <1>2, <1>4, ThreadsAssumption DEF QueueTypeOK, ProducerPc, ConsumerPc
  <2>2. Taking' = Taking /\ Notifying' = Notifying
    BY <1>1, <1>2, <1>4, ThreadsAssumption DEF Notifying, Taking, QueueTypeOK
  <2> QED
    BY <1>1, <1>2, <1>4, <2>1, <2>2 DEF QInv, Accounting
<1> QED
  BY <1>3, <1>4 DEF Wait

(* A wake-up without a notify.                                                *)
LEMMA SpuriousWakeUpKeeps ==
  ASSUME QInv, NEW c \in Consumers, SpuriousWakeUp(c)
  PROVE  QInv'
<1> USE DEF QInv, QueueTypeOK, SpuriousWakeUp
<1>1. QueueTypeOK'
  BY ThreadsAssumption DEF ProducerPc, ConsumerPc
<1>2. Taking' = Taking /\ Notifying' = Notifying
  BY ThreadsAssumption DEF Notifying, Taking
<1> QED
  BY <1>1, <1>2 DEF Accounting

(* pop() under the queue's mutex: the element and its payment go together.    *)
LEMMA TakeKeeps ==
  ASSUME QInv, NEW c \in Consumers, Take(c)
  PROVE  QInv'
<1> USE DEF QInv, QueueTypeOK, Take
<1>1. QueueTypeOK'
  BY Lengths, ThreadsAssumption DEF ProducerPc, ConsumerPc
<1>2. Taking' = Taking \ {c} /\ c \in Taking /\ Notifying' = Notifying
  BY ThreadsAssumption DEF Notifying, Taking
<1>3. Cardinality(Taking') = Cardinality(Taking) - 1
  BY <1>2, CountedAreFinite, Left
<1>4. Accounting'
  BY <1>2, <1>3, CountedAreFinite, Lengths DEF Accounting
<1> QED
  BY <1>1, <1>4

LEMMA NextKeepsQInv == QInv /\ [QueueNext]_queueVars => QInv'
<1> SUFFICES ASSUME QInv, [QueueNext]_queueVars PROVE QInv'
  OBVIOUS
<1>1. ASSUME NEW prod \in Producers, NEW v \in Values, Enqueue(prod, v) PROVE QInv'
  BY <1>1, EnqueueKeeps
<1>2. ASSUME NEW prod \in Producers, Notify(prod) PROVE QInv'
  BY <1>2, NotifyKeeps
<1>3. ASSUME NEW c \in Consumers, Wait(c) PROVE QInv'
  BY <1>3, WaitKeeps
<1>4. ASSUME NEW c \in Consumers, SpuriousWakeUp(c) PROVE QInv'
  BY <1>4, SpuriousWakeUpKeeps
<1>5. ASSUME NEW c \in Consumers, Take(c) PROVE QInv'
  BY <1>5, TakeKeeps
<1>6. CASE UNCHANGED queueVars
  BY <1>6 DEF queueVars, QInv, QueueTypeOK, Accounting, Notifying, Taking
<1> QED
  BY <1>1, <1>2, <1>3, <1>4, <1>5, <1>6 DEF QueueNext

LEMMA TakerFindsElement == QInv => NoEmptyFront
<1> SUFFICES ASSUME QInv, NEW c \in Consumers, pc[c] = "take" PROVE m_Queue # <<>>
  BY DEF NoEmptyFront
<1>1. c \in Taking
  BY DEF Taking
<1>2. Cardinality(Taking) # 0
  BY <1>1, CountedAreFinite, FS_EmptySet
<1> QED
  BY <1>2, CountedAreFinite DEF QInv, QueueTypeOK, Accounting

-----------------------------------------------------------------------------
(* Whatever the number of threads and of pushes, each element of the queue    *)
(* (locked_queue.h) is paid for once by the counter of the semaphore          *)
(* (semaphore.h), by a producer between its unlock and its notify, or by a    *)
(* consumer between the semaphore and the queue's mutex.                      *)
THEOREM AccountingHolds == QueueSpec => []Accounting
<1>1. QInv => Accounting
  BY DEF QInv
<1> QED
  BY <1>1, InitQInv, NextKeepsQInv, PTL DEF QueueSpec

(* front() and pop() at locked_queue.h:53-54 never meet an empty std::queue,  *)
(* though they are not under the semaphore's mutex.                           *)
THEOREM NoEmptyFrontHolds == QueueSpec => []NoEmptyFront
  BY InitQInv, NextKeepsQInv, TakerFindsElement, PTL DEF QueueSpec

-----------------------------------------------------------------------------
(* The worker and the destructor (processor_fifo.h)                          *)

(* Where the quit task can be: only the destructor pushes it, once, last.    *)
QuitLast ==
  /\ destroyer \in {"alive", "swapped"} => worker # "exited"
  /\ destroyer = "joining" /\ worker # "exited" =>
       Len(tasks) > 0 /\ tasks[Len(tasks)] = Quit
  /\ destroyer = "joined" => worker = "exited"
  /\ worker = "exited" => tasks = <<>>

(* The worker holds a task exactly between its pop and its return.           *)
InHand == (current # None) <=> worker \in {"copy", "call"}

(* The handler only moves away from "process", and the worker's copy of it   *)
(* can lag only while the worker is about to call it.                         *)
HandlerOnce ==
  /\ (process_ = "process") <=> (destroyer = "alive")
  /\ destroyer = "alive" =>
       \A i \in DOMAIN handled : handled[i] = "process"
  /\ destroyer = "alive" /\ worker = "call" => p = "process"
  /\ worker = "call" /\ p = "process" =>
       /\ destroyer # "alive" => Len(handled) = swapAt
       /\ \A i \in DOMAIN handled : handled[i] = "process"
  /\ swapAt <= Len(handled)

IInv ==
  WorkerTypeOK /\ QuitLast /\ InHand /\ InOrder /\ HandlerOnce
         /\ NoProcessAfterDelete /\ AtMostOneLate

-----------------------------------------------------------------------------
(* What Append and Tail do to the elements of a sequence.                     *)
LEMMA AppendFacts ==
  ASSUME NEW S, NEW s \in Seq(S), NEW e \in S
  PROVE  /\ Append(s, e) \in Seq(S)
         /\ Len(Append(s, e)) = Len(s) + 1
         /\ \A i \in 1..Len(s) : Append(s, e)[i] = s[i]
         /\ Append(s, e)[Len(s) + 1] = e
  OBVIOUS

LEMMA TailFacts ==
  ASSUME NEW S, NEW s \in Seq(S), s # <<>>
  PROVE  /\ Len(s) > 0 /\ Tail(s) \in Seq(S)
         /\ Len(Tail(s)) = Len(s) - 1 /\ Head(s) = s[1]
         /\ \A i \in 1..Len(Tail(s)) : Tail(s)[i] = s[i + 1]
  OBVIOUS

LEMMA InitIInv == WorkerInit => IInv
<1> SUFFICES ASSUME WorkerInit PROVE IInv
  OBVIOUS
<1> USE TasksAssumption DEF WorkerInit
<1>1. WorkerTypeOK
  BY DEF WorkerTypeOK, Handlers
<1>2. InOrder
  BY DEF InOrder, Taken, Pending
<1>3. QuitLast /\ InHand /\ HandlerOnce /\ NoProcessAfterDelete /\ AtMostOneLate
  BY DEF QuitLast, InHand, HandlerOnce, NoProcessAfterDelete, AtMostOneLate
<1>4. QED
  BY <1>1, <1>2, <1>3 DEF IInv

(* Type correctness is preserved on its own.                                 *)
LEMMA NextTypeOK == WorkerTypeOK /\ [WorkerNext]_workerVars => WorkerTypeOK'
<1> SUFFICES ASSUME WorkerTypeOK, [WorkerNext]_workerVars PROVE WorkerTypeOK'
  OBVIOUS
<1> USE TasksAssumption, HasDeleteAssumption DEF WorkerTypeOK, Handlers
<1>1. ASSUME NEW c \in Callers, NEW t \in Tasks, Queue(c, t) PROVE WorkerTypeOK'
  BY <1>1 DEF Queue
<1>2. CASE Pop
  BY <1>2 DEF Pop
<1>3. CASE CopyHandler
  BY <1>3 DEF CopyHandler
<1>4. CASE CallHandler
  BY <1>4 DEF CallHandler
<1>5. CASE Swap
  BY <1>5 DEF Swap
<1>6. CASE PushQuit
  BY <1>6 DEF PushQuit
<1>7. CASE Join
  BY <1>7 DEF Join
<1>8. CASE UNCHANGED workerVars
  BY <1>8 DEF workerVars
<1>9. QED
  BY <1>1, <1>2, <1>3, <1>4, <1>5, <1>6, <1>7, <1>8 DEF WorkerNext, Worker, Destroy

(* The queue's order and the place of the quit task.                          *)
LEMMA NextInOrder ==
  WorkerTypeOK /\ QuitLast /\ InHand /\ InOrder /\ [WorkerNext]_workerVars
    => QuitLast' /\ InHand' /\ InOrder'
<1> SUFFICES ASSUME WorkerTypeOK, QuitLast, InHand, InOrder, [WorkerNext]_workerVars
             PROVE QuitLast' /\ InHand' /\ InOrder'
  OBVIOUS
<1> USE TasksAssumption
<1>0. /\ tasks \in Seq(Tasks \cup {Quit}) /\ accepted \in Seq(Tasks)
      /\ Len(tasks) \in Nat /\ Len(accepted) \in Nat /\ Len(handled) \in Nat
      /\ Taken \in Nat /\ Pending \in Int
  BY DEF WorkerTypeOK, Taken, Pending
<1>1. ASSUME NEW c \in Callers, NEW t \in Tasks, Queue(c, t)
      PROVE QuitLast' /\ InHand' /\ InOrder'
  <2>1. /\ Len(tasks') = Len(tasks) + 1
        /\ \A i \in 1..Len(tasks) : tasks'[i] = tasks[i]
        /\ tasks'[Len(tasks) + 1] = t
    BY <1>0, <1>1, AppendFacts DEF Queue
  <2>2. /\ Len(accepted') = Len(accepted) + 1
        /\ \A i \in 1..Len(accepted) : accepted'[i] = accepted[i]
        /\ accepted'[Len(accepted) + 1] = t
    BY <1>0, <1>1, AppendFacts DEF Queue
  <2>3. QuitLast' /\ InHand'
    BY <1>1 DEF Queue, QuitLast, InHand
  <2>4. Pending = Len(tasks) /\ Pending' = Pending + 1 /\ Taken' = Taken
    BY <1>1, <2>1 DEF Queue, Pending, Taken
  <2>5. current' # None => current' = accepted'[Taken']
    <3>1. current # None => Taken \in 1..Len(accepted)
      BY <1>0, <2>4 DEF InOrder, Taken
    <3>2. QED
      BY <1>1, <2>2, <2>4, <3>1 DEF InOrder, Queue
  <2>6. \A i \in 1..Pending' : tasks'[i] = accepted'[Taken' + i]
    <3>1. SUFFICES ASSUME NEW i \in 1..(Pending + 1)
                   PROVE tasks'[i] = accepted'[Taken + i]
      BY <2>4
    <3>2. CASE i = Pending + 1
      BY <1>0, <2>1, <2>2, <2>4, <3>2 DEF InOrder
    <3>3. CASE i \in 1..Pending
      BY <1>0, <2>1, <2>2, <2>4, <3>3 DEF InOrder
    <3>4. QED
      BY <1>0, <3>2, <3>3
  <2>7. QED
    BY <1>0, <2>2, <2>3, <2>4, <2>5, <2>6 DEF InOrder
<1>2. CASE Pop
  <2>1. /\ Len(tasks) > 0 /\ Len(tasks') = Len(tasks) - 1 /\ Head(tasks) = tasks[1]
        /\ \A i \in 1..Len(tasks') : tasks'[i] = tasks[i + 1]
    BY <1>0, <1>2, TailFacts DEF Pop
  <2>2. current = None /\ Taken = Len(handled) /\ worker = "pop"
    BY <1>2 DEF Pop, InHand, Taken
  <2>3. CASE Head(tasks) = Quit
    <3>1. Pending = 0
      <4>1. SUFFICES ASSUME Pending > 0 PROVE FALSE
        BY <1>0, <2>1, <2>2 DEF Pending
      <4>2. tasks[1] = accepted[Taken + 1] /\ Taken + 1 \in 1..Len(accepted)
        BY <1>0, <4>1, <2>2 DEF InOrder
      <4>3. accepted[Taken + 1] \in Tasks
        BY <1>0, <4>2
      <4>4. QED
        BY <4>2, <4>3, <2>1, <2>3
    <3>2. destroyer \in {"joining", "joined"} /\ Len(tasks) = 1
      BY <1>0, <3>1, <2>1, <2>2 DEF Pending
    <3>3. tasks' = <<>> /\ worker' = "exited" /\ current' = None
          /\ UNCHANGED <<accepted, handled, destroyer>>
      BY <1>0, <1>2, <3>2, <2>1, <2>2, <2>3 DEF Pop
    <3>4. QuitLast' /\ InHand'
      BY <3>2, <3>3, <2>2 DEF QuitLast, InHand
    <3>5. Pending' = 0 /\ Taken' = Taken
      BY <3>3, <2>2 DEF Pending, Taken
    <3>6. InOrder'
      BY <1>0, <3>1, <3>3, <3>5 DEF InOrder
    <3>7. QED
      BY <3>4, <3>6
  <2>4. CASE Head(tasks) # Quit
    <3>1. worker' = "copy" /\ current' = tasks[1] /\ tasks[1] # Quit
          /\ tasks[1] \in Tasks /\ UNCHANGED <<accepted, handled, destroyer>>
      BY <1>0, <1>2, <2>1, <2>4 DEF Pop
    <3>2. Pending > 0
      BY <1>0, <2>1, <2>2, <3>1 DEF Pending, QuitLast
    <3>3. tasks[1] = accepted[Taken + 1]
      BY <1>0, <3>2 DEF InOrder
    <3>4. Taken' = Taken + 1 /\ Pending' = Pending - 1
      BY <1>0, <3>1, <2>1, <2>2 DEF Taken, Pending
    <3>5. InHand'
      BY <3>1 DEF InHand
    <3>6. QuitLast'
      <4>1. destroyer = "joining" => Len(tasks') > 0 /\ tasks'[Len(tasks')] = Quit
        BY <1>0, <2>1, <2>2, <3>1 DEF QuitLast
      <4>2. QED
        BY <4>1, <3>1, <2>2 DEF QuitLast
    <3>7. \A i \in 1..Pending' : tasks'[i] = accepted'[Taken' + i]
      <4>1. SUFFICES ASSUME NEW i \in 1..(Pending - 1)
                     PROVE tasks'[i] = accepted[Taken + 1 + i]
        BY <1>0, <3>1, <3>4
      <4>2. i \in 1..Len(tasks') /\ i + 1 \in 1..Pending
        BY <1>0, <2>1, <4>1 DEF Pending
      <4>3. tasks'[i] = tasks[i + 1] /\ tasks[i + 1] = accepted[Taken + (i + 1)]
        BY <2>1, <4>2 DEF InOrder
      <4>4. QED
        BY <1>0, <4>3
    <3>8. Len(accepted') = Taken' + Pending'
      BY <1>0, <3>1, <3>4 DEF InOrder
    <3>9. current' = accepted'[Taken']
      BY <3>1, <3>3, <3>4
    <3>10. InOrder'
      BY <3>7, <3>8, <3>9 DEF InOrder
    <3>11. QED
      BY <3>5, <3>6, <3>10
  <2>5. QED
    BY <2>3, <2>4
<1>3. CASE CopyHandler
  BY <1>3 DEF CopyHandler, QuitLast, InHand, InOrder, Taken, Pending
<1>4. CASE CallHandler
  <2>1. Len(handled') = Len(handled) + 1
    BY <1>4 DEF CallHandler, WorkerTypeOK
  <2>2. Taken' = Taken /\ Pending' = Pending /\ current' = None
    BY <1>4, <2>1 DEF CallHandler, Taken, Pending, InHand
  <2>3. QED
    BY <1>4, <2>2 DEF CallHandler, QuitLast, InHand, InOrder
<1>5. CASE Swap
  BY <1>5 DEF Swap, QuitLast, InHand, InOrder, Taken, Pending
<1>6. CASE PushQuit
  <2>1. /\ Len(tasks') = Len(tasks) + 1 /\ tasks'[Len(tasks')] = Quit
        /\ \A i \in 1..Len(tasks) : tasks'[i] = tasks[i]
    BY <1>0, <1>6, AppendFacts DEF PushQuit
  <2>2. Pending' = Pending /\ Taken' = Taken /\ Pending = Len(tasks)
    BY <1>0, <1>6, <2>1 DEF PushQuit, Pending, Taken, QuitLast
  <2>3. QuitLast' /\ InHand'
    BY <1>0, <1>6, <2>1 DEF PushQuit, QuitLast, InHand
  <2>4. InOrder'
    BY <1>6, <2>1, <2>2 DEF PushQuit, InOrder
  <2>5. QED
    BY <2>3, <2>4
<1>7. CASE Join
  BY <1>7 DEF Join, QuitLast, InHand, InOrder, Taken, Pending
<1>8. CASE UNCHANGED workerVars
  BY <1>8 DEF workerVars, QuitLast, InHand, InOrder, Taken, Pending
<1>9. QED
  BY <1>1, <1>2, <1>3, <1>4, <1>5, <1>6, <1>7, <1>8 DEF WorkerNext, Worker, Destroy

(* Which handler the tasks got.                                              *)
LEMMA NextHandlers ==
  WorkerTypeOK /\ HandlerOnce /\ NoProcessAfterDelete /\ AtMostOneLate /\ [WorkerNext]_workerVars
    => HandlerOnce' /\ NoProcessAfterDelete' /\ AtMostOneLate'
<1> DEFINE Inv == HandlerOnce /\ NoProcessAfterDelete /\ AtMostOneLate
<1> SUFFICES ASSUME WorkerTypeOK, Inv, [WorkerNext]_workerVars PROVE Inv'
  OBVIOUS
<1> USE HasDeleteAssumption
    DEF WorkerTypeOK, Handlers, HandlerOnce, NoProcessAfterDelete, AtMostOneLate
<1>1. ASSUME NEW c \in Callers, NEW t \in Tasks, Queue(c, t) PROVE Inv'
  BY <1>1 DEF Queue
<1>2. CASE Pop
  BY <1>2 DEF Pop
<1>3. CASE CopyHandler
  BY <1>3 DEF CopyHandler
<1>4. CASE CallHandler
  BY <1>4 DEF CallHandler
<1>5. CASE Swap
  BY <1>5 DEF Swap
<1>6. CASE PushQuit
  BY <1>6 DEF PushQuit
<1>7. CASE Join
  BY <1>7 DEF Join
<1>8. CASE UNCHANGED workerVars
  BY <1>8 DEF workerVars
<1>9. QED
  BY <1>1, <1>2, <1>3, <1>4, <1>5, <1>6, <1>7, <1>8 DEF WorkerNext, Worker, Destroy

(* The strengthened invariant is inductive.                                  *)
THEOREM Inductive == WorkerSpec => []IInv
<1>1. IInv /\ [WorkerNext]_workerVars => IInv'
  BY NextTypeOK, NextInOrder, NextHandlers DEF IInv
<1>2. QED
  BY InitIInv, <1>1, PTL DEF WorkerSpec

(* Every task that queue() accepted is handled once and in order, whatever    *)
(* the callers do and wherever the destructor arrives.                        *)
THEOREM TasksInOrder == WorkerSpec => []InOrder
<1>1. IInv => InOrder
  BY DEF IInv
<1>2. QED
  BY Inductive, <1>1, PTL

(* A destructor that returns has drained the queue: flushing a FIFO by        *)
(* destroying it loses no task.                                              *)
THEOREM DestructorDrains == WorkerSpec => []DrainedAtJoin
<1>1. IInv => DrainedAtJoin
  BY DEF IInv, WorkerTypeOK, QuitLast, InHand, InOrder, DrainedAtJoin, Taken, Pending
<1>2. QED
  BY Inductive, <1>1, PTL

(* Once the destructor has swapped the handlers at most one more task is      *)
(* processed instead of deleted.                                             *)
THEOREM OneLateTask == WorkerSpec => [](AtMostOneLate /\ NoProcessAfterDelete)
<1>1. IInv => AtMostOneLate /\ NoProcessAfterDelete
  BY DEF IInv
<1>2. QED
  BY Inductive, <1>1, PTL
=============================================================================
