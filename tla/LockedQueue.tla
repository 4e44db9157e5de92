----------------------------- MODULE LockedQueue -----------------------------
(***************************************************************************)
(* utility/locked_queue.h on top of utility/semaphore.h: the FIFO behind    *)
(* every ProcessorFifo and behind the ROI buffer pool of the encoder        *)
(* component.  push() enqueues under m_Mutex and only after the unlock      *)
(* notifies the semaphore; pop() waits on the semaphore and only then takes *)
(* the front under m_Mutex.  The four critical sections are the steps.      *)
(***************************************************************************)
EXTENDS Integers, Sequences, FiniteSets

CONSTANTS Producers,  \* the threads that call push()
          Consumers,  \* the threads that call pop()
          Values,     \* what is pushed
          Nothing,    \* "no value popped yet"
          MaxPushes   \* bound: how many times push() is called in all

ASSUME ThreadsAssumption ==
  /\ IsFiniteSet(Producers) /\ IsFiniteSet(Consumers)
  /\ Producers \cap Consumers = {}
ASSUME PushesAssumption == MaxPushes \in Nat
ASSUME ValuesAssumption == Nothing \notin Values

VARIABLES
  m_Queue,   \* the elements, oldest first
  m_Count,   \* the semaphore's counter
  pc,        \* where each thread is inside push() or pop()
  popped,    \* what each consumer popped last
  pushes     \* number of elements ever pushed (bounds the model)

queueVars == <<m_Queue, m_Count, pc, popped, pushes>>

ProducerPc == {"out", "notify"}
ConsumerPc == {"out", "asleep", "woken", "take"}

QueueTypeOK ==
  /\ m_Queue \in Seq(Values)
  /\ m_Count \in Nat
  /\ pc \in [Producers \cup Consumers -> ProducerPc \cup ConsumerPc]
  /\ \A p \in Producers : pc[p] \in ProducerPc
  /\ \A c \in Consumers : pc[c] \in ConsumerPc
  /\ popped \in [Consumers -> Values \cup {Nothing}]
  /\ pushes \in 0..MaxPushes

QueueInit ==
  /\ m_Queue = <<>>
  /\ m_Count = 0
  /\ pc = [t \in Producers \cup Consumers |-> "out"]
  /\ popped = [c \in Consumers |-> Nothing]
  /\ pushes = 0

-----------------------------------------------------------------------------
\* push(), the section under m_Mutex
Enqueue(p, v) ==
  /\ pc[p] = "out"
  /\ pushes < MaxPushes
  /\ m_Queue' = Append(m_Queue, v)
  /\ pc' = [pc EXCEPT ![p] = "notify"]
  /\ pushes' = pushes + 1
  /\ UNCHANGED <<m_Count, popped>>

\* slip: notify() increments the counter and wakes nobody
NotifySilently(p) ==
  /\ pc[p] = "notify"
  /\ m_Count' = m_Count + 1
  /\ pc' = [pc EXCEPT ![p] = "out"]
  /\ UNCHANGED <<m_Queue, popped, pushes>>

\* semaphore::notify(): one sleeper of the condition variable is woken, if any
Notify(p) ==
  /\ pc[p] = "notify"
  /\ m_Count' = m_Count + 1
  /\ LET asleep == {c \in Consumers : pc[c] = "asleep"}
     IN IF asleep = {}
        THEN pc' = [pc EXCEPT ![p] = "out"]
        ELSE \E c \in asleep : pc' = [pc EXCEPT ![p] = "out", ![c] = "woken"]
  /\ UNCHANGED <<m_Queue, popped, pushes>>

\* semaphore::wait(), entered by pop() or resumed by a wake-up: the predicate
\* is tested under the semaphore's mutex
Wait(c) ==
  /\ pc[c] \in {"out", "woken"}
  /\ \/ /\ m_Count > 0
        /\ m_Count' = m_Count - 1
        /\ pc' = [pc EXCEPT ![c] = "take"]
     \/ /\ m_Count = 0
        /\ pc' = [pc EXCEPT ![c] = "asleep"]
        /\ UNCHANGED m_Count
  /\ UNCHANGED <<m_Queue, popped, pushes>>

\* a condition variable may wake without a notify
SpuriousWakeUp(c) ==
  /\ pc[c] = "asleep"
  /\ pc' = [pc EXCEPT ![c] = "woken"]
  /\ UNCHANGED <<m_Queue, m_Count, popped, pushes>>

\* slip: front() without pop()
TakeAndLeave(c) ==
  /\ pc[c] = "take"
  /\ m_Queue # <<>>
  /\ popped' = [popped EXCEPT ![c] = Head(m_Queue)]
  /\ pc' = [pc EXCEPT ![c] = "out"]
  /\ UNCHANGED <<m_Queue, m_Count, pushes>>

\* pop(), the section under m_Mutex: front() of an empty std::queue is
\* undefined, which NoEmptyFront below rules out
Take(c) ==
  /\ pc[c] = "take"
  /\ m_Queue # <<>>
  /\ popped' = [popped EXCEPT ![c] = Head(m_Queue)]
  /\ m_Queue' = Tail(m_Queue)
  /\ pc' = [pc EXCEPT ![c] = "out"]
  /\ UNCHANGED <<m_Count, pushes>>

QueueNext ==
  \/ \E p \in Producers : (\E v \in Values : Enqueue(p, v)) \/ Notify(p)
  \/ \E c \in Consumers : Wait(c) \/ SpuriousWakeUp(c) \/ Take(c)

QueueSpec == QueueInit /\ [][QueueNext]_queueVars

\* a thread inside push() or pop() is scheduled, and every consumer is a
\* worker loop that calls pop() again (processor_fifo.h:70)
QueueFairness ==
  /\ \A p \in Producers : WF_queueVars(Notify(p))
  /\ \A c \in Consumers : WF_queueVars(Wait(c)) /\ WF_queueVars(Take(c))

QueueFairSpec == QueueSpec /\ QueueFairness

-----------------------------------------------------------------------------
Notifying == {p \in Producers : pc[p] = "notify"}
Taking    == {c \in Consumers : pc[c] = "take"}

(* Every element is paid for exactly once: by the counter, by a producer    *)
(* that has enqueued and not yet notified, or by a consumer that has passed  *)
(* the semaphore and not yet taken it.                                       *)
Accounting ==
  Len(m_Queue) = m_Count + Cardinality(Notifying) + Cardinality(Taking)

(* No consumer that passed the semaphore finds the queue empty: front() and  *)
(* pop() at locked_queue.h:53-54 are always defined, whatever the number of  *)
(* producers and consumers.                                                  *)
NoEmptyFront == \A c \in Consumers : pc[c] = "take" => m_Queue # <<>>

(* Whatever was pushed is eventually popped: no element stays in a queue     *)
(* while its consumers sleep for ever.                                       *)
Drains == m_Queue # <<>> ~> m_Queue = <<>>
=============================================================================
