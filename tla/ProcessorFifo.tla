---------------------------- MODULE ProcessorFifo ----------------------------
(***************************************************************************)
(* utility/processor_fifo.h: a worker thread that hands the tasks of a      *)
(* locked_queue, in order, to process_, and whose destructor swaps process_ *)
(* for delete_, pushes a quit task and joins.  The queue is atomic here:     *)
(* LockedQueue shows that a pop never sees it empty.  What can go wrong is   *)
(* in the window between the worker's pop and its copy of process_, which    *)
(* the destructor's swap may hit.                                           *)
(***************************************************************************)
EXTENDS Integers, Sequences

CONSTANTS Callers,   \* the threads that call queue()
          Tasks,     \* what they queue
          None,      \* "no task in hand"
          Quit,      \* the quit task of the destructor
          HasDelete, \* FALSE for the processors built with delete_ = nullptr
          MaxTasks   \* bound: how many times queue() is called in all

ASSUME TasksAssumption == None \notin Tasks /\ Quit \notin Tasks /\ None # Quit
ASSUME HasDeleteAssumption == HasDelete \in BOOLEAN
ASSUME BoundAssumption == MaxTasks \in Nat

VARIABLES
  tasks,     \* the queue, oldest first
  process_,  \* "process", or what the destructor put there: "delete" or "none"
  worker,    \* where Worker() is: "pop", "copy", "call", "exited"
  current,   \* the task in the worker's hand
  p,         \* the worker's copy of process_
  destroyer, \* where the destructor is: "alive", "swapped", "joining", "joined"
  accepted,  \* history: every task queued, in order
  handled,   \* history: what became of the first Len(handled) of them
  swapAt     \* history: Len(handled) when the destructor swapped process_

workerVars == <<tasks, process_, worker, current, p, destroyer, accepted, handled, swapAt>>

Handlers == {"process", "delete", "none"}

WorkerTypeOK ==
  /\ tasks \in Seq(Tasks \cup {Quit})
  /\ process_ \in Handlers
  /\ worker \in {"pop", "copy", "call", "exited"}
  /\ current \in Tasks \cup {None}
  /\ p \in Handlers
  /\ destroyer \in {"alive", "swapped", "joining", "joined"}
  /\ accepted \in Seq(Tasks)
  /\ handled \in Seq(Handlers)
  /\ swapAt \in Nat

WorkerInit ==
  /\ tasks = <<>> /\ accepted = <<>> /\ handled = <<>>
  /\ process_ = "process"
  /\ worker = "pop" /\ current = None /\ p = "none"
  /\ destroyer = "alive" /\ swapAt = 0

-----------------------------------------------------------------------------
\* slip: the newest task first
QueueInFront(c, t) ==
  /\ destroyer = "alive"
  /\ Len(accepted) < MaxTasks
  /\ tasks' = <<t>> \o tasks
  /\ accepted' = Append(accepted, t)
  /\ UNCHANGED <<process_, worker, current, p, destroyer, handled, swapAt>>

\* queue(): legal until the owner destroys the object
Queue(c, t) ==
  /\ destroyer = "alive"
  /\ Len(accepted) < MaxTasks
  /\ tasks' = Append(tasks, t)
  /\ accepted' = Append(accepted, t)
  /\ UNCHANGED <<process_, worker, current, p, destroyer, handled, swapAt>>

\* Worker(): pop, and leave the loop on the quit task
Pop ==
  /\ worker = "pop"
  /\ tasks # <<>>
  /\ tasks' = Tail(tasks)
  /\ IF Head(tasks) = Quit
     THEN worker' = "exited" /\ UNCHANGED current
     ELSE worker' = "copy" /\ current' = Head(tasks)
  /\ UNCHANGED <<process_, p, destroyer, accepted, handled, swapAt>>

\* Worker(): copy process_ under the mutex
CopyHandler ==
  /\ worker = "copy"
  /\ p' = process_
  /\ worker' = "call"
  /\ UNCHANGED <<tasks, process_, current, destroyer, accepted, handled, swapAt>>

\* Worker(): call the copy, outside the mutex; an empty function is skipped
CallHandler ==
  /\ worker = "call"
  /\ handled' = Append(handled, p)
  /\ worker' = "pop"
  /\ current' = None
  /\ UNCHANGED <<tasks, process_, p, destroyer, accepted, swapAt>>

\* slip: the destructor does not swap process_
SwapNothing ==
  /\ destroyer = "alive"
  /\ destroyer' = "swapped"
  /\ swapAt' = Len(handled)
  /\ UNCHANGED <<tasks, process_, worker, current, p, accepted, handled>>

\* ~ProcessorFifo(): process_ = delete_ under the mutex
Swap ==
  /\ destroyer = "alive"
  /\ process_' = IF HasDelete THEN "delete" ELSE "none"
  /\ destroyer' = "swapped"
  /\ swapAt' = Len(handled)
  /\ UNCHANGED <<tasks, worker, current, p, accepted, handled>>

\* slip: no quit task
PushNothing ==
  /\ destroyer = "swapped"
  /\ destroyer' = "joining"
  /\ UNCHANGED <<tasks, process_, worker, current, p, accepted, handled, swapAt>>

\* ~ProcessorFifo(): push the quit task
PushQuit ==
  /\ destroyer = "swapped"
  /\ tasks' = Append(tasks, Quit)
  /\ destroyer' = "joining"
  /\ UNCHANGED <<process_, worker, current, p, accepted, handled, swapAt>>

\* slip: detach() for join()
Detach ==
  /\ destroyer = "joining"
  /\ destroyer' = "joined"
  /\ UNCHANGED <<tasks, process_, worker, current, p, accepted, handled, swapAt>>

\* ~ProcessorFifo(): join the worker
Join ==
  /\ destroyer = "joining"
  /\ worker = "exited"
  /\ destroyer' = "joined"
  /\ UNCHANGED <<tasks, process_, worker, current, p, accepted, handled, swapAt>>

Destroy == Swap \/ PushQuit \/ Join
Worker == Pop \/ CopyHandler \/ CallHandler

WorkerNext == (\E c \in Callers, t \in Tasks : Queue(c, t)) \/ Worker \/ Destroy

WorkerSpec == WorkerInit /\ [][WorkerNext]_workerVars

\* the worker thread is scheduled and the handlers return; a destructor that
\* has begun goes on
WorkerFairSpec == WorkerSpec /\ WF_workerVars(Worker) /\ WF_workerVars(PushQuit \/ Join)

-----------------------------------------------------------------------------
\* how many tasks have left the queue
Taken == Len(handled) + (IF current = None THEN 0 ELSE 1)

\* the tasks still to come, without the destructor's quit task
Pending == IF destroyer \in {"joining", "joined"} /\ worker # "exited"
           THEN Len(tasks) - 1 ELSE Len(tasks)

(* Nothing is lost, duplicated or overtaken: what has been handled, what is  *)
(* in the worker's hand and what is queued are together the accepted tasks,  *)
(* in the order in which queue() accepted them (processor_fifo.h:45-82).     *)
InOrder ==
  /\ Len(accepted) = Taken + Pending
  /\ current # None => current = accepted[Taken]
  /\ \A i \in 1..Pending : tasks[i] = accepted[Taken + i]

(* When the destructor returns the worker is gone and every accepted task    *)
(* went to a handler: a FIFO that is flushed by being destroyed               *)
(* (omx_component.cpp:1786-1798) keeps no client buffer.                      *)
DrainedAtJoin ==
  destroyer = "joined" => /\ worker = "exited"
                          /\ current = None
                          /\ Len(handled) = Len(accepted)

(* The handlers change once: after the first task that was deleted (or       *)
(* dropped) no task is processed any more.                                    *)
NoProcessAfterDelete ==
  \A i, j \in DOMAIN handled : i < j /\ handled[j] = "process" => handled[i] = "process"

(* After the swap at most one task still reaches process_, the one whose     *)
(* handler was already copied: every task queued behind it is deleted.        *)
AtMostOneLate ==
  destroyer # "alive" =>
    \A i \in DOMAIN handled : i > swapAt + 1 => handled[i] # "process"

(* A destructor that has begun returns: with fair handlers the join ends.    *)
DestroyReturns == destroyer # "alive" ~> destroyer = "joined"
=============================================================================
