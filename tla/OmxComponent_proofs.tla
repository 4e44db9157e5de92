------------------------ MODULE OmxComponent_proofs ------------------------
(***************************************************************************)
(* What holds of OmxComponent for any buffers, commands, clients and bounds: *)
(* the types, that the scheduler thread never joins a worker only it could    *)
(* release, and that the decoder runs exactly where the state says so.        *)
(***************************************************************************)
EXTENDS OmxComponent, TLAPS

\* the steps of "OMX - Sched" by the commands that take them
FlushPc    == {"unblock", "swap", "join", "reblock"}
SetStatePc == {"check", "populateIn", "populateOut", "unpopulateIn", "unpopulateOut",
               "start", "stop", "switch", "invalid"}
PortPc     == {"block", "restartPort", "waitEmpty", "waitFull", "reopen", "enabled"}

(* The step "OMX - Sched" is at tells what task it treats.                    *)
TaskOfPc ==
  /\ main.pc \in FlushPc \cup SetStatePc \cup PortPc =>
       main.task \in StateTasks \cup PortCommands
  /\ main.pc \in FlushPc => main.task.cmd # "EnablePort"
  /\ main.pc \in SetStatePc => main.task \in StateTasks
  /\ main.pc \in PortPc => main.task \in PortCommands

(* A worker whose promise is null meets no closed fence.                      *)
FencesKnown ==
  \A d \in Dirs :
    pause[d] \/ /\ worker[d].task # ClosedFence
                /\ \A i \in DOMAIN fifo[d] : fifo[d][i] # ClosedFence

(* While FIFOs are rebuilt no promise is pending.                             *)
OpenWhileFlushing ==
  main.pc \in {"swap", "join", "reblock"} => \A d \in Dirs : ~pause[d]

IInv == TypeOK /\ TaskOfPc /\ FencesKnown /\ OpenWhileFlushing

-----------------------------------------------------------------------------
(* The data                                                                 *)

LEMMA TaskFacts ==
  /\ \A t \in Fences : t.cmd = "SharedFence" /\ t.open \in BOOLEAN
  /\ \A t \in EmptyTasks : t.cmd = "EmptyBuffer" /\ t.data \in InBuffers /\ t.kind \in AllKinds
  /\ \A t \in FillTasks : t.cmd = "FillBuffer" /\ t.data \in OutBuffers
  /\ \A t \in StateTasks : t.cmd = "SetState" /\ t.data \in States
  /\ \A t \in PortCommands :
       t.cmd \in {"Flush", "DisablePort", "EnablePort"} /\ t.data \in Dirs
  /\ NoTask.cmd = "none"
BY DEF Fences, EmptyTasks, FillTasks, StateTasks, PortCommands, NoTask

(* A task that is not a buffer is a command.                                  *)
LEMMA MainTaskSplit ==
  ASSUME NEW t \in MainTasks, t \notin BufferTasks
  PROVE  t \in StateTasks \cup PortCommands
BY DEF MainTasks

LEMMA SequenceFacts ==
  ASSUME NEW S, NEW s \in Seq(S)
  PROVE  /\ \A e \in S : /\ Append(s, e) \in Seq(S)
                         /\ \A i \in DOMAIN Append(s, e) :
                              Append(s, e)[i] = e \/ \E j \in DOMAIN s : Append(s, e)[i] = s[j]
         /\ s # <<>> => /\ Head(s) \in S /\ Tail(s) \in Seq(S)
                        /\ 1 \in DOMAIN s /\ Head(s) = s[1]
                        /\ \A i \in DOMAIN Tail(s) : \E j \in DOMAIN s : Tail(s)[i] = s[j]
<1>1. ASSUME NEW e \in S
      PROVE  /\ Append(s, e) \in Seq(S)
             /\ \A i \in DOMAIN Append(s, e) :
                  Append(s, e)[i] = e \/ \E j \in DOMAIN s : Append(s, e)[i] = s[j]
  OBVIOUS
<1>2. ASSUME s # <<>>
      PROVE  /\ Head(s) \in S /\ Tail(s) \in Seq(S)
             /\ 1 \in DOMAIN s /\ Head(s) = s[1]
             /\ \A i \in DOMAIN Tail(s) : \E j \in DOMAIN s : Tail(s)[i] = s[j]
  BY <1>2
<1>3. QED
  BY <1>1, <1>2

(* A part of the state nothing writes keeps its type.                         *)
LEMMA Frame ==
  /\ StateTypeOK /\ UNCHANGED stateVars => StateTypeOK'
  /\ PortsTypeOK /\ UNCHANGED portVars => PortsTypeOK'
  /\ MainTypeOK /\ UNCHANGED <<mainQ, mainVars>> => MainTypeOK'
  /\ WorkersTypeOK /\ UNCHANGED workerVars => WorkersTypeOK'
  /\ ModuleTypeOK /\ UNCHANGED <<moduleVars, eosVars>> => ModuleTypeOK'
  /\ ClientTypeOK /\ UNCHANGED <<client, half, outstanding, countVars, lost>> => ClientTypeOK'
<1>1. StateTypeOK /\ UNCHANGED stateVars => StateTypeOK'
  BY DEF StateTypeOK, stateVars
<1>2. PortsTypeOK /\ UNCHANGED portVars => PortsTypeOK'
  BY DEF PortsTypeOK, portVars
<1>3. MainTypeOK /\ UNCHANGED <<mainQ, mainVars>> => MainTypeOK'
  BY DEF MainTypeOK, mainVars
<1>4. WorkersTypeOK /\ UNCHANGED workerVars => WorkersTypeOK'
  BY DEF WorkersTypeOK, workerVars
<1>5. ModuleTypeOK /\ UNCHANGED <<moduleVars, eosVars>> => ModuleTypeOK'
  BY DEF ModuleTypeOK, moduleVars, eosVars
<1>6. ClientTypeOK /\ UNCHANGED <<client, half, outstanding, countVars, lost>> => ClientTypeOK'
  BY DEF ClientTypeOK, countVars
<1>7. QED
  BY <1>1, <1>2, <1>3, <1>4, <1>5, <1>6

(* The fences                                                               *)

LEMMA FenceTypes ==
  /\ OpenFence \in Fences /\ ClosedFence \in Fences /\ OpenFence # ClosedFence
  /\ \A d \in Dirs : Fences \subseteq WorkerTasks(d)
  /\ \A d \in Dirs : \A t \in WorkerTasks(d) \cup {NoTask} :
       Released(t) \in WorkerTasks(d) \cup {NoTask} /\ Released(t) # ClosedFence
  /\ \A d \in Dirs : \A t \in WorkerTasks(d) : Released(t) \in WorkerTasks(d)
  /\ \A t \in Fences \cup BufferTasks :
       Released(t) \in Fences \cup BufferTasks /\ Released(t) # ClosedFence
  /\ \A t \in BufferTasks \cup {NoTask} : t # ClosedFence
<1>1. OpenFence \in Fences /\ ClosedFence \in Fences /\ OpenFence # ClosedFence
  BY DEF OpenFence, ClosedFence, Fences
<1>2. \A d \in Dirs : Fences \subseteq WorkerTasks(d)
  BY DEF WorkerTasks
<1>3. \A t \in BufferTasks \cup {NoTask} : t # ClosedFence /\ Released(t) = t
  BY TaskFacts DEF BufferTasks, ClosedFence, Released
<1>4. \A t \in Fences : Released(t) \in Fences /\ Released(t) # ClosedFence
  BY <1>1, TaskFacts DEF Released
<1>5. \A d \in Dirs : WorkerTasks(d) \subseteq Fences \cup BufferTasks
  BY DEF WorkerTasks, BufferTasks
<1>6. \A d \in Dirs : \A t \in WorkerTasks(d) : Released(t) \in WorkerTasks(d)
  BY <1>2, <1>3, <1>4, <1>5
<1>7. QED
  BY <1>1, <1>2, <1>3, <1>4, <1>5, <1>6

LEMMA UnblockFences ==
  ASSUME WorkersTypeOK, Unblock
  PROVE  WorkersTypeOK' /\ FencesKnown' /\ \A d \in Dirs : ~pause'[d]
<1>1. ASSUME NEW d \in Dirs
      PROVE  /\ fifo'[d] \in Seq(WorkerTasks(d)) /\ fifo'[d] \in Seq(Fences \cup BufferTasks)
             /\ \A i \in DOMAIN fifo'[d] : fifo'[d][i] # ClosedFence
  <2>1. /\ fifo[d] \in Seq(WorkerTasks(d)) /\ fifo[d] \in Seq(Fences \cup BufferTasks)
        /\ fifo'[d] = [i \in DOMAIN fifo[d] |-> Released(fifo[d][i])]
    BY <1>1 DEF Unblock, WorkersTypeOK
  <2>2. /\ DOMAIN fifo[d] = 1..Len(fifo[d]) /\ Len(fifo[d]) \in Nat
        /\ \A i \in DOMAIN fifo[d] :
             fifo[d][i] \in WorkerTasks(d) /\ fifo[d][i] \in Fences \cup BufferTasks
    BY <2>1
  <2>3. /\ fifo'[d] \in [1..Len(fifo[d]) -> WorkerTasks(d)]
        /\ fifo'[d] \in [1..Len(fifo[d]) -> Fences \cup BufferTasks]
    BY <1>1, <2>1, <2>2, FenceTypes
  <2>4. \A i \in DOMAIN fifo'[d] : fifo'[d][i] # ClosedFence
    BY <2>1, <2>2, FenceTypes
  <2>5. QED
    BY <2>2, <2>3, <2>4
<1>2. ASSUME NEW d \in Dirs
      PROVE  /\ worker'[d] \in Popped \cup {Idling}
             /\ worker'[d].task \in WorkerTasks(d) \cup {NoTask}
             /\ worker'[d].task # ClosedFence
  <2>1. /\ worker[d] \in Popped \cup {Idling}
        /\ worker[d].task \in WorkerTasks(d) \cup {NoTask}
        /\ worker'[d] = [worker[d] EXCEPT !.task = Released(@)]
    BY <1>2 DEF Unblock, WorkersTypeOK
  <2>2. CASE worker[d] \in Popped
    <3>1. worker[d].task \in Fences \cup BufferTasks
      BY <2>2 DEF Popped
    <3>2. worker'[d].task = Released(worker[d].task) /\ worker'[d] \in Popped
      BY <2>1, <2>2, <3>1, FenceTypes DEF Popped
    <3>3. QED
      BY <1>2, <2>1, <3>2, FenceTypes
  <2>3. CASE worker[d] = Idling
    <3>1. Released(NoTask) = NoTask
      BY TaskFacts DEF Released
    <3>2. worker'[d] = Idling /\ worker'[d].task = NoTask
      BY <2>1, <2>3, <3>1 DEF Idling
    <3>3. QED
      BY <3>2, FenceTypes
  <2>4. QED
    BY <2>1, <2>2, <2>3
<1>3. /\ pause' \in [Dirs -> BOOLEAN] /\ \A d \in Dirs : ~pause'[d]
      /\ fifo' \in [Dirs -> Seq(Fences \cup BufferTasks)]
      /\ worker' \in [Dirs -> Popped \cup {Idling}]
      /\ handler' \in [Dirs -> {"process", "delete"}]
  BY <1>1, <1>2 DEF Unblock, WorkersTypeOK
<1>4. QED
  BY <1>1, <1>2, <1>3 DEF WorkersTypeOK, FencesKnown

LEMMA BlockFences ==
  ASSUME WorkersTypeOK, FencesKnown, NEW ds \in SUBSET Dirs, Block(ds)
  PROVE  WorkersTypeOK' /\ FencesKnown'
<1> DEFINE new == {d \in ds : ~pause[d]}
<1>1. /\ pause' = [d \in Dirs |-> pause[d] \/ d \in new]
      /\ fifo' = [d \in Dirs |-> IF d \in new THEN Append(fifo[d], ClosedFence) ELSE fifo[d]]
      /\ worker' = worker /\ handler' = handler
  BY DEF Block
<1> HIDE DEF new
<1>2. ASSUME NEW d \in Dirs
      PROVE  fifo'[d] \in Seq(WorkerTasks(d)) /\ fifo'[d] \in Seq(Fences \cup BufferTasks)
  <2>1. fifo[d] \in Seq(WorkerTasks(d)) /\ fifo[d] \in Seq(Fences \cup BufferTasks)
    BY <1>2 DEF WorkersTypeOK
  <2>2. ClosedFence \in WorkerTasks(d) /\ ClosedFence \in Fences \cup BufferTasks
    BY <1>2, FenceTypes
  <2>3. /\ Append(fifo[d], ClosedFence) \in Seq(WorkerTasks(d))
        /\ Append(fifo[d], ClosedFence) \in Seq(Fences \cup BufferTasks)
    BY <2>1, <2>2, SequenceFacts
  <2>4. QED
    BY <1>1, <1>2, <2>1, <2>3
<1>3. WorkersTypeOK'
  BY <1>1, <1>2 DEF WorkersTypeOK
<1>4. ASSUME NEW d \in Dirs, ~pause'[d]
      PROVE  /\ worker'[d].task # ClosedFence
             /\ \A i \in DOMAIN fifo'[d] : fifo'[d][i] # ClosedFence
  <2>1. ~pause[d] /\ d \notin new
    BY <1>1, <1>4
  <2>2. fifo'[d] = fifo[d] /\ worker'[d] = worker[d]
    BY <1>1, <2>1
  <2>3. QED
    BY <2>1, <2>2 DEF FencesKnown
<1>5. QED
  BY <1>3, <1>4 DEF FencesKnown

(* What stays as it is keeps the rest of the invariant.                       *)
LEMMA FrameInv ==
  /\ TaskOfPc /\ UNCHANGED main => TaskOfPc'
  /\ FencesKnown /\ UNCHANGED workerVars => FencesKnown'
  /\ OpenWhileFlushing /\ UNCHANGED <<main, pause>> => OpenWhileFlushing'
BY DEF TaskOfPc, FencesKnown, OpenWhileFlushing, workerVars

-----------------------------------------------------------------------------
(* The client's steps                                                       *)

LEMMA BufferDirs ==
  /\ \A b \in Buffers : DirOf(b) \in Dirs
  /\ InBuffers \subseteq Buffers /\ OutBuffers \subseteq Buffers /\ None \notin Buffers
BY BuffersAssumption DEF DirOf, Dirs, Buffers

\* neither a worker nor "OMX - Sched" is where it was not
LEMMA ClientFrame ==
  ASSUME IInv, UNCHANGED <<mainVars, workerVars>>
  PROVE  WorkersTypeOK' /\ TaskOfPc' /\ FencesKnown' /\ OpenWhileFlushing'
BY Frame, FrameInv DEF IInv, TypeOK, mainVars, workerVars

LEMMA QueuePortCommandType ==
  ASSUME IInv, NEW cmd \in {"Flush", "DisablePort", "EnablePort"}, NEW d \in Dirs,
         QueuePortCommand(cmd, d), UNCHANGED mainVars
  PROVE  StateTypeOK' /\ PortsTypeOK' /\ MainTypeOK' /\ outstanding' \in Int
<1> USE DEF IInv, TypeOK
<1>1. [cmd |-> cmd, data |-> d] \in MainTasks
  BY DEF MainTasks, PortCommands
<1>2. mainQ' \in Seq(MainTasks)
  BY <1>1, SequenceFacts DEF QueuePortCommand, MainTypeOK
<1>3. MainTypeOK'
  BY <1>2 DEF MainTypeOK, mainVars
<1>4. StateTypeOK'
  BY DEF QueuePortCommand, StateTypeOK
<1>5. PortsTypeOK'
  BY DEF QueuePortCommand, PortsTypeOK
<1>6. QED
  BY <1>3, <1>4, <1>5 DEF QueuePortCommand, ClientTypeOK

LEMMA QueueStateCommandType ==
  ASSUME IInv, NEW s \in States, QueueStateCommand(s), UNCHANGED mainVars
  PROVE  StateTypeOK' /\ PortsTypeOK' /\ MainTypeOK' /\ outstanding' \in Int
<1> USE DEF IInv, TypeOK
<1>1. [cmd |-> "SetState", data |-> s, opt |-> FALSE] \in MainTasks
  BY DEF MainTasks, StateTasks
<1>2. mainQ' \in Seq(MainTasks)
  BY <1>1, SequenceFacts DEF QueueStateCommand, MainTypeOK
<1>3. MainTypeOK'
  BY <1>2 DEF MainTypeOK, mainVars
<1>4. StateTypeOK'
  BY DEF QueueStateCommand, StateTypeOK, GetTransientState
<1>5. PortsTypeOK'
  BY Frame DEF QueueStateCommand
<1>6. QED
  BY <1>3, <1>4, <1>5 DEF QueueStateCommand, ClientTypeOK

LEMMA SendCommandInv ==
  ASSUME IInv, NEW c \in StateCommands \cup PortCommands \cup AllCommands, SendCommand(c)
  PROVE  IInv'
<1> USE DEF IInv, TypeOK
<1>1. /\ UNCHANGED <<mainVars, workerVars, moduleVars, eosVars, client, eosSent, faults,
                     misuse, lost>>
      /\ sent' = sent + 1
  BY DEF SendCommand
<1>2. StateTypeOK' /\ PortsTypeOK' /\ MainTypeOK' /\ outstanding' \in Int
      /\ half' \in AllCommands \cup {NoTask}
  <2>1. CASE c \in StateCommands
    <3>1. c.cmd = "SetState" /\ c.data \in States
      BY <2>1 DEF StateCommands
    <3>2. QueueStateCommand(c.data) /\ half' = half
      BY <3>1 DEF SendCommand
    <3>3. QED
      BY <1>1, <3>1, <3>2, QueueStateCommandType DEF ClientTypeOK
  <2>2. CASE c \in AllCommands
    <3>1. c.cmd \in {"Flush", "DisablePort", "EnablePort"} /\ c.data = "all" /\ "in" \in Dirs
      BY <2>2 DEF AllCommands, Dirs
    <3>2. QueuePortCommand(c.cmd, "in") /\ half' = c
      BY <3>1 DEF SendCommand
    <3>3. QED
      BY <1>1, <2>2, <3>1, <3>2, QueuePortCommandType
  <2>3. CASE c \in PortCommands
    <3>1. c.cmd \in {"Flush", "DisablePort", "EnablePort"} /\ c.data \in Dirs
      BY <2>3, TaskFacts
    <3>2. c.cmd # "SetState" /\ c.data # "all"
      BY <3>1 DEF Dirs
    <3>3. QueuePortCommand(c.cmd, c.data) /\ half' = half
      BY <3>2 DEF SendCommand
    <3>4. QED
      BY <1>1, <3>1, <3>3, QueuePortCommandType DEF ClientTypeOK
  <2>4. QED
    BY <2>1, <2>2, <2>3
<1>3. ModuleTypeOK'
  BY <1>1, Frame
<1>4. ClientTypeOK'
  BY <1>1, <1>2 DEF ClientTypeOK
<1>5. QED
  BY <1>1, <1>2, <1>3, <1>4, ClientFrame

LEMMA SendSecondHalfInv == ASSUME IInv, SendSecondHalf PROVE IInv'
<1> USE DEF IInv, TypeOK
<1>1. /\ half.cmd \in {"Flush", "DisablePort", "EnablePort"} /\ "out" \in Dirs
      /\ QueuePortCommand(half.cmd, "out")
      /\ half' = NoTask
      /\ UNCHANGED <<mainVars, workerVars, moduleVars, eosVars, client, countVars, lost>>
  BY DEF SendSecondHalf, ClientTypeOK, AllCommands, Dirs
<1>2. StateTypeOK' /\ PortsTypeOK' /\ MainTypeOK' /\ outstanding' \in Int
  BY <1>1, QueuePortCommandType
<1>3. ModuleTypeOK'
  BY <1>1, Frame
<1>4. ClientTypeOK'
  BY <1>1, <1>2 DEF ClientTypeOK, countVars
<1>5. QED
  BY <1>1, <1>2, <1>3, <1>4, ClientFrame

LEMMA UseBufferInv == ASSUME IInv, NEW b \in Buffers, UseBuffer(b) PROVE IInv'
<1> USE DEF IInv, TypeOK
<1> DEFINE d == DirOf(b)
<1>1. d \in Dirs
  BY BufferDirs
<1>2. /\ UNCHANGED <<stateVars, enable, toEnable, toDisable, portError, mainQ, mainVars,
                     workerVars, moduleVars, eosVars, half, outstanding, countVars, lost>>
      /\ client' = client \cup {b}
      /\ portBuffers' = [portBuffers EXCEPT ![d] = @ \cup {b}]
      /\ \E full \in BOOLEAN : playable' = [playable EXCEPT ![d] = full]
  BY DEF UseBuffer
<1>3. PortsTypeOK'
  BY <1>1, <1>2 DEF PortsTypeOK
<1>4. ClientTypeOK'
  BY <1>2 DEF ClientTypeOK, countVars
<1>5. StateTypeOK' /\ MainTypeOK' /\ ModuleTypeOK'
  BY <1>2, Frame
<1>6. QED
  BY <1>2, <1>3, <1>4, <1>5, ClientFrame

LEMMA UseBufferFailsInv == ASSUME IInv, NEW d \in Dirs, UseBufferFails(d) PROVE IInv'
<1> USE DEF IInv, TypeOK
<1>1. PortsTypeOK'
  BY DEF UseBufferFails, PortsTypeOK
<1>2. ClientTypeOK'
  BY DEF UseBufferFails, ClientTypeOK
<1>3. StateTypeOK' /\ MainTypeOK' /\ ModuleTypeOK'
  BY Frame DEF UseBufferFails
<1>4. QED
  BY <1>1, <1>2, <1>3, ClientFrame DEF UseBufferFails

LEMMA FreeBufferInv == ASSUME IInv, NEW b \in Buffers, FreeBuffer(b) PROVE IInv'
<1> USE DEF IInv, TypeOK
<1> DEFINE d == DirOf(b)
<1>1. d \in Dirs
  BY BufferDirs
<1>2. /\ UNCHANGED <<stateVars, enable, toEnable, toDisable, portError, mainQ, mainVars,
                     workerVars, moduleVars, eosVars, half, outstanding, sent, eosSent,
                     faults, lost>>
      /\ client' = client \ {b}
      /\ portBuffers' = [portBuffers EXCEPT ![d] = @ \ {b}]
      /\ \E some \in BOOLEAN : playable' = [playable EXCEPT ![d] = some]
      /\ misuse' = misuse \/ misuse' = misuse + 1
  BY DEF FreeBuffer
<1>3. PortsTypeOK'
  BY <1>1, <1>2 DEF PortsTypeOK
<1>4. ClientTypeOK'
  BY <1>2 DEF ClientTypeOK
<1>5. StateTypeOK' /\ MainTypeOK' /\ ModuleTypeOK'
  BY <1>2, Frame
<1>6. QED
  BY <1>2, <1>3, <1>4, <1>5, ClientFrame

LEMMA EmptyThisBufferInv ==
  ASSUME IInv, NEW b \in InBuffers, NEW k \in Kinds, EmptyThisBuffer(b, k)
  PROVE  IInv'
<1> USE DEF IInv, TypeOK
<1>1. [cmd |-> "EmptyBuffer", data |-> b, kind |-> k] \in MainTasks
  BY ClientAssumption DEF MainTasks, BufferTasks, EmptyTasks
<1>2. mainQ' \in Seq(MainTasks)
  BY <1>1, SequenceFacts DEF EmptyThisBuffer, MainTypeOK
<1>3. MainTypeOK'
  BY <1>2 DEF EmptyThisBuffer, MainTypeOK, mainVars
<1>4. ClientTypeOK'
  BY DEF EmptyThisBuffer, ClientTypeOK
<1>5. StateTypeOK' /\ PortsTypeOK' /\ ModuleTypeOK'
  BY Frame DEF EmptyThisBuffer
<1>6. QED
  BY <1>3, <1>4, <1>5, ClientFrame DEF EmptyThisBuffer

LEMMA FillThisBufferInv == ASSUME IInv, NEW b \in Buffers, FillThisBuffer(b) PROVE IInv'
<1> USE DEF IInv, TypeOK
<1>1. [cmd |-> "FillBuffer", data |-> b] \in MainTasks
  BY DEF FillThisBuffer, MainTasks, BufferTasks, FillTasks
<1>2. mainQ' \in Seq(MainTasks)
  BY <1>1, SequenceFacts DEF FillThisBuffer, MainTypeOK
<1>3. MainTypeOK'
  BY <1>2 DEF FillThisBuffer, MainTypeOK, mainVars
<1>4. ClientTypeOK'
  BY DEF FillThisBuffer, ClientTypeOK, countVars
<1>5. StateTypeOK' /\ PortsTypeOK' /\ ModuleTypeOK'
  BY Frame DEF FillThisBuffer
<1>6. QED
  BY <1>3, <1>4, <1>5, ClientFrame DEF FillThisBuffer

LEMMA ClientInv == ASSUME IInv, Client PROVE IInv'
<1>1. ASSUME NEW c \in {m[2] : m \in {m \in MaySend : m[1] = state}}, SendCommand(c)
      PROVE  IInv'
  BY <1>1, ClientAssumption, SendCommandInv
<1>2. QED
  BY <1>1, SendSecondHalfInv, UseBufferInv, FreeBufferInv, FillThisBufferInv,
     EmptyThisBufferInv, UseBufferFailsInv DEF Client

-----------------------------------------------------------------------------
(* "OMX - Sched"                                                            *)

LEMMA GotoType ==
  ASSUME MainTypeOK, NEW pc \in MainPc, Goto(pc)
  PROVE  /\ main' \in [pc : MainPc, task : MainTasks \cup {NoTask}]
         /\ main'.pc = pc /\ main'.task = main.task
BY DEF MainTypeOK, Goto

LEMMA AnswerType ==
  ASSUME outstanding \in Int, Answer
  PROVE  /\ main' \in [pc : MainPc, task : MainTasks \cup {NoTask}]
         /\ main'.pc = "take" /\ outstanding' \in Int
<1>1. outstanding' = outstanding \/ outstanding' = outstanding - 1
  BY DEF Answer
<1>2. QED
  BY <1>1 DEF Answer, MainPc

\* between two commands nothing is said of the task
LEMMA TakeFrame ==
  ASSUME main'.pc = "take" PROVE TaskOfPc' /\ OpenWhileFlushing'
BY DEF TaskOfPc, OpenWhileFlushing, FlushPc, SetStatePc, PortPc

\* from one step of a command to a later one
LEMMA SetStateFrame ==
  ASSUME main.task \in StateTasks, main'.task = main.task, main'.pc \in SetStatePc
  PROVE  TaskOfPc' /\ OpenWhileFlushing'
BY DEF TaskOfPc, OpenWhileFlushing, FlushPc, SetStatePc, PortPc

LEMMA PortFrame ==
  ASSUME main.task \in PortCommands, main'.task = main.task,
         main'.pc \in PortPc \cup {"restart", "flushEos"}
  PROVE  TaskOfPc' /\ OpenWhileFlushing'
BY DEF TaskOfPc, OpenWhileFlushing, FlushPc, SetStatePc, PortPc

LEMMA MainDispatchInv == ASSUME IInv, MainDispatch PROVE IInv'
<1> USE DEF IInv, TypeOK
<1> DEFINE t == Head(mainQ)
           d == IF t.cmd = "EmptyBuffer" THEN "in" ELSE "out"
<1>1. /\ t \in BufferTasks /\ mainQ # <<>> /\ mainQ' = Tail(mainQ)
      /\ fifo' = [fifo EXCEPT ![d] = Append(@, t)]
      /\ UNCHANGED <<stateVars, portVars, mainVars, worker, handler, pause, moduleVars,
                     eosVars, client, half, outstanding, countVars, lost>>
  BY DEF MainDispatch
<1>2. d \in Dirs /\ t \in WorkerTasks(d) /\ t \in Fences \cup BufferTasks
  BY <1>1, TaskFacts DEF Dirs, BufferTasks, WorkerTasks
<1>3. t # ClosedFence
  BY <1>1, FenceTypes
<1> HIDE DEF t, d
<1>4. MainTypeOK'
  <2>1. Tail(mainQ) \in Seq(MainTasks)
    BY <1>1, SequenceFacts DEF MainTypeOK
  <2>2. QED
    BY <1>1, <2>1 DEF MainTypeOK, mainVars
<1>5. /\ fifo'[d] = Append(fifo[d], t) /\ fifo[d] \in Seq(WorkerTasks(d))
      /\ fifo[d] \in Seq(Fences \cup BufferTasks)
      /\ \A e \in Dirs : e # d => fifo'[e] = fifo[e]
  BY <1>1, <1>2 DEF WorkersTypeOK
<1>6. /\ fifo'[d] \in Seq(WorkerTasks(d)) /\ fifo'[d] \in Seq(Fences \cup BufferTasks)
      /\ \A i \in DOMAIN fifo'[d] :
           fifo'[d][i] = t \/ \E j \in DOMAIN fifo[d] : fifo'[d][i] = fifo[d][j]
  BY <1>2, <1>5, SequenceFacts
<1>7. WorkersTypeOK'
  BY <1>1, <1>2, <1>5, <1>6 DEF WorkersTypeOK
<1>8. FencesKnown'
  BY <1>1, <1>2, <1>3, <1>5, <1>6 DEF FencesKnown
<1>9. StateTypeOK' /\ PortsTypeOK' /\ ModuleTypeOK' /\ ClientTypeOK'
  BY <1>1, Frame
<1>10. TaskOfPc' /\ OpenWhileFlushing'
  BY <1>1, FrameInv DEF mainVars
<1>11. QED
  BY <1>4, <1>7, <1>8, <1>9, <1>10

LEMMA MainTakeInv == ASSUME IInv, MainTake PROVE IInv'
<1> USE DEF IInv, TypeOK
<1> DEFINE t == Head(mainQ)
<1>1. /\ mainQ # <<>> /\ t \notin BufferTasks /\ mainQ' = Tail(mainQ) /\ main.pc = "take"
      /\ UNCHANGED <<stateVars, portVars, workerVars, moduleVars, eosVars, client, half,
                     countVars, lost>>
      /\ IF AlreadyDone(t)
         THEN outstanding' = outstanding - 1 /\ UNCHANGED mainVars
         ELSE /\ main' = [pc |-> BeginsWith(t), task |-> t]
              /\ todo' = IF BeginsWith(t) # "unblock" THEN {}
                         ELSE IF t.cmd = "DisablePort" THEN {t.data} ELSE Dirs
              /\ UNCHANGED <<reblock, outstanding>>
  BY DEF MainTake
<1>2. t \in MainTasks /\ mainQ' \in Seq(MainTasks)
  BY <1>1, SequenceFacts DEF MainTypeOK
<1>3. t \in StateTasks \cup PortCommands
  BY <1>1, <1>2, MainTaskSplit
<1>4. /\ t \in StateTasks => BeginsWith(t) \in {"unblock", "check"}
      /\ t \in PortCommands => BeginsWith(t) = IF t.cmd = "EnablePort" THEN "waitFull"
                                               ELSE "unblock"
      /\ t \in PortCommands => t.data \in Dirs
      /\ t \in StateTasks => t.cmd = "SetState"
      /\ t \in PortCommands => t.cmd # "SetState"
  BY TaskFacts DEF BeginsWith
<1> HIDE DEF t
<1>5. MainTypeOK'
  BY <1>1, <1>2, <1>3, <1>4 DEF MainTypeOK, mainVars, MainPc
<1>6. ClientTypeOK'
  BY <1>1 DEF ClientTypeOK, countVars
<1>7. StateTypeOK' /\ PortsTypeOK' /\ WorkersTypeOK' /\ ModuleTypeOK' /\ FencesKnown'
  BY <1>1, Frame, FrameInv
<1>8. TaskOfPc' /\ OpenWhileFlushing'
  <2>1. CASE AlreadyDone(t)
    BY <1>1, <2>1, TakeFrame DEF mainVars
  <2>2. CASE ~AlreadyDone(t)
    BY <1>1, <1>3, <1>4, <2>2
       DEF TaskOfPc, OpenWhileFlushing, FlushPc, SetStatePc, PortPc
  <2>3. QED
    BY <2>1, <2>2
<1>9. QED
  BY <1>5, <1>6, <1>7, <1>8

(* FlushFillEmptyBuffers                                                    *)

LEMMA MainUnblockInv == ASSUME IInv, MainUnblock PROVE IInv'
<1> USE DEF IInv, TypeOK
<1>1. /\ Unblock /\ Goto("swap") /\ main.pc = "unblock"
      /\ reblock' = {d \in Dirs : pause[d]}
      /\ UNCHANGED <<stateVars, portVars, mainQ, todo, moduleVars, eosVars, client, half,
                     outstanding, countVars, lost>>
  BY DEF MainUnblock
<1>2. main'.pc = "swap" /\ main'.task = main.task /\ MainTypeOK'
  BY <1>1, GotoType DEF MainTypeOK, MainPc
<1>3. WorkersTypeOK' /\ FencesKnown' /\ OpenWhileFlushing'
  BY <1>1, UnblockFences DEF OpenWhileFlushing
<1>4. TaskOfPc'
  BY <1>1, <1>2 DEF TaskOfPc, FlushPc, SetStatePc, PortPc
<1>5. StateTypeOK' /\ PortsTypeOK' /\ ModuleTypeOK' /\ ClientTypeOK'
  BY <1>1, Frame
<1>6. QED
  BY <1>2, <1>3, <1>4, <1>5

LEMMA MainSwapInv == ASSUME IInv, MainSwap PROVE IInv'
<1> USE DEF IInv, TypeOK
<1>1. main'.pc = "join" /\ main'.task = main.task /\ MainTypeOK' /\ main.pc = "swap"
  BY GotoType DEF MainSwap, MainTypeOK, MainPc
<1>2. WorkersTypeOK' /\ FencesKnown'
  BY DEF MainSwap, WorkersTypeOK, FencesKnown
<1>3. TaskOfPc' /\ OpenWhileFlushing'
  BY <1>1 DEF MainSwap, TaskOfPc, OpenWhileFlushing, FlushPc, SetStatePc, PortPc
<1>4. StateTypeOK' /\ PortsTypeOK' /\ ModuleTypeOK' /\ ClientTypeOK'
  BY Frame DEF MainSwap
<1>5. QED
  BY <1>1, <1>2, <1>3, <1>4

LEMMA MainJoinInv == ASSUME IInv, MainJoin PROVE IInv'
<1> USE DEF IInv, TypeOK
<1>1. \E pc \in {"reblock", "swap"} : Goto(pc)
  BY DEF MainJoin
<1>2. /\ main'.pc \in {"reblock", "swap"} /\ main'.task = main.task
      /\ MainTypeOK' /\ main.pc = "join"
  BY <1>1, GotoType DEF MainJoin, MainTypeOK, MainPc
<1>3. WorkersTypeOK' /\ FencesKnown'
  BY DEF MainJoin, WorkersTypeOK, FencesKnown
<1>4. TaskOfPc' /\ OpenWhileFlushing'
  BY <1>2 DEF MainJoin, TaskOfPc, OpenWhileFlushing, FlushPc, SetStatePc, PortPc
<1>5. StateTypeOK' /\ PortsTypeOK' /\ ModuleTypeOK' /\ ClientTypeOK'
  BY Frame DEF MainJoin
<1>6. QED
  BY <1>2, <1>3, <1>4, <1>5

LEMMA MainReblockInv == ASSUME IInv, MainReblock PROVE IInv'
<1> USE DEF IInv, TypeOK
<1>1. /\ Block(reblock) /\ reblock' = {} /\ main.pc = "reblock"
      /\ Goto(CASE main.task.cmd = "SetState" -> "check"
                [] main.task.cmd = "Flush" -> "restart"
                [] main.task.cmd = "DisablePort" -> "block")
      /\ UNCHANGED <<stateVars, portVars, mainQ, todo, moduleVars, eosVars, client, half,
                     outstanding, countVars, lost>>
  BY DEF MainReblock
<1>2. /\ main.task \in StateTasks \cup PortCommands /\ main.task.cmd # "EnablePort"
      /\ main.task \in StateTasks => main.task.cmd = "SetState"
      /\ main.task \in PortCommands => main.task.cmd \in {"Flush", "DisablePort"}
  BY <1>1, TaskFacts DEF TaskOfPc, FlushPc
<1>3. PICK pc \in MainPc :
        /\ Goto(pc)
        /\ main.task \in StateTasks => pc = "check"
        /\ main.task \in PortCommands => pc \in {"restart", "block"}
  BY <1>1, <1>2 DEF MainPc
<1>4. main'.pc = pc /\ main'.task = main.task /\ MainTypeOK'
  BY <1>1, <1>3, GotoType DEF MainTypeOK
<1>5. WorkersTypeOK' /\ FencesKnown'
  BY <1>1, BlockFences DEF MainTypeOK
<1>6. TaskOfPc' /\ OpenWhileFlushing'
  <2>1. CASE main.task \in StateTasks
    BY <1>3, <1>4, <2>1, SetStateFrame DEF SetStatePc
  <2>2. CASE main.task \in PortCommands
    BY <1>3, <1>4, <2>2, PortFrame DEF PortPc
  <2>3. QED
    BY <1>2, <2>1, <2>2
<1>7. StateTypeOK' /\ PortsTypeOK' /\ ModuleTypeOK' /\ ClientTypeOK'
  BY <1>1, Frame
<1>8. QED
  BY <1>4, <1>5, <1>6, <1>7

(* The codec's side of a command                                            *)

LEMMA DestroyedType ==
  ASSUME ModuleTypeOK, client \subseteq Buffers, Destroyed
  PROVE  held' \in [Dirs -> SUBSET Buffers] /\ eosAsked' \in Nat /\ client' \subseteq Buffers
BY DEF ModuleTypeOK, Destroyed, Dirs

LEMMA CreateType ==
  ASSUME faults \in Nat, Create
  PROVE  module' \in {"stopped", "started", "broken"} /\ faults' \in Nat
BY DEF Create, FailedStart

LEMMA ModuleStopType ==
  ASSUME ModuleTypeOK, client \subseteq Buffers, ModuleStop, UNCHANGED eosVars
  PROVE  ModuleTypeOK' /\ client' \subseteq Buffers /\ module' = "stopped"
<1>1. CASE module = "stopped"
  BY <1>1, Frame DEF ModuleStop, moduleVars
<1>2. CASE module # "stopped"
  BY <1>2, DestroyedType DEF ModuleStop, ModuleTypeOK, eosVars
<1>3. QED
  BY <1>1, <1>2

LEMMA ModuleRestartType ==
  ASSUME ModuleTypeOK, client \subseteq Buffers, faults \in Nat, ModuleRestart,
         UNCHANGED eosVars
  PROVE  ModuleTypeOK' /\ client' \subseteq Buffers /\ faults' \in Nat
<1>1. CASE module = "stopped"
  BY <1>1, Frame DEF ModuleRestart
<1>2. CASE module # "stopped"
  BY <1>2, DestroyedType, CreateType DEF ModuleRestart, ModuleTypeOK, eosVars
<1>3. QED
  BY <1>1, <1>2

(* TreatSetStateCommand                                                     *)

\* a step of TreatSetStateCommand that either ends it or goes on to another
LEMMA SetStateStep ==
  ASSUME IInv, main.pc \in SetStatePc, UNCHANGED <<mainQ, todo, reblock>>,
         Answer \/ (outstanding' = outstanding /\ \E pc \in SetStatePc : Goto(pc))
  PROVE  MainTypeOK' /\ outstanding' \in Int /\ TaskOfPc' /\ OpenWhileFlushing'
<1> USE DEF IInv, TypeOK
<1>1. main.task \in StateTasks
  BY DEF TaskOfPc
<1>2. CASE Answer
  BY <1>2, AnswerType, TakeFrame DEF MainTypeOK, ClientTypeOK
<1>3. ASSUME outstanding' = outstanding, NEW pc \in SetStatePc, Goto(pc)
      PROVE  MainTypeOK' /\ outstanding' \in Int /\ TaskOfPc' /\ OpenWhileFlushing'
  <2>1. pc \in MainPc
    BY DEF SetStatePc, MainPc
  <2>2. main'.pc = pc /\ main'.task = main.task /\ MainTypeOK'
    BY <1>3, <2>1, GotoType DEF MainTypeOK
  <2>3. QED
    BY <1>1, <1>3, <2>2, SetStateFrame DEF ClientTypeOK
<1>4. QED
  BY <1>2, <1>3

LEMMA MainCheckInv == ASSUME IInv, MainCheck PROVE IInv'
<1> USE DEF IInv, TypeOK
<1>1. /\ main.pc \in SetStatePc
      /\ Answer \/ (outstanding' = outstanding /\ \E pc \in SetStatePc : Goto(pc))
      /\ UNCHANGED <<stateVars, portVars, mainQ, todo, reblock, workerVars, moduleVars,
                     eosVars, client, half, countVars, lost>>
  BY DEF MainCheck, SetStatePc
<1>2. MainTypeOK' /\ outstanding' \in Int /\ TaskOfPc' /\ OpenWhileFlushing'
  BY <1>1, SetStateStep
<1>3. ClientTypeOK'
  BY <1>1, <1>2 DEF ClientTypeOK, countVars
<1>4. StateTypeOK' /\ PortsTypeOK' /\ WorkersTypeOK' /\ ModuleTypeOK' /\ FencesKnown'
  BY <1>1, Frame, FrameInv
<1>5. QED
  BY <1>2, <1>3, <1>4

LEMMA MainPopulateInv == ASSUME IInv, NEW d \in Dirs, MainPopulate(d) PROVE IInv'
<1> USE DEF IInv, TypeOK
<1>1. /\ main.pc \in SetStatePc
      /\ portError' = [portError EXCEPT ![d] = FALSE]
      /\ Answer \/ (outstanding' = outstanding /\ \E pc \in SetStatePc : Goto(pc))
      /\ UNCHANGED <<stateVars, enable, toEnable, toDisable, playable, portBuffers, mainQ,
                     todo, reblock, workerVars, moduleVars, eosVars, client, half,
                     countVars, lost>>
  BY DEF MainPopulate, SetStatePc
<1>2. MainTypeOK' /\ outstanding' \in Int /\ TaskOfPc' /\ OpenWhileFlushing'
  BY <1>1, SetStateStep
<1>3. PortsTypeOK'
  BY <1>1 DEF PortsTypeOK
<1>4. ClientTypeOK'
  BY <1>1, <1>2 DEF ClientTypeOK, countVars
<1>5. StateTypeOK' /\ WorkersTypeOK' /\ ModuleTypeOK' /\ FencesKnown'
  BY <1>1, Frame, FrameInv
<1>6. QED
  BY <1>2, <1>3, <1>4, <1>5

LEMMA MainUnpopulateInv == ASSUME IInv, NEW d \in Dirs, MainUnpopulate(d) PROVE IInv'
<1> USE DEF IInv, TypeOK
<1>1. /\ main.pc \in SetStatePc
      /\ portError' = [portError EXCEPT ![d] = FALSE]
      /\ transientState' \in {transientState, MaxTransient}
      /\ Answer \/ (outstanding' = outstanding /\ \E pc \in SetStatePc : Goto(pc))
      /\ UNCHANGED <<state, shouldFire, enable, toEnable, toDisable, playable, portBuffers,
                     mainQ, todo, reblock, workerVars, moduleVars, eosVars, client, half,
                     countVars, lost>>
  BY DEF MainUnpopulate, SetStatePc
<1>2. MainTypeOK' /\ outstanding' \in Int /\ TaskOfPc' /\ OpenWhileFlushing'
  BY <1>1, SetStateStep
<1>3. PortsTypeOK' /\ StateTypeOK'
  BY <1>1 DEF PortsTypeOK, StateTypeOK
<1>4. ClientTypeOK'
  BY <1>1, <1>2 DEF ClientTypeOK, countVars
<1>5. WorkersTypeOK' /\ ModuleTypeOK' /\ FencesKnown'
  BY <1>1, Frame, FrameInv
<1>6. QED
  BY <1>2, <1>3, <1>4, <1>5

LEMMA MainStartInv == ASSUME IInv, MainStart PROVE IInv'
<1> USE DEF IInv, TypeOK
<1>1. /\ main.pc \in SetStatePc
      /\ Answer \/ (outstanding' = outstanding /\ \E pc \in SetStatePc : Goto(pc))
      /\ shouldFire' = shouldFire \/ shouldFire' \in BOOLEAN
      /\ Create \/ UNCHANGED <<module, faults>>
      /\ UNCHANGED <<state, transientState, portVars, mainQ, todo, reblock, workerVars,
                     held, eosAsked, eosVars, client, half, sent, eosSent, misuse, lost>>
  BY DEF MainStart, SetStatePc
<1>2. MainTypeOK' /\ outstanding' \in Int /\ TaskOfPc' /\ OpenWhileFlushing'
  BY <1>1, SetStateStep
<1>3. StateTypeOK'
  BY <1>1 DEF StateTypeOK
<1>4. ModuleTypeOK' /\ ClientTypeOK'
  BY <1>1, <1>2, CreateType DEF ModuleTypeOK, ClientTypeOK, eosVars
<1>5. PortsTypeOK' /\ WorkersTypeOK' /\ FencesKnown'
  BY <1>1, Frame, FrameInv
<1>6. QED
  BY <1>2, <1>3, <1>4, <1>5

LEMMA MainStopInv == ASSUME IInv, MainStop PROVE IInv'
<1> USE DEF IInv, TypeOK
<1>1. MainTypeOK' /\ outstanding' \in Int /\ TaskOfPc' /\ OpenWhileFlushing'
  BY SetStateStep DEF MainStop, SetStatePc
<1>2. ModuleTypeOK' /\ client' \subseteq Buffers
  BY ModuleStopType DEF MainStop, ClientTypeOK
<1>3. ClientTypeOK'
  BY <1>1, <1>2 DEF MainStop, ClientTypeOK, countVars
<1>4. StateTypeOK' /\ PortsTypeOK' /\ WorkersTypeOK' /\ FencesKnown'
  BY Frame, FrameInv DEF MainStop
<1>5. QED
  BY <1>1, <1>2, <1>3, <1>4

LEMMA MainSwitchInv == ASSUME IInv, MainSwitch PROVE IInv'
<1> USE DEF IInv, TypeOK
<1>1. /\ main.pc \in SetStatePc /\ state' = main.task.data /\ Answer
      /\ Block(Dirs) \/ Unblock \/ UNCHANGED workerVars
      /\ UNCHANGED <<transientState, shouldFire, portVars, mainQ, todo, reblock,
                     moduleVars, eosVars, client, half, countVars, lost>>
  BY DEF MainSwitch, SetStatePc
<1>2. MainTypeOK' /\ outstanding' \in Int /\ TaskOfPc' /\ OpenWhileFlushing'
  BY <1>1, SetStateStep
<1>3. StateTypeOK'
  BY <1>1, TaskFacts DEF StateTypeOK, TaskOfPc
<1>4. WorkersTypeOK' /\ FencesKnown'
  BY <1>1, BlockFences, UnblockFences, Frame, FrameInv
<1>5. ClientTypeOK'
  BY <1>1, <1>2 DEF ClientTypeOK, countVars
<1>6. PortsTypeOK' /\ ModuleTypeOK'
  BY <1>1, Frame
<1>7. QED
  BY <1>2, <1>3, <1>4, <1>5, <1>6

LEMMA MainInvalidInv == ASSUME IInv, MainInvalid PROVE IInv'
<1> USE DEF IInv, TypeOK
<1>1. MainTypeOK' /\ outstanding' \in Int /\ TaskOfPc' /\ OpenWhileFlushing'
  BY SetStateStep DEF MainInvalid, SetStatePc
<1>2. ModuleTypeOK' /\ client' \subseteq Buffers
  BY ModuleStopType DEF MainInvalid, ClientTypeOK
<1>3. ClientTypeOK'
  BY <1>1, <1>2 DEF MainInvalid, ClientTypeOK, countVars
<1>4. StateTypeOK'
  BY DEF MainInvalid, StateTypeOK, States
<1>5. PortsTypeOK' /\ WorkersTypeOK' /\ FencesKnown'
  BY Frame, FrameInv DEF MainInvalid
<1>6. QED
  BY <1>1, <1>2, <1>3, <1>4, <1>5

(* TreatFlushCommand, TreatDisablePortCommand and TreatEnablePortCommand     *)

LEMMA MainRestartInv == ASSUME IInv, MainRestart PROVE IInv'
<1> USE DEF IInv, TypeOK
<1>1. main'.pc = "flushEos" /\ main'.task = main.task /\ MainTypeOK'
  BY GotoType DEF MainRestart, MainTypeOK, MainPc
<1>2. ModuleTypeOK' /\ client' \subseteq Buffers /\ faults' \in Nat
  BY ModuleRestartType DEF MainRestart, ClientTypeOK
<1>3. ClientTypeOK'
  BY <1>2 DEF MainRestart, ClientTypeOK
<1>4. TaskOfPc' /\ OpenWhileFlushing'
  BY <1>1 DEF TaskOfPc, OpenWhileFlushing, FlushPc, SetStatePc, PortPc
<1>5. StateTypeOK' /\ PortsTypeOK' /\ WorkersTypeOK' /\ FencesKnown'
  BY Frame, FrameInv DEF MainRestart
<1>6. QED
  BY <1>1, <1>2, <1>3, <1>4, <1>5

LEMMA MainFlushEosInv == ASSUME IInv, MainFlushEos PROVE IInv'
<1> USE DEF IInv, TypeOK
<1>1. /\ main'.pc = "take" /\ outstanding' \in Int /\ MainTypeOK'
  BY AnswerType DEF MainFlushEos, MainTypeOK, ClientTypeOK
<1>2. ModuleTypeOK'
  BY DEF MainFlushEos, ModuleTypeOK, moduleVars
<1>3. client' \subseteq Buffers
  BY DEF MainFlushEos, ModuleTypeOK, ClientTypeOK
<1>4. ClientTypeOK'
  BY <1>1, <1>3 DEF MainFlushEos, ClientTypeOK, countVars
<1>5. StateTypeOK' /\ PortsTypeOK' /\ WorkersTypeOK' /\ FencesKnown'
  BY Frame, FrameInv DEF MainFlushEos
<1>6. QED
  BY <1>1, <1>2, <1>4, <1>5, TakeFrame

\* a step of a port command that either ends it or goes on to another
LEMMA PortStep ==
  ASSUME IInv, main.pc \in PortPc, UNCHANGED <<mainQ, todo, reblock>>,
         \/ Answer
         \/ GiveUp
         \/ outstanding' = outstanding /\ \E pc \in PortPc : Goto(pc)
  PROVE  MainTypeOK' /\ outstanding' \in Int /\ TaskOfPc' /\ OpenWhileFlushing'
<1> USE DEF IInv, TypeOK
<1>1. main.task \in PortCommands
  BY DEF TaskOfPc
<1>2. CASE Answer
  BY <1>2, AnswerType, TakeFrame DEF MainTypeOK, ClientTypeOK
<1>3. CASE GiveUp
  <2>1. main'.pc = "take" /\ outstanding' \in Int
    BY <1>3 DEF GiveUp, ClientTypeOK
  <2>2. MainTypeOK'
    BY <1>3 DEF GiveUp, MainTypeOK, MainPc
  <2>3. QED
    BY <2>1, <2>2, TakeFrame
<1>4. ASSUME outstanding' = outstanding, NEW pc \in PortPc, Goto(pc)
      PROVE  MainTypeOK' /\ outstanding' \in Int /\ TaskOfPc' /\ OpenWhileFlushing'
  <2>1. pc \in MainPc
    BY DEF PortPc, MainPc
  <2>2. main'.pc = pc /\ main'.task = main.task /\ MainTypeOK'
    BY <1>4, <2>1, GotoType DEF MainTypeOK
  <2>3. QED
    BY <1>1, <1>4, <2>2, PortFrame DEF ClientTypeOK
<1>5. QED
  BY <1>2, <1>3, <1>4

LEMMA MainBlockInv == ASSUME IInv, MainBlock PROVE IInv'
<1> USE DEF IInv, TypeOK
<1>1. MainTypeOK' /\ outstanding' \in Int /\ TaskOfPc' /\ OpenWhileFlushing'
  BY PortStep DEF MainBlock, PortPc
<1>2. WorkersTypeOK' /\ FencesKnown'
  BY BlockFences DEF MainBlock, Dirs
<1>3. StateTypeOK' /\ PortsTypeOK' /\ ModuleTypeOK' /\ ClientTypeOK'
  BY Frame DEF MainBlock
<1>4. QED
  BY <1>1, <1>2, <1>3

\* what MainRestartPort and MainReopen have in common
LEMMA PortRestart ==
  ASSUME IInv, main.pc \in PortPc, ModuleRestart, shouldFire' = FALSE,
         \E pc \in PortPc : Goto(pc),
         UNCHANGED <<state, transientState, portVars, mainQ, todo, reblock, workerVars,
                     eosVars, half, outstanding, sent, eosSent, misuse, lost>>
  PROVE  IInv'
<1> USE DEF IInv, TypeOK
<1>1. MainTypeOK' /\ outstanding' \in Int /\ TaskOfPc' /\ OpenWhileFlushing'
  BY PortStep
<1>2. ModuleTypeOK' /\ client' \subseteq Buffers /\ faults' \in Nat
  BY ModuleRestartType DEF ClientTypeOK
<1>3. ClientTypeOK' /\ StateTypeOK'
  BY <1>1, <1>2 DEF ClientTypeOK, StateTypeOK
<1>4. PortsTypeOK' /\ WorkersTypeOK' /\ FencesKnown'
  BY Frame, FrameInv
<1>5. QED
  BY <1>1, <1>2, <1>3, <1>4

LEMMA MainRestartPortInv == ASSUME IInv, MainRestartPort PROVE IInv'
BY PortRestart DEF MainRestartPort, PortPc

LEMMA MainReopenInv == ASSUME IInv, MainReopen PROVE IInv'
BY PortRestart DEF MainReopen, PortPc

LEMMA MainWaitEmptyInv == ASSUME IInv, MainWaitEmpty PROVE IInv'
<1> USE DEF IInv, TypeOK
<1>1. /\ main.pc \in PortPc /\ (GiveUp \/ Answer)
      /\ toDisable' = toDisable \/ toDisable' = [toDisable EXCEPT ![main.task.data] = FALSE]
      /\ UNCHANGED <<stateVars, enable, toEnable, playable, portError, portBuffers, mainQ,
                     todo, reblock, workerVars, moduleVars, eosVars, client, half,
                     countVars, lost>>
  BY DEF MainWaitEmpty, PortPc
<1>2. MainTypeOK' /\ outstanding' \in Int /\ TaskOfPc' /\ OpenWhileFlushing'
  BY <1>1, PortStep
<1>3. PortsTypeOK'
  BY <1>1 DEF PortsTypeOK
<1>4. ClientTypeOK'
  BY <1>1, <1>2 DEF ClientTypeOK, countVars
<1>5. StateTypeOK' /\ WorkersTypeOK' /\ ModuleTypeOK' /\ FencesKnown'
  BY <1>1, Frame, FrameInv
<1>6. QED
  BY <1>2, <1>3, <1>4, <1>5

LEMMA MainWaitFullInv == ASSUME IInv, MainWaitFull PROVE IInv'
<1> USE DEF IInv, TypeOK
<1>1. /\ main.pc \in PortPc
      /\ GiveUp \/ (outstanding' = outstanding /\ \E pc \in PortPc : Goto(pc))
      /\ toEnable' = toEnable \/ toEnable' = [toEnable EXCEPT ![main.task.data] = FALSE]
      /\ UNCHANGED <<stateVars, enable, toDisable, playable, portError, portBuffers, mainQ,
                     todo, reblock, workerVars, moduleVars, eosVars, client, half,
                     countVars, lost>>
  BY DEF MainWaitFull, PortPc
<1>2. MainTypeOK' /\ outstanding' \in Int /\ TaskOfPc' /\ OpenWhileFlushing'
  BY <1>1, PortStep
<1>3. PortsTypeOK'
  BY <1>1 DEF PortsTypeOK
<1>4. ClientTypeOK'
  BY <1>1, <1>2 DEF ClientTypeOK, countVars
<1>5. StateTypeOK' /\ WorkersTypeOK' /\ ModuleTypeOK' /\ FencesKnown'
  BY <1>1, Frame, FrameInv
<1>6. QED
  BY <1>2, <1>3, <1>4, <1>5

LEMMA MainEnabledInv == ASSUME IInv, MainEnabled PROVE IInv'
<1> USE DEF IInv, TypeOK
<1>1. MainTypeOK' /\ outstanding' \in Int /\ TaskOfPc' /\ OpenWhileFlushing'
  BY PortStep DEF MainEnabled, PortPc
<1>2. WorkersTypeOK' /\ FencesKnown'
  BY UnblockFences, Frame, FrameInv DEF MainEnabled
<1>3. ClientTypeOK'
  BY <1>1 DEF MainEnabled, ClientTypeOK, countVars
<1>4. StateTypeOK' /\ PortsTypeOK' /\ ModuleTypeOK'
  BY Frame DEF MainEnabled
<1>5. QED
  BY <1>1, <1>2, <1>3, <1>4

LEMMA MainInv == ASSUME IInv, Main PROVE IInv'
<1>1. CASE MainDispatch \/ MainTake
  BY <1>1, MainDispatchInv, MainTakeInv
<1>2. CASE MainUnblock \/ MainSwap \/ MainJoin \/ MainReblock
  BY <1>2, MainUnblockInv, MainSwapInv, MainJoinInv, MainReblockInv
<1>3. CASE MainCheck \/ MainStart \/ MainStop \/ MainSwitch \/ MainInvalid
  BY <1>3, MainCheckInv, MainStartInv, MainStopInv, MainSwitchInv, MainInvalidInv
<1>4. CASE \E d \in Dirs : MainPopulate(d) \/ MainUnpopulate(d)
  BY <1>4, MainPopulateInv, MainUnpopulateInv
<1>5. CASE MainRestart \/ MainFlushEos
  BY <1>5, MainRestartInv, MainFlushEosInv
<1>6. CASE MainBlock \/ MainRestartPort \/ MainWaitEmpty
  BY <1>6, MainBlockInv, MainRestartPortInv, MainWaitEmptyInv
<1>7. CASE MainWaitFull \/ MainReopen \/ MainEnabled
  BY <1>7, MainWaitFullInv, MainReopenInv, MainEnabledInv
<1>8. QED
  BY <1>1, <1>2, <1>3, <1>4, <1>5, <1>6, <1>7 DEF Main

-----------------------------------------------------------------------------
(* The workers                                                              *)

\* what a worker has in its hands when it is not a fence
LEMMA HandFacts ==
  ASSUME WorkersTypeOK, NEW d \in Dirs, HasBuffer(d)
  PROVE  /\ worker[d].task.data \in BuffersOf(d) /\ worker[d].task.data \in Buffers
         /\ d = "in" => worker[d].task \in EmptyTasks
<1>1. worker[d].task \in WorkerTasks(d) \cup {NoTask}
  BY DEF WorkersTypeOK
<1>2. worker[d].task \in IF d = "in" THEN EmptyTasks ELSE FillTasks
  BY <1>1, TaskFacts DEF HasBuffer, WorkerTasks
<1>3. QED
  BY <1>2, TaskFacts DEF BuffersOf, Buffers

\* the worker goes back to its FIFO
LEMMA FinishInv ==
  ASSUME WorkersTypeOK, FencesKnown, NEW d \in Dirs, Finish(d)
  PROVE  WorkersTypeOK' /\ FencesKnown'
<1>1. /\ worker' = [worker EXCEPT ![d] = Idling]
      /\ UNCHANGED <<fifo, handler, pause>>
  BY DEF Finish
<1>2. Idling.task = NoTask /\ NoTask # ClosedFence
  BY FenceTypes DEF Idling
<1>3. WorkersTypeOK'
  BY <1>1, <1>2 DEF WorkersTypeOK
<1>4. FencesKnown'
  BY <1>1, <1>2 DEF FencesKnown, WorkersTypeOK
<1>5. QED
  BY <1>3, <1>4

\* neither "OMX - Sched" nor the fences have moved
LEMMA WorkerFrame ==
  ASSUME IInv, UNCHANGED <<stateVars, portVars, mainQ, mainVars, pause>>
  PROVE  StateTypeOK' /\ PortsTypeOK' /\ MainTypeOK' /\ TaskOfPc' /\ OpenWhileFlushing'
BY Frame, FrameInv DEF IInv, TypeOK, mainVars

LEMMA WorkerPopInv == ASSUME IInv, NEW d \in Dirs, WorkerPop(d) PROVE IInv'
<1> USE DEF IInv, TypeOK
<1>1. /\ worker[d] = Idling /\ fifo[d] # <<>>
      /\ worker' = [worker EXCEPT ![d] = [task |-> Head(fifo[d]), by |-> handler[d]]]
      /\ fifo' = [fifo EXCEPT ![d] = Tail(@)]
      /\ UNCHANGED <<stateVars, portVars, mainQ, mainVars, handler, pause, moduleVars,
                     eosVars, client, half, outstanding, countVars, lost>>
  BY DEF WorkerPop
<1>2. /\ fifo[d] \in Seq(WorkerTasks(d)) /\ fifo[d] \in Seq(Fences \cup BufferTasks)
      /\ fifo'[d] = Tail(fifo[d])
      /\ worker'[d] = [task |-> Head(fifo[d]), by |-> handler[d]]
      /\ handler[d] \in {"process", "delete"}
      /\ \A e \in Dirs : e # d => fifo'[e] = fifo[e] /\ worker'[e] = worker[e]
  BY <1>1 DEF WorkersTypeOK
<1>3. /\ Head(fifo[d]) \in WorkerTasks(d) /\ Head(fifo[d]) \in Fences \cup BufferTasks
      /\ fifo'[d] \in Seq(WorkerTasks(d)) /\ fifo'[d] \in Seq(Fences \cup BufferTasks)
      /\ 1 \in DOMAIN fifo[d] /\ Head(fifo[d]) = fifo[d][1]
      /\ \A i \in DOMAIN fifo'[d] : \E j \in DOMAIN fifo[d] : fifo'[d][i] = fifo[d][j]
  BY <1>1, <1>2, SequenceFacts
<1>4. worker'[d] \in Popped /\ worker'[d].task = Head(fifo[d])
  BY <1>2, <1>3 DEF Popped
<1>5. WorkersTypeOK'
  BY <1>1, <1>2, <1>3, <1>4 DEF WorkersTypeOK
<1>6. FencesKnown'
  BY <1>1, <1>2, <1>3, <1>4 DEF FencesKnown
<1>7. ModuleTypeOK' /\ ClientTypeOK'
  BY <1>1, Frame
<1>8. QED
  BY <1>1, <1>5, <1>6, <1>7, WorkerFrame

LEMMA WorkerPassFenceInv == ASSUME IInv, NEW d \in Dirs, WorkerPassFence(d) PROVE IInv'
<1> USE DEF IInv, TypeOK
<1>1. WorkersTypeOK' /\ FencesKnown'
  BY FinishInv DEF WorkerPassFence
<1>2. ModuleTypeOK' /\ ClientTypeOK'
  BY Frame DEF WorkerPassFence
<1>3. QED
  BY <1>1, <1>2, WorkerFrame DEF WorkerPassFence, Finish

LEMMA WorkerReturnInv == ASSUME IInv, NEW d \in Dirs, WorkerReturn(d) PROVE IInv'
<1> USE DEF IInv, TypeOK
<1>1. WorkersTypeOK' /\ FencesKnown'
  BY FinishInv DEF WorkerReturn
<1>2. ClientTypeOK'
  BY HandFacts DEF WorkerReturn, ClientTypeOK, countVars
<1>3. ModuleTypeOK'
  BY Frame DEF WorkerReturn
<1>4. QED
  BY <1>1, <1>2, <1>3, WorkerFrame DEF WorkerReturn, Finish

LEMMA WorkerKeepInv == ASSUME IInv, WorkerKeep PROVE IInv'
<1> USE DEF IInv, TypeOK
<1>1. "out" \in Dirs /\ HasBuffer("out")
  BY DEF WorkerKeep, Processes, Dirs
<1>2. WorkersTypeOK' /\ FencesKnown'
  BY <1>1, FinishInv DEF WorkerKeep
<1>3. ModuleTypeOK'
  BY <1>1, HandFacts DEF WorkerKeep, ModuleTypeOK, moduleVars
<1>4. ClientTypeOK'
  BY Frame DEF WorkerKeep
<1>5. QED
  BY <1>2, <1>3, <1>4, WorkerFrame DEF WorkerKeep, Finish

LEMMA ModuleTakesType ==
  ASSUME NEW b \in Buffers, ModuleTakes(b), held \in [Dirs -> SUBSET Buffers],
         lost \subseteq Buffers
  PROVE  held' \in [Dirs -> SUBSET Buffers] /\ lost' \subseteq Buffers
BY BufferDirs DEF ModuleTakes

LEMMA WorkerFillInv == ASSUME IInv, WorkerFill PROVE IInv'
<1> USE DEF IInv, TypeOK
<1>1. "out" \in Dirs /\ HasBuffer("out")
  BY DEF WorkerFill, Processes, Dirs
<1>2. WorkersTypeOK' /\ FencesKnown'
  BY <1>1, FinishInv DEF WorkerFill
<1>3. held' \in [Dirs -> SUBSET Buffers] /\ lost' \subseteq Buffers
  BY <1>1, HandFacts, ModuleTakesType DEF WorkerFill, ModuleTypeOK, ClientTypeOK
<1>4. ModuleTypeOK' /\ ClientTypeOK'
  BY <1>3 DEF WorkerFill, ModuleTypeOK, ClientTypeOK, eosVars, countVars
<1>5. QED
  BY <1>2, <1>4, WorkerFrame DEF WorkerFill, Finish

LEMMA WorkerEmptyInv == ASSUME IInv, WorkerEmpty PROVE IInv'
<1> USE DEF IInv, TypeOK
<1>1. "in" \in Dirs /\ HasBuffer("in")
  BY DEF WorkerEmpty, Processes, Dirs
<1>2. WorkersTypeOK' /\ FencesKnown'
  BY <1>1, FinishInv DEF WorkerEmpty
<1>3. held' \in [Dirs -> SUBSET Buffers] /\ lost' \subseteq Buffers
  BY <1>1, HandFacts, ModuleTakesType DEF WorkerEmpty, ModuleTypeOK, ClientTypeOK
<1>4. eosAsked' \in Nat
  BY DEF WorkerEmpty, ModuleTypeOK
<1>5. ModuleTypeOK' /\ ClientTypeOK'
  BY <1>3, <1>4 DEF WorkerEmpty, ModuleTypeOK, ClientTypeOK, eosVars, countVars
<1>6. QED
  BY <1>2, <1>5, WorkerFrame DEF WorkerEmpty, Finish

LEMMA WorkerEosInv == ASSUME IInv, WorkerEos PROVE IInv'
<1> USE DEF IInv, TypeOK
<1>1. "in" \in Dirs /\ HasBuffer("in")
  BY DEF WorkerEos, Processes, Dirs
<1>2. WorkersTypeOK' /\ FencesKnown'
  BY <1>1, FinishInv DEF WorkerEos
<1>3. eosAsked' \in Nat
  BY DEF WorkerEos, ModuleTypeOK
<1>4. ModuleTypeOK'
  BY <1>1, <1>3, HandFacts DEF WorkerEos, ModuleTypeOK
<1>5. ClientTypeOK'
  BY <1>1 DEF WorkerEos, ModuleTypeOK, ClientTypeOK, countVars
<1>6. QED
  BY <1>2, <1>4, <1>5, WorkerFrame DEF WorkerEos, Finish

LEMMA WorkersInv == ASSUME IInv, Workers PROVE IInv'
BY WorkerPopInv, WorkerPassFenceInv, WorkerReturnInv, WorkerKeepInv, WorkerFillInv,
   WorkerEmptyInv, WorkerEosInv DEF Workers, Worker

-----------------------------------------------------------------------------
(* The codec                                                                *)

LEMMA CodecFrame ==
  ASSUME IInv, UNCHANGED <<stateVars, portVars, mainVars, workerVars>>
  PROVE  /\ StateTypeOK' /\ PortsTypeOK' /\ WorkersTypeOK'
         /\ TaskOfPc' /\ FencesKnown' /\ OpenWhileFlushing'
         /\ UNCHANGED mainQ => MainTypeOK'
BY Frame, FrameInv DEF IInv, TypeOK, mainVars, workerVars

LEMMA CodecReturnsInv == ASSUME IInv, NEW b \in Buffers, CodecReturns(b) PROVE IInv'
<1> USE DEF IInv, TypeOK
<1>1. ModuleTypeOK'
  BY DEF CodecReturns, ModuleTypeOK, eosVars
<1>2. ClientTypeOK'
  BY DEF CodecReturns, ClientTypeOK, countVars
<1>3. QED
  BY <1>1, <1>2, CodecFrame DEF CodecReturns

LEMMA CodecEosInv == ASSUME IInv, CodecEos PROVE IInv'
<1> USE DEF IInv, TypeOK
<1>1. ModuleTypeOK'
  BY DEF CodecEos, ModuleTypeOK
<1>2. ClientTypeOK'
  BY Frame DEF CodecEos
<1>3. QED
  BY <1>1, <1>2, CodecFrame DEF CodecEos

LEMMA EosReturnType ==
  ASSUME ModuleTypeOK, client \subseteq Buffers, NEW d \in Dirs, EosReturn(d)
  PROVE  /\ eosHandle' \in [Dirs -> Buffers \cup {None}] /\ dangling' \subseteq Dirs
         /\ client' \subseteq Buffers
BY DEF EosReturn, ModuleTypeOK

LEMMA CodecEosInOutInv == ASSUME IInv, CodecEosIn \/ CodecEosOut PROVE IInv'
<1> USE DEF IInv, TypeOK
<1>1. /\ \E d \in Dirs : EosReturn(d)
      /\ codecPc' \in {"idle", "eosOut", "eosClear"}
      /\ UNCHANGED <<stateVars, portVars, mainQ, mainVars, workerVars, moduleVars, half,
                     outstanding, countVars, lost>>
  BY DEF CodecEosIn, CodecEosOut, Dirs
<1>2. /\ eosHandle' \in [Dirs -> Buffers \cup {None}] /\ dangling' \subseteq Dirs
      /\ client' \subseteq Buffers
  BY <1>1, EosReturnType DEF ClientTypeOK
<1>3. ModuleTypeOK' /\ ClientTypeOK'
  BY <1>1, <1>2 DEF ModuleTypeOK, ClientTypeOK, moduleVars, countVars
<1>4. QED
  BY <1>1, <1>3, CodecFrame

LEMMA CodecEosClearInv == ASSUME IInv, CodecEosClear PROVE IInv'
<1> USE DEF IInv, TypeOK
<1>1. ModuleTypeOK'
  BY DEF CodecEosClear, ModuleTypeOK, moduleVars
<1>2. lost' \subseteq Buffers
  BY DEF CodecEosClear, ModuleTypeOK, ClientTypeOK
<1>3. ClientTypeOK'
  BY <1>2 DEF CodecEosClear, ClientTypeOK, countVars
<1>4. QED
  BY <1>1, <1>3, CodecFrame DEF CodecEosClear

LEMMA CodecErrorInv == ASSUME IInv, CodecError PROVE IInv'
<1> USE DEF IInv, TypeOK
<1>1. [cmd |-> "SetState", data |-> "Invalid", opt |-> TRUE] \in MainTasks
  BY DEF MainTasks, StateTasks, States
<1>2. mainQ' \in Seq(MainTasks)
  BY <1>1, SequenceFacts DEF CodecError, MainTypeOK
<1>3. MainTypeOK'
  BY <1>2 DEF CodecError, MainTypeOK, mainVars
<1>4. ModuleTypeOK' /\ ClientTypeOK'
  BY Frame DEF CodecError, ClientTypeOK
<1>5. QED
  BY <1>3, <1>4, CodecFrame DEF CodecError

LEMMA CodecInv == ASSUME IInv, Codec PROVE IInv'
BY CodecReturnsInv, CodecEosInv, CodecEosInOutInv, CodecEosClearInv, CodecErrorInv
   DEF Codec, CodecFinishesEos

-----------------------------------------------------------------------------
(* The theorems                                                             *)

LEMMA InitIInv == Init => IInv
<1> SUFFICES ASSUME Init PROVE IInv
  OBVIOUS
<1>1. StateTypeOK /\ PortsTypeOK /\ ModuleTypeOK /\ ClientTypeOK
  BY DEF Init, StateTypeOK, PortsTypeOK, ModuleTypeOK, ClientTypeOK, States
<1>2. MainTypeOK
  BY DEF Init, MainTypeOK, MainPc
<1>3. WorkersTypeOK /\ FencesKnown
  BY FenceTypes DEF Init, WorkersTypeOK, FencesKnown, Idling
<1>4. TaskOfPc /\ OpenWhileFlushing
  BY DEF Init, TaskOfPc, OpenWhileFlushing, FlushPc, SetStatePc, PortPc
<1>5. QED
  BY <1>1, <1>2, <1>3, <1>4 DEF IInv, TypeOK

LEMMA NextIInv == IInv /\ [Next]_vars => IInv'
<1> SUFFICES ASSUME IInv, [Next]_vars PROVE IInv'
  OBVIOUS
<1>1. CASE Next
  BY <1>1, ClientInv, MainInv, WorkersInv, CodecInv DEF Next
<1>2. CASE UNCHANGED vars
  BY <1>2, Frame, FrameInv DEF vars, IInv, TypeOK, mainVars, workerVars
<1>3. QED
  BY <1>1, <1>2

THEOREM Inductive == Spec => []IInv
BY InitIInv, NextIInv, PTL DEF Spec

(* Every variable keeps its type: a worker is given buffers of its own port     *)
(* only, and "OMX - Sched" never takes a step of a command that is not the one  *)
(* it treats (_ProcessMain, omx_component.cpp:2303-2366).                       *)
THEOREM TypeCorrect == Spec => []TypeOK
BY Inductive, PTL DEF IInv

(* "OMX - Sched" never joins a worker that waits for a fence: whatever is       *)
(* sent, submitted or refused, no closed fence is in a FIFO whose destructor    *)
(* runs (FlushFillEmptyBuffers, omx_component.cpp:1778-1802).                   *)
THEOREM NoSelfJoin == Spec => []JoinsTerminate
<1>1. IInv => JoinsTerminate
  BY DEF IInv, OpenWhileFlushing, FencesKnown, JoinsTerminate, ClosedFences
<1>2. QED
  BY <1>1, Inductive, PTL

-----------------------------------------------------------------------------
(* The decoder runs where the state says so                                 *)

Playing == {"Executing", "Pause"}

(* Where in a command the decoder can have been started.                      *)
ModulePlace ==
  /\ module # "broken"
  /\ module = "started" =>
       Streaming \/ (main.pc = "switch" /\ main.task.data \in Playing)
  /\ main.pc \in {"populateIn", "populateOut"} => state \in {"Loaded", "WaitForResources"}
  /\ main.pc \in {"unpopulateIn", "unpopulateOut"} => state = "Idle"
  /\ main.pc = "start" => state = "Idle" /\ main.task.data \in Playing
  /\ main.pc = "switch" /\ main.task.data \notin Playing => module = "stopped"

LEMMA OthersKeepPlace ==
  ASSUME Client \/ Workers \/ Codec \/ MainDispatch \/ UNCHANGED vars
  PROVE  UNCHANGED <<state, main, module>>
<1>1. ASSUME NEW c, SendCommand(c) PROVE UNCHANGED <<state, main, module>>
  BY <1>1 DEF SendCommand, QueueStateCommand, QueuePortCommand, mainVars, moduleVars
<1>2. CASE SendSecondHalf
  BY <1>2 DEF SendSecondHalf, QueuePortCommand, mainVars, moduleVars
<1>3. ASSUME NEW b, UseBuffer(b) \/ FreeBuffer(b) \/ FillThisBuffer(b)
      PROVE  UNCHANGED <<state, main, module>>
  BY <1>3 DEF UseBuffer, FreeBuffer, FillThisBuffer, stateVars, mainVars, moduleVars
<1>4. ASSUME NEW b, NEW k, EmptyThisBuffer(b, k) PROVE UNCHANGED <<state, main, module>>
  BY <1>4 DEF EmptyThisBuffer, stateVars, mainVars, moduleVars
<1>5. ASSUME NEW d, UseBufferFails(d) PROVE UNCHANGED <<state, main, module>>
  BY <1>5 DEF UseBufferFails, stateVars, mainVars, moduleVars
<1>6. CASE Client
  BY <1>1, <1>2, <1>3, <1>4, <1>5, <1>6 DEF Client
<1>7. ASSUME NEW d, Worker(d) PROVE UNCHANGED <<state, main, module>>
  BY <1>7 DEF Worker, WorkerPop, WorkerPassFence, WorkerReturn, stateVars, mainVars, moduleVars
<1>8. CASE WorkerKeep \/ WorkerFill \/ WorkerEmpty \/ WorkerEos
  BY <1>8 DEF WorkerKeep, WorkerFill, WorkerEmpty, WorkerEos, stateVars, mainVars, moduleVars
<1>9. CASE Workers
  BY <1>7, <1>8, <1>9 DEF Workers
<1>10. ASSUME NEW b, CodecReturns(b) PROVE UNCHANGED <<state, main, module>>
  BY <1>10 DEF CodecReturns, stateVars, mainVars
<1>11. CASE CodecEos \/ CodecFinishesEos \/ CodecError
  BY <1>11 DEF CodecEos, CodecFinishesEos, CodecEosIn, CodecEosOut, CodecEosClear, CodecError,
               stateVars, mainVars, moduleVars
<1>12. CASE Codec
  BY <1>10, <1>11, <1>12 DEF Codec
<1>13. CASE MainDispatch
  BY <1>13 DEF MainDispatch, stateVars, mainVars, moduleVars
<1>14. CASE UNCHANGED vars
  BY <1>14 DEF vars, stateVars, mainVars, moduleVars
<1>15. QED
  BY <1>6, <1>9, <1>12, <1>13, <1>14

\* a step that leaves the module and the state alone, to a step of no consequence
LEMMA QuietStep ==
  ASSUME ModulePlace, UNCHANGED <<state, module>>, main.pc # "switch",
         main'.pc \in MainPc \ {"populateIn", "populateOut", "unpopulateIn",
                                "unpopulateOut", "start", "switch"}
  PROVE  ModulePlace'
BY DEF ModulePlace, Streaming

\* a restart, where the module was not stopped
LEMMA RestartPlace ==
  ASSUME Decoder, ModuleTypeOK, ModulePlace, UNCHANGED state, main.pc # "switch",
         ModuleRestart,
         main'.pc \in {"flushEos", "waitEmpty", "enabled"}
  PROVE  ModulePlace'
<1>1. CASE module = "stopped"
  BY <1>1 DEF ModulePlace, Streaming, ModuleRestart, moduleVars
<1>2. CASE module # "stopped"
  <2>1. module' \in {"started", "stopped"}
    BY <1>2 DEF ModuleRestart, Create, FailedStart
  <2>2. Streaming
    BY <1>2, <2>1 DEF ModulePlace, ModuleTypeOK
  <2>3. QED
    BY <2>1, <2>2 DEF ModulePlace, Streaming
<1>3. QED
  BY <1>1, <1>2

LEMMA MainKeepsPlace ==
  ASSUME Decoder, IInv, ModulePlace, Main PROVE ModulePlace'
<1> USE DEF IInv, TypeOK
<1>1. CASE MainDispatch
  BY <1>1, OthersKeepPlace DEF ModulePlace, Streaming
<1>2. CASE MainTake
  <2>1. /\ main.pc = "take" /\ UNCHANGED <<state, module>>
        /\ \/ main' = main
           \/ main'.pc = BeginsWith(Head(mainQ))
    BY <1>2 DEF MainTake, stateVars, mainVars, moduleVars
  <2>2. main' = main \/ main'.pc \in {"unblock", "check", "waitFull"}
    <3>1. Head(mainQ) \in MainTasks
      BY <1>2, SequenceFacts DEF MainTake, MainTypeOK
    <3>2. Head(mainQ) \in StateTasks \cup PortCommands
      BY <1>2, <3>1, MainTaskSplit DEF MainTake
    <3>3. BeginsWith(Head(mainQ)) \in {"unblock", "check", "waitFull"}
      BY <3>2, TaskFacts DEF BeginsWith
    <3>4. QED
      BY <2>1, <3>3
  <2>3. QED
    BY <2>1, <2>2 DEF ModulePlace, Streaming
<1>3. CASE MainUnblock \/ MainSwap \/ MainJoin
  <2>1. /\ UNCHANGED <<state, module>> /\ main.pc \in FlushPc
        /\ \E pc \in {"swap", "join", "reblock"} : Goto(pc)
    BY <1>3 DEF MainUnblock, MainSwap, MainJoin, stateVars, moduleVars, FlushPc
  <2>2. main'.pc \in {"swap", "join", "reblock"}
    BY <2>1, GotoType DEF MainPc
  <2>3. QED
    BY <2>1, <2>2, QuietStep DEF FlushPc, MainPc
<1>4. CASE MainReblock
  <2>1. /\ UNCHANGED <<state, module>> /\ main.pc = "reblock"
        /\ main.task \in StateTasks \cup PortCommands /\ main.task.cmd # "EnablePort"
    BY <1>4 DEF MainReblock, stateVars, moduleVars, TaskOfPc, FlushPc
  <2>2. \E pc \in {"check", "restart", "block"} : Goto(pc)
    BY <1>4, <2>1, TaskFacts DEF MainReblock
  <2>3. main'.pc \in {"check", "restart", "block"}
    BY <2>2, GotoType DEF MainPc
  <2>4. QED
    BY <2>1, <2>3, QuietStep DEF MainPc
<1>5. CASE MainCheck
  <2> DEFINE new == main.task.data
  <2>1. main.pc = "check" /\ UNCHANGED <<state, module>>
    BY <1>5 DEF MainCheck, stateVars, moduleVars
  <2>2. main.task \in StateTasks /\ new \in States /\ state \in States
    BY <2>1, TaskFacts DEF TaskOfPc, SetStatePc, StateTypeOK
  <2>3. \/ Answer
        \/ Goto("invalid")
        \/ ToIdleFromLoadedOrWait(state, new) /\ Goto("populateIn")
        \/ /\ ToLoaded(state, new) /\ state # "WaitForResources"
           /\ Goto("unpopulateIn")
        \/ ToExecutingOrPause(state, new) /\ Goto("start")
        \/ ToIdleFromExecutingOrPause(state, new) /\ Goto("stop")
        \/ /\ CheckStateTransition(state, new) = "None"
           /\ ~ToIdleFromExecutingOrPause(state, new)
           /\ Goto("switch")
    BY <1>5 DEF MainCheck
  <2>4. /\ \A pc \in MainPc : Goto(pc) => main'.pc = pc /\ main'.task = main.task
        /\ Answer => main'.pc = "take"
    BY GotoType, AnswerType DEF ClientTypeOK
  <2>5. CASE \/ Answer \/ Goto("invalid")
             \/ ToIdleFromExecutingOrPause(state, new) /\ Goto("stop")
    BY <2>1, <2>4, <2>5, QuietStep DEF MainPc
  <2>6. CASE ToIdleFromLoadedOrWait(state, new) /\ Goto("populateIn")
    BY <2>1, <2>4, <2>6 DEF MainPc, ModulePlace, Streaming, ToIdleFromLoadedOrWait
  <2>7. CASE ToLoaded(state, new) /\ state # "WaitForResources" /\ Goto("unpopulateIn")
    BY <2>1, <2>4, <2>7 DEF MainPc, ModulePlace, Streaming, ToLoaded
  <2>8. CASE ToExecutingOrPause(state, new) /\ Goto("start")
    BY <2>1, <2>4, <2>8 DEF MainPc, ModulePlace, Streaming, ToExecutingOrPause, Playing
  <2>9. CASE /\ CheckStateTransition(state, new) = "None"
             /\ ~ToIdleFromExecutingOrPause(state, new)
             /\ Goto("switch")
    <3>1. new \in Playing \/ ~Streaming
      BY <2>2, <2>9
         DEF CheckStateTransition, Incorrect, ToIdleFromExecutingOrPause, States, Playing,
             Streaming
    <3>2. main'.pc = "switch" /\ main'.task = main.task
      BY <2>4, <2>9 DEF MainPc
    <3>3. module \in {"stopped", "started"}
      BY DEF ModuleTypeOK, ModulePlace
    <3>4. QED
      BY <2>1, <3>1, <3>2, <3>3 DEF ModulePlace, Streaming
  <2>10. QED
    BY <2>3, <2>5, <2>6, <2>7, <2>8, <2>9
<1>6. ASSUME NEW d \in Dirs, MainPopulate(d) PROVE ModulePlace'
  <2>1. /\ UNCHANGED <<state, module>> /\ main.pc \in {"populateIn", "populateOut"}
        /\ Answer \/ Goto("populateOut") \/ Goto("switch")
    BY <1>6 DEF MainPopulate, stateVars, moduleVars
  <2>2. main'.pc \in {"take", "populateOut", "switch"}
    BY <2>1, GotoType, AnswerType DEF MainPc, ClientTypeOK
  <2>3. module = "stopped"
    BY <2>1 DEF ModulePlace, ModuleTypeOK, Streaming
  <2>4. QED
    BY <2>1, <2>2, <2>3 DEF ModulePlace, Streaming
<1>7. ASSUME NEW d \in Dirs, MainUnpopulate(d) PROVE ModulePlace'
  <2>1. /\ UNCHANGED <<state, module>> /\ main.pc \in {"unpopulateIn", "unpopulateOut"}
        /\ Answer \/ Goto("unpopulateOut") \/ Goto("switch")
    BY <1>7 DEF MainUnpopulate, moduleVars
  <2>2. main'.pc \in {"take", "unpopulateOut", "switch"}
    BY <2>1, GotoType, AnswerType DEF MainPc, ClientTypeOK
  <2>3. module = "stopped"
    BY <2>1 DEF ModulePlace, ModuleTypeOK, Streaming
  <2>4. QED
    BY <2>1, <2>2, <2>3 DEF ModulePlace, Streaming
<1>8. CASE MainStart
  <2>1. main.pc = "start" /\ state = "Idle" /\ module = "stopped" /\ main.task.data \in Playing
    BY <1>8 DEF MainStart, ModulePlace, ModuleTypeOK, Streaming
  <2>2. /\ UNCHANGED state /\ Create
        /\ \/ module' = "started" /\ Goto("switch")
           \/ module' # "started" /\ Answer
    BY <1>8, <2>1 DEF MainStart
  <2>3. module' \in {"started", "stopped"}
    BY <2>2 DEF Create, FailedStart
  <2>4. /\ Goto("switch") => main'.pc = "switch" /\ main'.task = main.task
        /\ Answer => main'.pc = "take"
    BY GotoType, AnswerType DEF MainPc, ClientTypeOK
  <2>5. QED
    BY <2>1, <2>2, <2>3, <2>4 DEF ModulePlace, Streaming
<1>9. CASE MainStop
  <2>1. main'.pc = "switch" /\ module' = "stopped"
    BY <1>9, GotoType, ModuleStopType DEF MainStop, MainPc, ClientTypeOK
  <2>2. QED
    BY <2>1 DEF ModulePlace
<1>10. CASE MainSwitch
  <2>1. /\ main.pc = "switch" /\ state' = main.task.data /\ module' = module
        /\ main'.pc = "take"
    BY <1>10, AnswerType DEF MainSwitch, moduleVars, ClientTypeOK
  <2>2. module' = "stopped" \/ state' \in Playing
    BY <2>1 DEF ModulePlace
  <2>3. QED
    BY <2>1, <2>2 DEF ModulePlace, Streaming, Playing
<1>11. CASE MainInvalid
  <2>1. main'.pc = "take" /\ module' = "stopped"
    BY <1>11, AnswerType, ModuleStopType DEF MainInvalid, ClientTypeOK
  <2>2. QED
    BY <2>1 DEF ModulePlace
<1>12. CASE MainRestart \/ MainRestartPort \/ MainReopen
  <2>1. /\ UNCHANGED state /\ ModuleRestart
        /\ main.pc \in {"restart", "restartPort", "reopen"}
        /\ \E pc \in {"flushEos", "waitEmpty", "enabled"} : Goto(pc)
    BY <1>12 DEF MainRestart, MainRestartPort, MainReopen, stateVars
  <2>2. main'.pc \in {"flushEos", "waitEmpty", "enabled"}
    BY <2>1, GotoType DEF MainPc
  <2>3. QED
    BY <2>1, <2>2, RestartPlace
<1>13. CASE MainFlushEos \/ MainBlock \/ MainWaitEmpty \/ MainWaitFull \/ MainEnabled
  <2>1. /\ UNCHANGED <<state, module>> /\ main.pc \in PortPc \cup {"flushEos"}
        /\ \/ Answer \/ GiveUp
           \/ \E pc \in {"restartPort", "waitEmpty", "reopen", "enabled"} : Goto(pc)
    BY <1>13 DEF MainFlushEos, MainBlock, MainWaitEmpty, MainWaitFull, MainEnabled, PortPc,
                 stateVars, moduleVars
  <2>2. main'.pc \in {"take", "restartPort", "waitEmpty", "reopen", "enabled"}
    <3>1. Answer \/ GiveUp => main'.pc = "take"
      BY DEF Answer, GiveUp
    <3>2. \A pc \in {"restartPort", "waitEmpty", "reopen", "enabled"} :
            Goto(pc) => main'.pc = pc
      BY GotoType DEF MainPc
    <3>3. QED
      BY <2>1, <3>1, <3>2
  <2>3. QED
    BY <2>1, <2>2, QuietStep DEF PortPc, MainPc
<1>14. QED
  BY <1>1, <1>2, <1>3, <1>4, <1>5, <1>6, <1>7, <1>8, <1>9, <1>10, <1>11, <1>12, <1>13
     DEF Main

(* The decoder runs in Executing and Pause only: every way out of them stops    *)
(* it, errors included, and no Flush or port command starts it elsewhere        *)
(* (TreatSetStateCommand, TreatFlushCommand and the port commands).             *)
THEOREM DecoderFollowsState ==
  ASSUME Decoder PROVE Spec => [](ModuleFollowsState /\ IdleIsReadyToStart)
<1>1. Init => ModulePlace
  BY DEF Init, ModulePlace
<1>2. IInv /\ ModulePlace /\ [Next]_vars => ModulePlace'
  <2> SUFFICES ASSUME IInv, ModulePlace, [Next]_vars PROVE ModulePlace'
    OBVIOUS
  <2>1. CASE Main
    BY <2>1, MainKeepsPlace
  <2>2. CASE Client \/ Workers \/ Codec \/ UNCHANGED vars
    BY <2>2, OthersKeepPlace DEF ModulePlace, Streaming
  <2>3. QED
    BY <2>1, <2>2 DEF Next
<1>3. IInv /\ ModulePlace => ModuleFollowsState /\ IdleIsReadyToStart
  BY DEF IInv, TypeOK, ModuleTypeOK, ModulePlace, Streaming, ModuleFollowsState,
         IdleIsReadyToStart
<1>4. QED
  BY <1>1, <1>2, <1>3, Inductive, PTL DEF Spec
=============================================================================
