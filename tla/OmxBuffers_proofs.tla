------------------------- MODULE OmxBuffers_proofs -------------------------
(***************************************************************************)
(* Where the buffers of OmxComponent are, for any buffers, commands, clients *)
(* and bounds: every header is in one place, a Flush leaves none behind, the  *)
(* module is not destroyed under a worker, what the client sees of it all is  *)
(* ILComponent, no worker is left behind a fence nobody will open, the ports   *)
(* of a component out of Loaded have their buffers, and no buffer of a patient *)
(* player is lost.                                                             *)
(***************************************************************************)
EXTENDS OmxComponent_proofs, FiniteSetTheorems

(* A command that changes the state is carried out in the state it was        *)
(* checked in.                                                               *)
Transit ==
  /\ main.pc \in SetStatePc \ {"check", "invalid"} =>
       CheckStateTransition(state, main.task.data) = "None"
  /\ main.pc = "invalid" => CheckStateTransition(state, main.task.data) = "InvalidState"
  /\ main.pc \in {"populateIn", "populateOut"} => state \in {"Loaded", "WaitForResources"}
  /\ main.pc \in {"unpopulateIn", "unpopulateOut", "start"} => state = "Idle"

\* no buffer is on the way to the module
Drained(d) ==
  ~HasBuffer(d) /\ \A i \in DOMAIN fifo[d] : fifo[d][i].cmd = "SharedFence"

(* What FlushFillEmptyBuffers has emptied stays empty until the command that   *)
(* called it ends: the thread that fills the FIFOs is the one that flushes.    *)
FlushKnown ==
  /\ main.pc = "unblock" /\ main.task.cmd # "DisablePort" => todo = Dirs
  /\ main.pc \in {"swap", "join"} /\ main.task.cmd # "DisablePort" =>
       \A d \in Dirs \ todo : Drained(d)
  /\ main.pc = "reblock" /\ main.task.cmd # "DisablePort" => \A d \in Dirs : Drained(d)
  /\ main.pc \in {"restart", "flushEos"} => \A d \in Dirs : Drained(d)
  /\ main.pc \in {"check", "stop", "switch"} /\ FlushingRequired(state, main.task.data) =>
       \A d \in Dirs : Drained(d)

-----------------------------------------------------------------------------
(* The steps of a command                                                   *)

LEMMA TakeStep ==
  ASSUME IInv, MainTake
  PROVE  /\ UNCHANGED state
         /\ \/ main' = main /\ main.pc = "take"
            \/ /\ main' = [pc |-> BeginsWith(Head(mainQ)), task |-> Head(mainQ)]
               /\ main'.pc \in {"unblock", "check", "waitFull"}
               /\ main'.pc = "unblock" /\ main'.task.cmd # "DisablePort" => todo' = Dirs
               /\ main'.pc = "check" => ~FlushingRequired(state, main'.task.data)
<1>1. /\ main.pc = "take" /\ Head(mainQ) \in StateTasks \cup PortCommands
      /\ UNCHANGED state
      /\ \/ main' = main
         \/ /\ main' = [pc |-> BeginsWith(Head(mainQ)), task |-> Head(mainQ)]
            /\ todo' = IF BeginsWith(Head(mainQ)) # "unblock" THEN {}
                       ELSE IF Head(mainQ).cmd = "DisablePort" THEN {Head(mainQ).data}
                       ELSE Dirs
  BY SequenceFacts, MainTaskSplit DEF IInv, TypeOK, MainTypeOK, MainTake, mainVars, stateVars
<1>2. /\ BeginsWith(Head(mainQ)) \in {"unblock", "check", "waitFull"}
      /\ BeginsWith(Head(mainQ)) = "check" => ~FlushingRequired(state, Head(mainQ).data)
  BY <1>1, TaskFacts DEF BeginsWith
<1>3. QED
  BY <1>1, <1>2

LEMMA JoinStep ==
  ASSUME IInv, MainJoin
  PROVE  /\ main.pc = "join" /\ main'.task = main.task /\ UNCHANGED <<state, fifo, worker>>
         /\ Flushed \in Dirs /\ todo' = todo \ {Flushed} /\ todo \subseteq Dirs
         /\ fifo[Flushed] = <<>> /\ worker[Flushed] = Idling
         /\ main'.pc = IF todo' = {} THEN "reblock" ELSE "swap"
<1>1. /\ main.pc = "join" /\ UNCHANGED <<state, fifo, worker>>
      /\ todo' = todo \ {Flushed}
      /\ fifo[Flushed] = <<>> /\ worker[Flushed] = Idling
      /\ Goto(IF todo' = {} THEN "reblock" ELSE "swap")
  BY DEF MainJoin, stateVars
<1>2. main'.pc = (IF todo' = {} THEN "reblock" ELSE "swap") /\ main'.task = main.task
  BY <1>1, GotoType DEF IInv, TypeOK, MainPc
<1>3. QED
  BY <1>1, <1>2 DEF IInv, TypeOK, MainTypeOK, Flushed, Dirs

LEMMA ReblockStep ==
  ASSUME IInv, MainReblock
  PROVE  /\ main.pc = "reblock" /\ main'.task = main.task /\ UNCHANGED state
         /\ Block(reblock) /\ reblock \subseteq Dirs
         /\ main'.pc = CASE main.task.cmd = "SetState" -> "check"
                         [] main.task.cmd = "Flush" -> "restart"
                         [] main.task.cmd = "DisablePort" -> "block"
         /\ main.task.cmd \in {"SetState", "Flush", "DisablePort"}
<1>1. /\ main.pc = "reblock" /\ UNCHANGED state /\ Block(reblock)
      /\ Goto(CASE main.task.cmd = "SetState" -> "check"
                [] main.task.cmd = "Flush" -> "restart"
                [] main.task.cmd = "DisablePort" -> "block")
  BY DEF MainReblock, stateVars
<1>2. main.task.cmd \in {"SetState", "Flush", "DisablePort"}
  BY <1>1, TaskFacts DEF IInv, TaskOfPc, FlushPc
<1>3. QED
  BY <1>1, <1>2, GotoType DEF IInv, TypeOK, MainTypeOK, MainPc

LEMMA CheckStep ==
  ASSUME IInv, MainCheck
  PROVE  /\ main.pc = "check" /\ UNCHANGED <<state, todo, fifo, worker>>
         /\ \/ main'.pc = "take"
            \/ main'.pc = "invalid" /\ main'.task = main.task
               /\ CheckStateTransition(state, main.task.data) = "InvalidState"
            \/ /\ CheckStateTransition(state, main.task.data) = "None"
               /\ main'.task = main.task
               /\ main'.pc \in {"populateIn", "unpopulateIn", "start", "stop", "switch"}
               /\ main'.pc = "populateIn" => state \in {"Loaded", "WaitForResources"}
               /\ main'.pc \in {"unpopulateIn", "start"} => state = "Idle"
<1> DEFINE new == main.task.data
<1>1. main.pc = "check" /\ UNCHANGED <<state, todo, fifo, worker>>
  BY DEF MainCheck, stateVars, workerVars
<1>2. main.task \in StateTasks /\ new \in States /\ state \in States
  BY <1>1, TaskFacts DEF IInv, TypeOK, TaskOfPc, SetStatePc, StateTypeOK
<1>3. \/ Answer
      \/ Goto("invalid") /\ CheckStateTransition(state, new) = "InvalidState"
      \/ /\ CheckStateTransition(state, new) = "None"
         /\ \/ ToIdleFromLoadedOrWait(state, new) /\ Goto("populateIn")
            \/ ToLoaded(state, new) /\ state # "WaitForResources" /\ Goto("unpopulateIn")
            \/ ToExecutingOrPause(state, new) /\ Goto("start")
            \/ Goto("stop") \/ Goto("switch")
  BY DEF MainCheck
<1>4. /\ \A pc \in MainPc : Goto(pc) => main'.pc = pc /\ main'.task = main.task
      /\ Answer => main'.pc = "take"
  BY GotoType, AnswerType DEF IInv, TypeOK, ClientTypeOK
<1>5. {"invalid", "populateIn", "unpopulateIn", "start", "stop", "switch"} \subseteq MainPc
  BY DEF MainPc
<1>6. /\ ToLoaded(state, new) /\ state # "WaitForResources" => state = "Idle"
      /\ ToExecutingOrPause(state, new) => state = "Idle"
      /\ ToIdleFromLoadedOrWait(state, new) => state \in {"Loaded", "WaitForResources"}
  BY DEF ToLoaded, ToExecutingOrPause, ToIdleFromLoadedOrWait
<1>7. QED
  BY <1>1, <1>3, <1>4, <1>5, <1>6

(* The rest of TreatSetStateCommand goes straight on, or ends.                *)
LEMMA SetStateSteps ==
  ASSUME IInv,
         \/ \E d \in Dirs : MainPopulate(d) \/ MainUnpopulate(d)
         \/ MainStart \/ MainStop
  PROVE  /\ UNCHANGED <<state, todo, fifo, worker>>
         /\ \/ main'.pc = "take"
            \/ /\ main'.task = main.task
               /\ \/ main.pc = "populateIn" /\ main'.pc = "populateOut"
                  \/ main.pc = "unpopulateIn" /\ main'.pc = "unpopulateOut"
                  \/ /\ main.pc \in {"populateOut", "unpopulateOut", "start", "stop"}
                     /\ main'.pc = "switch"
<1>1. /\ UNCHANGED <<state, todo, fifo, worker>>
      /\ \/ Answer
         \/ main.pc = "populateIn" /\ Goto("populateOut")
         \/ main.pc = "unpopulateIn" /\ Goto("unpopulateOut")
         \/ main.pc \in {"populateOut", "unpopulateOut", "start", "stop"} /\ Goto("switch")
  BY DEF MainPopulate, MainUnpopulate, MainStart, MainStop, stateVars, workerVars, Dirs
<1>2. {"populateOut", "unpopulateOut", "switch"} \subseteq MainPc
  BY DEF MainPc
<1>3. QED
  BY <1>1, <1>2, GotoType, AnswerType DEF IInv, TypeOK, ClientTypeOK

(* The commands of the ports and the end of a Flush: nothing is known after    *)
(* them but what they leave alone.                                           *)
LEMMA PortSteps ==
  ASSUME IInv,
         \/ MainRestart \/ MainFlushEos \/ MainBlock \/ MainRestartPort \/ MainWaitEmpty
         \/ MainWaitFull \/ MainReopen \/ MainEnabled \/ MainSwitch \/ MainInvalid
  PROVE  \/ main'.pc \in {"take", "restartPort", "waitEmpty", "reopen", "enabled"}
         \/ /\ MainRestart /\ main.pc = "restart" /\ main'.pc = "flushEos"
            /\ UNCHANGED <<state, fifo, worker>>
<1>1. \/ Answer \/ GiveUp
      \/ \E pc \in {"restartPort", "waitEmpty", "reopen", "enabled"} : Goto(pc)
      \/ MainRestart /\ main.pc = "restart" /\ Goto("flushEos") /\ UNCHANGED <<state, fifo, worker>>
  BY DEF MainRestart, MainFlushEos, MainBlock, MainRestartPort, MainWaitEmpty, MainWaitFull,
         MainReopen, MainEnabled, MainSwitch, MainInvalid, stateVars, workerVars
<1>2. {"restartPort", "waitEmpty", "reopen", "enabled", "flushEos"} \subseteq MainPc
  BY DEF MainPc
<1>3. Answer \/ GiveUp => main'.pc = "take"
  BY DEF Answer, GiveUp
<1>4. QED
  BY <1>1, <1>2, <1>3, GotoType DEF IInv, TypeOK

(* A transition is checked, then made, by one thread.                         *)
LEMMA NextTransit == ASSUME IInv, Transit, [Next]_vars PROVE Transit'
<1>1. CASE Client \/ Workers \/ Codec \/ MainDispatch \/ UNCHANGED vars
  BY <1>1, OthersKeepPlace DEF Transit
<1>2. CASE MainTake
  BY <1>2, TakeStep DEF Transit, SetStatePc
<1>3. CASE MainUnblock \/ MainSwap
  <2>1. \E pc \in {"swap", "join"} : Goto(pc)
    BY <1>3 DEF MainUnblock, MainSwap
  <2>2. main'.pc \in {"swap", "join"}
    BY <2>1, GotoType DEF IInv, TypeOK, MainPc
  <2>3. QED
    BY <2>2 DEF Transit, SetStatePc
<1>4. CASE MainJoin
  BY <1>4, JoinStep DEF Transit, SetStatePc
<1>5. CASE MainReblock
  BY <1>5, ReblockStep DEF Transit, SetStatePc
<1>6. CASE MainCheck
  BY <1>6, CheckStep DEF Transit, SetStatePc
<1>7. CASE \/ \E d \in Dirs : MainPopulate(d) \/ MainUnpopulate(d)
           \/ MainStart \/ MainStop
  BY <1>7, SetStateSteps DEF Transit, SetStatePc
<1>8. CASE \/ MainRestart \/ MainFlushEos \/ MainBlock \/ MainRestartPort \/ MainWaitEmpty
           \/ MainWaitFull \/ MainReopen \/ MainEnabled \/ MainSwitch \/ MainInvalid
  BY <1>8, PortSteps DEF Transit, SetStatePc
<1>9. QED
  BY <1>1, <1>2, <1>3, <1>4, <1>5, <1>6, <1>7, <1>8 DEF Next, Main

-----------------------------------------------------------------------------
(* The flush                                                                *)

\* only the way out of Executing needs a flush
LEMMA FlushFrom ==
  ASSUME NEW cur, NEW new, FlushingRequired(cur, new)
  PROVE  cur = "Executing" /\ CheckStateTransition(cur, new) = "None"
<1>1. new # "Invalid"
  BY DEF FlushingRequired, CheckStateTransition
<1>2. GetTransientState(cur, new) \in {<<"Executing", "Pause">>, <<"Executing", "Idle">>}
  BY <1>1 DEF FlushingRequired
<1>3. QED
  BY <1>2 DEF FlushingRequired, GetTransientState, MaxTransient

LEMMA DrainedFrame ==
  ASSUME UNCHANGED <<fifo, worker>>
  PROVE  \A d \in Dirs : Drained(d) => Drained(d)'
BY DEF Drained, HasBuffer

\* every step of a worker but the pop leaves it idle
LEMMA FinishDrained ==
  ASSUME IInv, NEW e \in Dirs, Finish(e)
  PROVE  \A d \in Dirs : Drained(d) => Drained(d)'
BY TaskFacts DEF IInv, TypeOK, WorkersTypeOK, Finish, Drained, HasBuffer, Idling

LEMMA PopDrained ==
  ASSUME IInv, NEW e \in Dirs, WorkerPop(e)
  PROVE  \A d \in Dirs : Drained(d) => Drained(d)'
<1> SUFFICES ASSUME NEW d \in Dirs, Drained(d) PROVE Drained(d)'
  OBVIOUS
<1>1. /\ fifo[e] # <<>> /\ fifo[e] \in Seq(Fences \cup BufferTasks)
      /\ \A f \in Dirs : f # e => fifo'[f] = fifo[f] /\ worker'[f] = worker[f]
      /\ fifo'[e] = Tail(fifo[e]) /\ worker'[e].task = Head(fifo[e])
  BY DEF WorkerPop, IInv, TypeOK, WorkersTypeOK
<1>2. CASE d = e
  <2>1. \A i \in DOMAIN fifo'[e] : \E j \in DOMAIN fifo[e] : fifo'[e][i] = fifo[e][j]
    BY <1>1, SequenceFacts
  <2>2. Head(fifo[e]).cmd = "SharedFence"
    BY <1>1, <1>2, SequenceFacts DEF Drained
  <2>3. QED
    BY <1>1, <1>2, <2>1, <2>2 DEF Drained, HasBuffer
<1>3. QED
  BY <1>1, <1>2 DEF Drained, HasBuffer

LEMMA BlockDrained ==
  ASSUME IInv, NEW ds \in SUBSET Dirs, Block(ds)
  PROVE  \A d \in Dirs : Drained(d) => Drained(d)'
<1> SUFFICES ASSUME NEW d \in Dirs, Drained(d) PROVE Drained(d)'
  OBVIOUS
<1>1. /\ fifo'[d] \in {fifo[d], Append(fifo[d], ClosedFence)} /\ worker' = worker
      /\ fifo[d] \in Seq(Fences \cup BufferTasks)
  BY DEF Block, IInv, TypeOK, WorkersTypeOK
<1>2. ClosedFence \in Fences \cup BufferTasks /\ ClosedFence.cmd = "SharedFence"
  BY FenceTypes DEF ClosedFence
<1>3. \A i \in DOMAIN fifo'[d] :
        fifo'[d][i] = ClosedFence \/ \E j \in DOMAIN fifo[d] : fifo'[d][i] = fifo[d][j]
  BY <1>1, <1>2, SequenceFacts
<1>4. QED
  BY <1>1, <1>2, <1>3 DEF Drained, HasBuffer

(* Nobody but "OMX - Sched" puts a buffer where it has been emptied.           *)
LEMMA OthersKeepDrained ==
  ASSUME IInv, Client \/ Workers \/ Codec \/ UNCHANGED vars
  PROVE  UNCHANGED todo /\ \A d \in Dirs : Drained(d) => Drained(d)'
<1>1. ASSUME NEW c, SendCommand(c) PROVE UNCHANGED <<todo, fifo, worker>>
  BY <1>1 DEF SendCommand, mainVars, workerVars
<1>2. CASE Client
  <2>1. UNCHANGED <<todo, fifo, worker>>
    BY <1>1, <1>2 DEF Client, SendSecondHalf, UseBuffer, FreeBuffer, FillThisBuffer,
       EmptyThisBuffer, UseBufferFails, mainVars, workerVars
  <2>2. QED
    BY <2>1, DrainedFrame
<1>3. CASE Codec \/ UNCHANGED vars
  <2>1. UNCHANGED <<todo, fifo, worker>>
    BY <1>3 DEF Codec, CodecReturns, CodecEos, CodecFinishesEos, CodecEosIn, CodecEosOut,
       CodecEosClear, CodecError, vars, mainVars, workerVars
  <2>2. QED
    BY <2>1, DrainedFrame
<1>4. CASE Workers
  <2>1. \/ \E d \in Dirs : WorkerPop(d) \/ Finish(d)
        \/ Finish("in") \/ Finish("out")
    BY <1>4 DEF Workers, Worker, WorkerPassFence, WorkerReturn, WorkerKeep, WorkerFill,
       WorkerEmpty, WorkerEos
  <2>2. UNCHANGED todo
    BY <1>4 DEF Workers, Worker, WorkerPop, WorkerPassFence, WorkerReturn, WorkerKeep,
       WorkerFill, WorkerEmpty, WorkerEos, mainVars
  <2>3. QED
    BY <2>1, <2>2, PopDrained, FinishDrained DEF Dirs
<1>5. QED
  BY <1>2, <1>3, <1>4

LEMMA NextFlushKnown == ASSUME IInv, Transit, FlushKnown, [Next]_vars PROVE FlushKnown'
<1>1. CASE Client \/ Workers \/ Codec \/ UNCHANGED vars
  BY <1>1, OthersKeepPlace, OthersKeepDrained DEF FlushKnown
<1>2. CASE MainDispatch
  <2>1. main'.pc = "take"
    BY <1>2 DEF MainDispatch, mainVars
  <2>2. QED
    BY <2>1 DEF FlushKnown
<1>3. CASE MainTake
  BY <1>3, TakeStep DEF FlushKnown
<1>4. CASE MainUnblock
  <2>1. main.pc = "unblock" /\ main'.pc = "swap" /\ main'.task = main.task /\ todo' = todo
    BY <1>4, GotoType DEF MainUnblock, IInv, TypeOK, MainPc
  <2>2. QED
    BY <2>1 DEF FlushKnown
<1>5. CASE MainSwap
  <2>1. /\ main.pc = "swap" /\ main'.pc = "join" /\ main'.task = main.task
        /\ UNCHANGED <<todo, fifo, worker>>
    BY <1>5, GotoType DEF MainSwap, IInv, TypeOK, MainPc
  <2>2. QED
    BY <2>1, DrainedFrame DEF FlushKnown
<1>6. CASE MainJoin
  <2>1. Drained(Flushed)
    BY <1>6, JoinStep, TaskFacts DEF Drained, HasBuffer, Idling
  <2>2. main.task.cmd # "DisablePort" => \A d \in Dirs \ todo' : Drained(d)'
    BY <1>6, <2>1, JoinStep, DrainedFrame DEF FlushKnown
  <2>3. QED
    BY <1>6, <2>2, JoinStep DEF FlushKnown
<1>7. CASE MainReblock
  <2>1. main.task.cmd # "DisablePort" => \A d \in Dirs : Drained(d)'
    BY <1>7, ReblockStep, BlockDrained DEF FlushKnown
  <2>2. \/ main.task.cmd # "DisablePort" /\ main'.pc \in {"check", "restart"}
        \/ main'.pc = "block"
    BY <1>7, ReblockStep
  <2>3. QED
    BY <2>1, <2>2 DEF FlushKnown
<1>8. CASE MainCheck
  <2>1. \/ main'.pc \in {"take", "invalid", "populateIn", "unpopulateIn", "start"}
        \/ /\ main.pc = "check" /\ main'.task = main.task /\ main'.pc \in {"stop", "switch"}
           /\ UNCHANGED <<state, fifo, worker>>
    BY <1>8, CheckStep
  <2>2. QED
    BY <2>1, DrainedFrame DEF FlushKnown
<1>9. CASE \/ \E d \in Dirs : MainPopulate(d) \/ MainUnpopulate(d)
           \/ MainStart \/ MainStop
  <2>1. CASE main'.pc \in {"take", "populateOut", "unpopulateOut"}
    BY <2>1 DEF FlushKnown
  <2>2. CASE main.pc \in {"populateOut", "unpopulateOut", "start"} /\ main'.pc = "switch"
    <3>1. main'.task = main.task /\ state' = state
      BY <1>9, <2>2, SetStateSteps
    <3>2. ~FlushingRequired(state, main.task.data)
      BY <2>2, FlushFrom DEF Transit
    <3>3. QED
      BY <2>2, <3>1, <3>2 DEF FlushKnown
  <2>3. CASE main.pc = "stop" /\ main'.pc = "switch"
    <3>1. main'.task = main.task /\ UNCHANGED <<state, fifo, worker>>
      BY <1>9, <2>3, SetStateSteps
    <3>2. QED
      BY <2>3, <3>1, DrainedFrame DEF FlushKnown
  <2>4. QED
    BY <1>9, <2>1, <2>2, <2>3, SetStateSteps
<1>10. CASE \/ MainRestart \/ MainFlushEos \/ MainBlock \/ MainRestartPort \/ MainWaitEmpty
            \/ MainWaitFull \/ MainReopen \/ MainEnabled \/ MainSwitch \/ MainInvalid
  <2>1. \/ main'.pc \in {"take", "restartPort", "waitEmpty", "reopen", "enabled"}
        \/ main.pc = "restart" /\ main'.pc = "flushEos" /\ UNCHANGED <<fifo, worker>>
    BY <1>10, PortSteps
  <2>2. QED
    BY <2>1, DrainedFrame DEF FlushKnown
<1>11. QED
  BY <1>1, <1>2, <1>3, <1>4, <1>5, <1>6, <1>7, <1>8, <1>9, <1>10 DEF Next, Main

-----------------------------------------------------------------------------
(* The module and the end of the stream                                     *)

\* the codec holds nothing, owes nothing and is in no callback
AtRest == eosAsked = 0 /\ codecPc = "idle" /\ \A d \in Dirs : held[d] = {}

(* A module that is not started is at rest, one a Flush has restarted as well,  *)
(* and a handle outlives its buffer only inside the encoder's end-of-stream     *)
(* callback.                                                                 *)
EosKnown ==
  /\ module # "started" => AtRest
  /\ main.pc = "flushEos" => AtRest
  /\ codecPc \in {"idle", "eosIn"} => dangling = {}
  /\ codecPc = "eosOut" => "out" \notin dangling
  /\ Decoder => dangling = {}

LEMMA EosFrame ==
  ASSUME EosKnown, UNCHANGED <<moduleVars, eosVars>>,
         UNCHANGED main \/ main'.pc # "flushEos"
  PROVE  EosKnown'
BY DEF EosKnown, AtRest, moduleVars, eosVars

LEMMA ClientEos == ASSUME EosKnown, Client \/ UNCHANGED vars PROVE EosKnown'
<1>1. ASSUME NEW c, SendCommand(c) PROVE UNCHANGED <<main, moduleVars, eosVars>>
  BY <1>1 DEF SendCommand, mainVars
<1>2. UNCHANGED <<main, moduleVars, eosVars>>
  BY <1>1 DEF Client, SendSecondHalf, UseBuffer, FreeBuffer, FillThisBuffer,
     EmptyThisBuffer, UseBufferFails, mainVars, vars
<1>3. QED
  BY <1>2, EosFrame

\* a worker that hands something over has not been drained
LEMMA WorkersEos == ASSUME IInv, FlushKnown, EosKnown, Workers PROVE EosKnown'
<1>1. CASE \E d \in Dirs : Worker(d)
  <2>1. UNCHANGED <<main, moduleVars, eosVars>>
    BY <1>1 DEF Worker, WorkerPop, WorkerPassFence, WorkerReturn, mainVars
  <2>2. QED
    BY <2>1, EosFrame
<1>2. CASE WorkerKeep \/ WorkerFill \/ WorkerEmpty \/ WorkerEos
  <2>1. \E d \in Dirs : HasBuffer(d)
    BY <1>2 DEF WorkerKeep, WorkerFill, WorkerEmpty, WorkerEos, Processes, Dirs
  <2>2. main.pc # "flushEos" /\ UNCHANGED <<main, module, codecPc>>
    BY <1>2, <2>1 DEF FlushKnown, Drained, WorkerKeep, WorkerFill, WorkerEmpty, WorkerEos,
       mainVars, moduleVars, eosVars
  <2>3. module # "started" => UNCHANGED <<held, eosAsked>>
    BY <1>2 DEF WorkerKeep, WorkerFill, WorkerEmpty, WorkerEos, ModuleTakes, moduleVars
  <2>4. dangling' \subseteq dangling
    BY <1>2 DEF WorkerKeep, WorkerFill, WorkerEmpty, WorkerEos, eosVars
  <2>5. QED
    BY <2>2, <2>3, <2>4 DEF EosKnown, AtRest
<1>3. QED
  BY <1>1, <1>2 DEF Workers

LEMMA CodecKeepsEos == ASSUME IInv, EosKnown, Codec PROVE EosKnown'
<1>1. CASE \E b \in Buffers : CodecReturns(b)
  <2>1. PICK b \in Buffers : CodecReturns(b)
    BY <1>1
  <2>2. ~AtRest
    BY <2>1, BufferDirs DEF CodecReturns, AtRest
  <2>3. UNCHANGED <<main, module, eosAsked, eosVars>>
    BY <2>1 DEF CodecReturns, mainVars
  <2>4. QED
    BY <2>2, <2>3 DEF EosKnown, eosVars
<1>2. CASE CodecEos
  BY <1>2 DEF CodecEos, EosKnown, AtRest, mainVars
<1>3. CASE CodecEosIn
  <2>1. /\ codecPc = "eosIn" /\ codecPc' = "eosOut" /\ dangling = {}
        /\ UNCHANGED <<main, module>>
        /\ "out" \notin dangling' /\ (Decoder => dangling' = {})
    BY <1>3 DEF CodecEosIn, EosKnown, EosReturn, mainVars, moduleVars
  <2>2. QED
    BY <2>1 DEF EosKnown, AtRest
<1>4. CASE CodecEosOut
  <2>1. /\ codecPc = "eosOut" /\ codecPc' = (IF Decoder THEN "idle" ELSE "eosClear")
        /\ UNCHANGED <<main, module>>
        /\ Decoder => dangling' = {}
    BY <1>4 DEF CodecEosOut, EosKnown, EosReturn, mainVars, moduleVars
  <2>2. QED
    BY <2>1 DEF EosKnown, AtRest
<1>5. CASE CodecEosClear
  BY <1>5 DEF CodecEosClear, EosKnown, AtRest, mainVars, moduleVars
<1>6. CASE CodecError
  BY <1>6, EosFrame DEF CodecError, mainVars
<1>7. QED
  BY <1>1, <1>2, <1>3, <1>4, <1>5, <1>6 DEF Codec, CodecFinishesEos

\* destroying the encoder or decoder waits for its callbacks
LEMMA StoppedAtRest ==
  ASSUME EosKnown, ModuleStop \/ ModuleRestart, UNCHANGED codecPc
  PROVE  AtRest'
<1>1. CASE module = "stopped"
  BY <1>1 DEF EosKnown, AtRest, ModuleStop, ModuleRestart, moduleVars
<1>2. CASE module # "stopped"
  BY <1>2 DEF AtRest, ModuleStop, ModuleRestart, Destroyed
<1>3. QED
  BY <1>1, <1>2

\* only a Flush comes to FlushEosHandles
LEMMA MainToFlushEos == ASSUME IInv, Main, ~MainRestart PROVE main'.pc # "flushEos"
<1>1. CASE MainDispatch
  BY <1>1 DEF MainDispatch, mainVars
<1>2. CASE MainTake
  BY <1>2, TakeStep
<1>3. CASE MainUnblock \/ MainSwap
  <2>1. \E pc \in {"swap", "join"} : Goto(pc)
    BY <1>3 DEF MainUnblock, MainSwap
  <2>2. QED
    BY <2>1, GotoType DEF IInv, TypeOK, MainPc
<1>4. CASE MainJoin
  BY <1>4, JoinStep
<1>5. CASE MainReblock
  BY <1>5, ReblockStep
<1>6. CASE MainCheck
  BY <1>6, CheckStep
<1>7. CASE \/ \E d \in Dirs : MainPopulate(d) \/ MainUnpopulate(d)
           \/ MainStart \/ MainStop
  BY <1>7, SetStateSteps
<1>8. CASE \/ MainFlushEos \/ MainBlock \/ MainRestartPort \/ MainWaitEmpty
           \/ MainWaitFull \/ MainReopen \/ MainEnabled \/ MainSwitch \/ MainInvalid
  BY <1>8, PortSteps
<1>9. QED
  BY <1>1, <1>2, <1>3, <1>4, <1>5, <1>6, <1>7, <1>8 DEF Main

LEMMA MainEos == ASSUME IInv, EosKnown, Main PROVE EosKnown'
<1>1. CASE MainRestart \/ MainRestartPort \/ MainReopen \/ MainStop \/ MainInvalid
  <2>1. UNCHANGED eosVars /\ (ModuleRestart \/ ModuleStop)
    BY <1>1 DEF MainRestart, MainRestartPort, MainReopen, MainStop, MainInvalid
  <2>2. AtRest' /\ UNCHANGED <<codecPc, dangling>>
    BY <2>1, StoppedAtRest DEF eosVars
  <2>3. QED
    BY <2>2 DEF EosKnown
<1>2. CASE MainStart
  <2>1. module = "stopped" \/ UNCHANGED module
    BY <1>2 DEF MainStart
  <2>2. UNCHANGED <<held, eosAsked, codecPc, dangling>> /\ main'.pc # "flushEos"
    BY <1>2, SetStateSteps DEF MainStart, eosVars, Dirs
  <2>3. QED
    BY <2>1, <2>2 DEF EosKnown, AtRest
<1>3. CASE MainFlushEos
  <2>1. UNCHANGED <<moduleVars, codecPc, dangling>> /\ main'.pc = "take"
    BY <1>3 DEF MainFlushEos, Answer
  <2>2. QED
    BY <2>1 DEF EosKnown, AtRest, moduleVars
<1>4. CASE ~(\/ MainRestart \/ MainRestartPort \/ MainReopen \/ MainStop \/ MainInvalid
             \/ MainStart \/ MainFlushEos)
  <2>1. UNCHANGED <<moduleVars, eosVars>>
    BY <1>4 DEF Main, MainDispatch, MainTake, MainUnblock, MainSwap, MainJoin, MainReblock,
       MainCheck, MainPopulate, MainUnpopulate, MainSwitch, MainBlock, MainWaitEmpty,
       MainWaitFull, MainEnabled
  <2>2. QED
    BY <1>4, <2>1, MainToFlushEos, EosFrame
<1>5. QED
  BY <1>1, <1>2, <1>3, <1>4

LEMMA NextEosKnown == ASSUME IInv, FlushKnown, EosKnown, [Next]_vars PROVE EosKnown'
BY ClientEos, WorkersEos, CodecKeepsEos, MainEos DEF Next

-----------------------------------------------------------------------------
(* How many tasks of a queue are of a kind                                   *)

CountIn(q, T) == Cardinality({i \in DOMAIN q : q[i] \in T})

LEMMA CountType ==
  ASSUME NEW S, NEW s \in Seq(S), NEW T
  PROVE  /\ CountIn(s, T) \in Nat
         /\ IsFiniteSet({i \in DOMAIN s : s[i] \in T})
<1>1. DOMAIN s = 1..Len(s) /\ Len(s) \in Nat
  OBVIOUS
<1>2. IsFiniteSet(1..Len(s))
  BY <1>1, FS_Interval
<1>3. IsFiniteSet({i \in DOMAIN s : s[i] \in T})
  BY <1>1, <1>2, FS_Subset
<1>4. QED
  BY <1>3, FS_CardinalityType DEF CountIn

LEMMA CountAppend ==
  ASSUME NEW S, NEW s \in Seq(S), NEW e \in S, NEW T
  PROVE  CountIn(Append(s, e), T) = CountIn(s, T) + One(e \in T)
<1> DEFINE before == {i \in DOMAIN s : s[i] \in T}
           after  == {i \in DOMAIN Append(s, e) : Append(s, e)[i] \in T}
           n      == Len(s) + 1
<1>1. /\ DOMAIN s = 1..Len(s) /\ DOMAIN Append(s, e) = 1..n /\ Len(s) \in Nat
      /\ \A i \in 1..Len(s) : Append(s, e)[i] = s[i]
      /\ Append(s, e)[n] = e
  OBVIOUS
<1>2. after = IF e \in T THEN before \cup {n} ELSE before
  <2>1. n \in 1..n /\ 1..n = (1..Len(s)) \cup {n}
    BY <1>1
  <2>2. QED
    BY <1>1, <2>1
<1>3. IsFiniteSet(before) /\ n \notin before /\ Cardinality(before) \in Nat
  <2>1. IsFiniteSet(before) /\ Cardinality(before) \in Nat
    BY CountType DEF CountIn
  <2>2. n \notin 1..Len(s)
    BY <1>1
  <2>3. QED
    BY <1>1, <2>1, <2>2
<1> HIDE DEF before, after, n
<1>4. Cardinality(before \cup {n}) = Cardinality(before) + 1
  BY <1>3, FS_AddElement
<1>5. Cardinality(after) = Cardinality(before) + One(e \in T)
  BY <1>2, <1>3, <1>4 DEF One
<1>6. QED
  BY <1>5 DEF CountIn, before, after

LEMMA CountTail ==
  ASSUME NEW S, NEW s \in Seq(S), s # <<>>, NEW T
  PROVE  CountIn(s, T) = CountIn(Tail(s), T) + One(Head(s) \in T)
<1> DEFINE all  == {i \in DOMAIN s : s[i] \in T}
           rest == {i \in DOMAIN Tail(s) : Tail(s)[i] \in T}
           f    == [i \in rest |-> i + 1]
<1>1. /\ DOMAIN s = 1..Len(s) /\ DOMAIN Tail(s) = 1..(Len(s) - 1) /\ Len(s) \in Nat \ {0}
      /\ \A i \in 1..(Len(s) - 1) : Tail(s)[i] = s[i + 1]
      /\ Head(s) = s[1] /\ Tail(s) \in Seq(S)
  OBVIOUS
<1>2. IsFiniteSet(rest) /\ IsFiniteSet(all) /\ Cardinality(rest) \in Nat
      /\ Cardinality(all) \in Nat
  BY <1>1, CountType DEF CountIn
<1>3. f \in Bijection(rest, all \ {1})
  <2>1. \A i \in rest : f[i] \in all \ {1}
    BY <1>1
  <2>2. \A j \in all \ {1} : j - 1 \in rest /\ f[j - 1] = j
    BY <1>1
  <2>3. \A i, j \in rest : f[i] = f[j] => i = j
    BY <1>1
  <2>4. f \in Injection(rest, all \ {1})
    BY <2>1, <2>3 DEF Injection, IsInjective
  <2>5. f \in Surjection(rest, all \ {1})
    BY <2>1, <2>2 DEF Surjection
  <2>6. QED
    BY <2>4, <2>5 DEF Bijection
<1>4. Cardinality(all \ {1}) = Cardinality(rest)
  BY <1>2, <1>3, FS_Bijection DEF ExistsBijection
<1>5. Cardinality(all \ {1}) = Cardinality(all) - One(Head(s) \in T)
  <2>1. 1 \in all <=> Head(s) \in T
    BY <1>1
  <2> HIDE DEF all
  <2>2. Cardinality(all \ {1}) = IF 1 \in all THEN Cardinality(all) - 1 ELSE Cardinality(all)
    BY <1>2, FS_RemoveElement
  <2>3. QED
    BY <1>2, <2>1, <2>2 DEF One
<1> HIDE DEF all, rest
<1>6. Cardinality(all) = Cardinality(rest) + One(Head(s) \in T)
  BY <1>2, <1>4, <1>5 DEF One
<1>7. QED
  BY <1>6 DEF CountIn, all, rest

\* the tasks of a queue that carry a buffer
LEMMA QueuedIsCount ==
  ASSUME NEW S, NEW s \in Seq(S), NEW b
  PROVE  /\ Queued(s, b) = CountIn(s, {t \in S : Carries(t, b)})
         /\ {i \in DOMAIN s : Carries(s[i], b)} = {i \in DOMAIN s : s[i] \in {t \in S : Carries(t, b)}}
<1>1. \A i \in DOMAIN s : s[i] \in S
  OBVIOUS
<1>2. QED
  BY <1>1 DEF Queued, CountIn

LEMMA QueuedType ==
  ASSUME NEW S, NEW s \in Seq(S), NEW b
  PROVE  /\ Queued(s, b) \in Nat
         /\ IsFiniteSet({i \in DOMAIN s : Carries(s[i], b)})
<1>1. PICK T : T = {t \in S : Carries(t, b)}
  OBVIOUS
<1>2. CountIn(s, T) \in Nat /\ IsFiniteSet({i \in DOMAIN s : s[i] \in T})
  BY CountType
<1>3. QED
  BY <1>1, <1>2, QueuedIsCount

LEMMA QueuedAppend ==
  ASSUME NEW S, NEW s \in Seq(S), NEW e \in S, NEW b
  PROVE  Queued(Append(s, e), b) = Queued(s, b) + One(Carries(e, b))
<1>1. PICK T : T = {t \in S : Carries(t, b)}
  OBVIOUS
<1>2. Append(s, e) \in Seq(S) /\ (e \in T <=> Carries(e, b))
  BY <1>1
<1>3. CountIn(Append(s, e), T) = CountIn(s, T) + One(e \in T)
  BY CountAppend
<1>4. QED
  BY <1>1, <1>2, <1>3, QueuedIsCount DEF One

LEMMA QueuedTail ==
  ASSUME NEW S, NEW s \in Seq(S), s # <<>>, NEW b
  PROVE  Queued(s, b) = Queued(Tail(s), b) + One(Carries(Head(s), b))
<1>1. PICK T : T = {t \in S : Carries(t, b)}
  OBVIOUS
<1>2. Tail(s) \in Seq(S) /\ Head(s) \in S /\ (Head(s) \in T <=> Carries(Head(s), b))
  BY <1>1
<1>3. CountIn(s, T) = CountIn(Tail(s), T) + One(Head(s) \in T)
  BY CountTail
<1>4. QED
  BY <1>1, <1>2, <1>3, QueuedIsCount DEF One

LEMMA QueuedReleased ==
  ASSUME NEW s, NEW b
  PROVE  /\ \A t : Carries(Released(t), b) = Carries(t, b)
         /\ Queued([i \in DOMAIN s |-> Released(s[i])], b) = Queued(s, b)
<1>1. \A t : Carries(Released(t), b) <=> Carries(t, b)
  BY DEF Carries, Released, OpenFence
<1>2. {i \in DOMAIN s : Carries(Released(s[i]), b)} = {i \in DOMAIN s : Carries(s[i], b)}
  BY <1>1
<1>3. QED
  BY <1>1, <1>2 DEF Queued, Carries

-----------------------------------------------------------------------------
(* Input buffers stay on the input side, output buffers on the output side     *)

Placed ==
  \A d \in Dirs : /\ held[d] \subseteq BuffersOf(d) /\ portBuffers[d] \subseteq BuffersOf(d)
                  /\ eosHandle[d] \in BuffersOf(d) \cup {None}

LEMMA DirFacts ==
  /\ \A b \in Buffers : DirOf(b) \in Dirs /\ b \in BuffersOf(DirOf(b)) /\ b # None
  /\ \A d \in Dirs : \A b \in BuffersOf(d) : b \in Buffers /\ DirOf(b) = d
BY BuffersAssumption DEF DirOf, BuffersOf, Dirs, Buffers

\* the buffer a worker has in its hands is one of its port
LEMMA InHand ==
  ASSUME IInv, NEW d \in Dirs, HasBuffer(d)
  PROVE  worker[d].task.data \in BuffersOf(d) /\ worker[d].task.data \in Buffers
BY HandFacts DEF IInv, TypeOK

LEMMA TakesPlaced ==
  ASSUME IInv, Placed, NEW d \in Dirs, Processes(d), ModuleTakes(worker[d].task.data),
         UNCHANGED <<portBuffers, eosHandle>>
  PROVE  Placed'
<1>1. worker[d].task.data \in BuffersOf(d) /\ DirOf(worker[d].task.data) = d
  BY InHand, DirFacts DEF Processes
<1>2. \A e \in Dirs : held'[e] \subseteq BuffersOf(e)
  BY <1>1 DEF ModuleTakes, Placed, IInv, TypeOK, ModuleTypeOK
<1>3. QED
  BY <1>2 DEF Placed

LEMMA KeepPlaced ==
  ASSUME IInv, Placed, NEW d \in Dirs, Processes(d),
         eosHandle' = [eosHandle EXCEPT ![d] = worker[d].task.data],
         UNCHANGED <<portBuffers, held>>
  PROVE  Placed'
<1>1. worker[d].task.data \in BuffersOf(d)
  BY InHand DEF Processes
<1>2. QED
  BY <1>1 DEF Placed, IInv, TypeOK, ModuleTypeOK

LEMMA WorkersPlaced == ASSUME IInv, Placed, Workers PROVE Placed'
<1>1. CASE \E d \in Dirs : Worker(d)
  BY <1>1 DEF Worker, WorkerPop, WorkerPassFence, WorkerReturn, Placed, portVars, moduleVars,
     eosVars
<1>2. CASE WorkerKeep
  BY <1>2, KeepPlaced DEF WorkerKeep, Dirs, portVars, moduleVars
<1>3. CASE WorkerFill
  BY <1>3, TakesPlaced DEF WorkerFill, Dirs, portVars, eosVars
<1>4. CASE WorkerEmpty
  BY <1>4, TakesPlaced DEF WorkerEmpty, Dirs, portVars, eosVars
<1>5. CASE WorkerEos
  BY <1>5, KeepPlaced DEF WorkerEos, Dirs, portVars
<1>6. QED
  BY <1>1, <1>2, <1>3, <1>4, <1>5 DEF Workers

LEMMA ClientPlaced == ASSUME IInv, Placed, Client PROVE Placed'
<1>1. ASSUME NEW c, SendCommand(c) PROVE UNCHANGED <<portBuffers, held, eosHandle>>
  BY <1>1 DEF SendCommand, QueueStateCommand, QueuePortCommand, portVars, moduleVars, eosVars
<1>2. CASE \E b \in Buffers : UseBuffer(b) \/ FreeBuffer(b)
  <2>1. UNCHANGED <<held, eosHandle>>
    BY <1>2 DEF UseBuffer, FreeBuffer, moduleVars, eosVars
  <2>2. PICK b \in Buffers :
          \/ portBuffers' = [portBuffers EXCEPT ![DirOf(b)] = @ \cup {b}]
          \/ portBuffers' = [portBuffers EXCEPT ![DirOf(b)] = @ \ {b}]
    BY <1>2 DEF UseBuffer, FreeBuffer
  <2>3. \A d \in Dirs : portBuffers'[d] \subseteq BuffersOf(d)
    BY <2>2, DirFacts DEF Placed, IInv, TypeOK, PortsTypeOK
  <2>4. QED
    BY <2>1, <2>3 DEF Placed
<1>3. CASE ~\E b \in Buffers : UseBuffer(b) \/ FreeBuffer(b)
  <2>1. UNCHANGED <<portBuffers, held, eosHandle>>
    BY <1>1, <1>3 DEF Client, SendSecondHalf, QueuePortCommand, FillThisBuffer,
       EmptyThisBuffer, UseBufferFails, portVars, moduleVars, eosVars
  <2>2. QED
    BY <2>1 DEF Placed
<1>4. QED
  BY <1>2, <1>3

LEMMA CodecPlaced == ASSUME IInv, Placed, Codec PROVE Placed'
<1>1. UNCHANGED portBuffers
  BY DEF Codec, CodecReturns, CodecEos, CodecFinishesEos, CodecEosIn, CodecEosOut,
     CodecEosClear, CodecError, portVars
<1>2. \A d \in Dirs : held'[d] \subseteq held[d]
  BY DEF Codec, CodecReturns, CodecEos, CodecFinishesEos, CodecEosIn, CodecEosOut,
     CodecEosClear, CodecError, moduleVars, IInv, TypeOK, ModuleTypeOK
<1>3. \A d \in Dirs : eosHandle'[d] \in {eosHandle[d], None}
  <2>1. CASE CodecFinishesEos
    BY <2>1 DEF CodecFinishesEos, CodecEosIn, CodecEosOut, CodecEosClear, EosReturn, IInv,
       TypeOK, ModuleTypeOK
  <2>2. CASE ~CodecFinishesEos
    BY <2>2 DEF Codec, CodecReturns, CodecEos, CodecError, eosVars
  <2>3. QED
    BY <2>1, <2>2
<1>4. QED
  BY <1>1, <1>2, <1>3 DEF Placed

LEMMA MainPlaced == ASSUME IInv, Placed, Main PROVE Placed'
<1>1. UNCHANGED portBuffers
  BY DEF Main, MainDispatch, MainTake, MainUnblock, MainSwap, MainJoin, MainReblock,
     MainCheck, MainPopulate, MainUnpopulate, MainStart, MainStop, MainSwitch, MainInvalid,
     MainRestart, MainFlushEos, MainBlock, MainRestartPort, MainWaitEmpty, MainWaitFull,
     MainReopen, MainEnabled, portVars
<1>2. \A d \in Dirs : held'[d] \subseteq held[d]
  <2>1. CASE MainRestart \/ MainRestartPort \/ MainReopen \/ MainStop \/ MainInvalid
    <3>1. ModuleRestart \/ ModuleStop
      BY <2>1 DEF MainRestart, MainRestartPort, MainReopen, MainStop, MainInvalid
    <3>2. QED
      BY <3>1 DEF ModuleRestart, ModuleStop, Destroyed, moduleVars
  <2>2. CASE ~(MainRestart \/ MainRestartPort \/ MainReopen \/ MainStop \/ MainInvalid)
    BY <2>2 DEF Main, MainDispatch, MainTake, MainUnblock, MainSwap, MainJoin, MainReblock,
       MainCheck, MainPopulate, MainUnpopulate, MainStart, MainSwitch, MainFlushEos,
       MainBlock, MainWaitEmpty, MainWaitFull, MainEnabled, moduleVars
  <2>3. QED
    BY <2>1, <2>2
<1>3. \A d \in Dirs : eosHandle'[d] \in {eosHandle[d], None}
  BY DEF Main, MainDispatch, MainTake, MainUnblock, MainSwap, MainJoin, MainReblock,
     MainCheck, MainPopulate, MainUnpopulate, MainStart, MainStop, MainSwitch, MainInvalid,
     MainRestart, MainFlushEos, MainBlock, MainRestartPort, MainWaitEmpty, MainWaitFull,
     MainReopen, MainEnabled, eosVars
<1>4. QED
  BY <1>1, <1>2, <1>3 DEF Placed

LEMMA NextPlaced == ASSUME IInv, Placed, [Next]_vars PROVE Placed'
<1>1. CASE UNCHANGED vars
  BY <1>1 DEF Placed, vars, portVars, moduleVars, eosVars
<1>2. QED
  BY <1>1, ClientPlaced, MainPlaced, WorkersPlaced, CodecPlaced DEF Next

-----------------------------------------------------------------------------
(* Conservation: every action that takes a buffer from one place puts it in    *)
(* one other                                                                *)

Balanced(b) == Copies(b) = One(b \in portBuffers[DirOf(b)])

elsewhereVars == <<portBuffers, held, eosHandle, dangling, lost>>

LEMMA CountTypes ==
  ASSUME IInv, NEW b \in Buffers
  PROVE  Queued(mainQ, b) \in Nat /\ Queued(fifo[DirOf(b)], b) \in Nat
BY QueuedType, DirFacts DEF IInv, TypeOK, MainTypeOK, WorkersTypeOK

LEMMA KeptFacts ==
  ASSUME NEW h, NEW g, \A d \in Dirs : h[d] \in BuffersOf(d) \cup {None}, NEW b \in Buffers
  PROVE  (\E d \in Dirs \ g : h[d] = b) <=> (DirOf(b) \notin g /\ h[DirOf(b)] = b)
BY DirFacts

LEMMA BalanceFrame ==
  ASSUME NEW b \in Buffers, Balanced(b), UNCHANGED <<elsewhereVars, client>>,
         Queued(mainQ', b) = Queued(mainQ, b),
         Queued(fifo'[DirOf(b)], b) = Queued(fifo[DirOf(b)], b),
         Carries(worker'[DirOf(b)].task, b) <=> Carries(worker[DirOf(b)].task, b)
  PROVE  Balanced(b)'
BY DEF Balanced, Copies, One, Kept, elsewhereVars

LEMMA CommandBalance ==
  ASSUME IInv, NEW b \in Buffers, Balanced(b),
         NEW e \in StateTasks \cup PortCommands, mainQ' = Append(mainQ, e),
         UNCHANGED <<elsewhereVars, client, fifo, worker>>
  PROVE  Balanced(b)'
<1>1. e \in MainTasks /\ ~Carries(e, b) /\ mainQ \in Seq(MainTasks)
  BY TaskFacts DEF MainTasks, Carries, IInv, TypeOK, MainTypeOK
<1>2. Queued(mainQ', b) = Queued(mainQ, b)
  BY <1>1, QueuedAppend, CountTypes DEF One
<1>3. QED
  BY <1>2, BalanceFrame

LEMMA SubmitBalance ==
  ASSUME IInv, NEW b \in Buffers, Balanced(b), NEW x \in client, NEW e \in BufferTasks,
         e.data = x, mainQ' = Append(mainQ, e), client' = client \ {x},
         UNCHANGED <<elsewhereVars, fifo, worker>>
  PROVE  Balanced(b)'
<1>1. /\ e \in MainTasks /\ mainQ \in Seq(MainTasks)
      /\ Carries(e, b) <=> b = x
  BY TaskFacts DEF MainTasks, BufferTasks, Carries, IInv, TypeOK, MainTypeOK
<1>2. Queued(mainQ', b) = Queued(mainQ, b) + One(b = x)
  BY <1>1, QueuedAppend DEF One
<1>3. QED
  BY <1>2, CountTypes DEF Balanced, Copies, One, Kept, elsewhereVars

LEMMA UseBufferBalance ==
  ASSUME IInv, NEW b \in Buffers, Balanced(b), NEW x \in Buffers, UseBuffer(x)
  PROVE  Balanced(b)'
<1>1. /\ x \notin portBuffers[DirOf(x)]
      /\ portBuffers' = [portBuffers EXCEPT ![DirOf(x)] = @ \cup {x}]
      /\ client' = client \cup {x}
      /\ UNCHANGED <<mainQ, fifo, worker, held, eosHandle, dangling, lost>>
  BY DEF UseBuffer, workerVars, moduleVars, eosVars
<1>2. b \in portBuffers'[DirOf(b)] <=> b = x \/ b \in portBuffers[DirOf(b)]
  BY <1>1, DirFacts DEF IInv, TypeOK, PortsTypeOK
<1>3. QED
  BY <1>1, <1>2, CountTypes DEF Balanced, Copies, One, Kept

LEMMA FreeBufferBalance ==
  ASSUME IInv, NEW b \in Buffers, Balanced(b), NEW x \in Buffers, FreeBuffer(x)
  PROVE  Balanced(b)'
<1>1. /\ x \in client
      /\ portBuffers' = [portBuffers EXCEPT ![DirOf(x)] = @ \ {x}]
      /\ client' = client \ {x}
      /\ UNCHANGED <<mainQ, fifo, worker, held, eosHandle, dangling, lost>>
  BY DEF FreeBuffer, workerVars, moduleVars, eosVars
<1>2. b \in portBuffers'[DirOf(b)] <=> b # x /\ b \in portBuffers[DirOf(b)]
  BY <1>1, DirFacts DEF IInv, TypeOK, PortsTypeOK
<1>3. QED
  BY <1>1, <1>2, CountTypes DEF Balanced, Copies, One, Kept

\* a command of the client, whichever it is, puts one task in the queue
LEMMA SendQueues ==
  ASSUME IInv, NEW c \in StateCommands \cup PortCommands \cup AllCommands, SendCommand(c)
  PROVE  \E e \in StateTasks \cup PortCommands : mainQ' = Append(mainQ, e)
<1>1. CASE c \in StateCommands
  <2>1. c.cmd = "SetState" /\ c.data \in States
    BY <1>1 DEF StateCommands
  <2>2. [cmd |-> "SetState", data |-> c.data, opt |-> FALSE] \in StateTasks
    BY <2>1 DEF StateTasks
  <2>3. QED
    BY <2>1, <2>2 DEF SendCommand, QueueStateCommand
<1>2. CASE c \in AllCommands
  <2>1. c.cmd \in {"Flush", "DisablePort", "EnablePort"} /\ c.data = "all"
    BY <1>2 DEF AllCommands
  <2>2. [cmd |-> c.cmd, data |-> "in"] \in PortCommands
    BY <2>1 DEF PortCommands, Dirs
  <2>3. QED
    BY <2>1, <2>2 DEF SendCommand, QueuePortCommand
<1>3. CASE c \in PortCommands
  <2>1. c.cmd \in {"Flush", "DisablePort", "EnablePort"} /\ c.data \in Dirs
    BY <1>3, TaskFacts
  <2>2. [cmd |-> c.cmd, data |-> c.data] \in PortCommands /\ c.data # "all"
    BY <2>1 DEF PortCommands, Dirs
  <2>3. QED
    BY <2>1, <2>2 DEF SendCommand, QueuePortCommand
<1>4. QED
  BY <1>1, <1>2, <1>3

LEMMA ClientBalance ==
  ASSUME IInv, NEW b \in Buffers, Balanced(b), Client
  PROVE  Balanced(b)'
<1>1. ASSUME NEW c \in {m[2] : m \in {m \in MaySend : m[1] = state}}, SendCommand(c)
      PROVE  Balanced(b)'
  <2>1. c \in StateCommands \cup PortCommands \cup AllCommands
    BY ClientAssumption
  <2>2. PICK e \in StateTasks \cup PortCommands : mainQ' = Append(mainQ, e)
    BY <1>1, <2>1, SendQueues
  <2>3. UNCHANGED <<elsewhereVars, client, fifo, worker>>
    BY <1>1 DEF SendCommand, QueueStateCommand, QueuePortCommand, elsewhereVars, portVars,
       workerVars, moduleVars, eosVars
  <2>4. QED
    BY <2>2, <2>3, CommandBalance
<1>2. CASE SendSecondHalf
  <2>1. [cmd |-> half.cmd, data |-> "out"] \in PortCommands
    BY <1>2 DEF SendSecondHalf, IInv, TypeOK, ClientTypeOK, AllCommands, PortCommands, Dirs
  <2>2. mainQ' = Append(mainQ, [cmd |-> half.cmd, data |-> "out"])
    BY <1>2 DEF SendSecondHalf, QueuePortCommand
  <2>3. UNCHANGED <<elsewhereVars, client, fifo, worker>>
    BY <1>2 DEF SendSecondHalf, QueuePortCommand, elsewhereVars, workerVars, moduleVars,
       eosVars
  <2>4. QED
    BY <2>1, <2>2, <2>3, CommandBalance
<1>3. ASSUME NEW x \in InBuffers, NEW k \in Kinds, EmptyThisBuffer(x, k)
      PROVE  Balanced(b)'
  <2>1. [cmd |-> "EmptyBuffer", data |-> x, kind |-> k] \in BufferTasks
    BY ClientAssumption DEF BufferTasks, EmptyTasks
  <2>2. /\ x \in client /\ client' = client \ {x}
        /\ mainQ' = Append(mainQ, [cmd |-> "EmptyBuffer", data |-> x, kind |-> k])
        /\ UNCHANGED <<elsewhereVars, fifo, worker>>
    BY <1>3 DEF EmptyThisBuffer, MaySubmit, elsewhereVars, portVars, workerVars, moduleVars,
       eosVars
  <2>3. QED
    BY <2>1, <2>2, SubmitBalance
<1>4. ASSUME NEW x \in Buffers, FillThisBuffer(x) PROVE Balanced(b)'
  <2>1. [cmd |-> "FillBuffer", data |-> x] \in BufferTasks
    BY <1>4 DEF FillThisBuffer, BufferTasks, FillTasks
  <2>2. /\ x \in client /\ client' = client \ {x}
        /\ mainQ' = Append(mainQ, [cmd |-> "FillBuffer", data |-> x])
        /\ UNCHANGED <<elsewhereVars, fifo, worker>>
    BY <1>4 DEF FillThisBuffer, MaySubmit, elsewhereVars, portVars, workerVars, moduleVars,
       eosVars
  <2>3. QED
    BY <2>1, <2>2, SubmitBalance
<1>5. ASSUME NEW d \in Dirs, UseBufferFails(d) PROVE Balanced(b)'
  BY <1>5, BalanceFrame DEF UseBufferFails, elsewhereVars, workerVars, moduleVars, eosVars
<1>6. QED
  BY <1>1, <1>2, <1>3, <1>4, <1>5, UseBufferBalance, FreeBufferBalance DEF Client

(* The workers                                                              *)

LEMMA PopBalance ==
  ASSUME IInv, NEW b \in Buffers, Balanced(b), NEW d \in Dirs, WorkerPop(d)
  PROVE  Balanced(b)'
<1> DEFINE e == DirOf(b)
<1>1. /\ worker[d] = Idling /\ fifo[d] # <<>>
      /\ worker' = [worker EXCEPT ![d] = [task |-> Head(fifo[d]), by |-> handler[d]]]
      /\ fifo' = [fifo EXCEPT ![d] = Tail(@)]
      /\ UNCHANGED <<elsewhereVars, client, mainQ>>
  BY DEF WorkerPop, elsewhereVars, portVars, moduleVars, eosVars
<1>2. /\ e \in Dirs /\ fifo[d] \in Seq(Fences \cup BufferTasks)
      /\ fifo'[d] = Tail(fifo[d]) /\ worker'[d].task = Head(fifo[d])
      /\ e # d => fifo'[e] = fifo[e] /\ worker'[e] = worker[e]
  BY <1>1, DirFacts DEF IInv, TypeOK, WorkersTypeOK
<1>3. Queued(fifo[d], b) = Queued(fifo'[d], b) + One(Carries(worker'[d].task, b))
  BY <1>1, <1>2, QueuedTail
<1>4. ~Carries(worker[d].task, b)
  BY <1>1, TaskFacts DEF Carries, Idling
<1>5. Queued(fifo'[d], b) \in Nat
  BY <1>1, <1>2, SequenceFacts, QueuedType
<1>6. CASE e = d
  BY <1>1, <1>3, <1>4, <1>5, <1>6, CountTypes
     DEF Balanced, Copies, One, Kept, elsewhereVars
<1>7. CASE e # d
  BY <1>1, <1>2, <1>7, BalanceFrame
<1>8. QED
  BY <1>6, <1>7

\* a worker that is done has handed over what it carried, and nothing else
LEMMA HandedOver ==
  ASSUME IInv, NEW d \in Dirs, HasBuffer(d), Finish(d), NEW b \in Buffers
  PROVE  /\ UNCHANGED fifo
         /\ b = worker[d].task.data =>
              /\ DirOf(b) = d
              /\ Carries(worker[DirOf(b)].task, b) /\ ~Carries(worker'[DirOf(b)].task, b)
         /\ b # worker[d].task.data =>
              (Carries(worker'[DirOf(b)].task, b) <=> Carries(worker[DirOf(b)].task, b))
<1>1. /\ UNCHANGED fifo /\ DirOf(b) \in Dirs
      /\ worker'[d] = Idling /\ \A e \in Dirs : e # d => worker'[e] = worker[e]
  BY DirFacts DEF Finish, IInv, TypeOK, WorkersTypeOK
<1>2. ~Carries(Idling.task, b)
  BY TaskFacts DEF Carries, Idling
<1>3. DirOf(worker[d].task.data) = d
  BY InHand, DirFacts
<1>4. Carries(worker[d].task, b) <=> b = worker[d].task.data
  BY DEF HasBuffer, Carries
<1>5. QED
  BY <1>1, <1>2, <1>3, <1>4

LEMMA PassFenceBalance ==
  ASSUME IInv, NEW b \in Buffers, Balanced(b), NEW d \in Dirs, WorkerPassFence(d)
  PROVE  Balanced(b)'
<1>1. ~Carries(worker[d].task, b) /\ ~Carries(Idling.task, b)
  BY TaskFacts DEF WorkerPassFence, Carries, Idling
<1>2. /\ UNCHANGED fifo /\ DirOf(b) \in Dirs
      /\ worker'[d] = Idling /\ \A e \in Dirs : e # d => worker'[e] = worker[e]
  BY DirFacts DEF WorkerPassFence, Finish, IInv, TypeOK, WorkersTypeOK
<1>3. UNCHANGED <<elsewhereVars, client, mainQ>>
  BY DEF WorkerPassFence, elsewhereVars, portVars, moduleVars, eosVars
<1>4. QED
  BY <1>1, <1>2, <1>3, BalanceFrame

LEMMA ReturnBalance ==
  ASSUME IInv, NEW b \in Buffers, Balanced(b), NEW d \in Dirs, WorkerReturn(d)
  PROVE  Balanced(b)'
<1>1. /\ HasBuffer(d) /\ Finish(d)
      /\ client' = client \cup {worker[d].task.data}
      /\ UNCHANGED <<elsewhereVars, mainQ>>
  BY DEF WorkerReturn, elsewhereVars, portVars, moduleVars, eosVars
<1>2. QED
  BY <1>1, HandedOver, CountTypes DEF Balanced, Copies, One, Kept, elsewhereVars

\* the module takes the buffer, or its handle is lost
LEMMA TakesBalance ==
  ASSUME IInv, NEW b \in Buffers, Balanced(b), NEW d \in Dirs, Processes(d), Finish(d),
         ModuleTakes(worker[d].task.data),
         UNCHANGED <<portBuffers, mainQ, eosVars, client>>
  PROVE  Balanced(b)'
<1>1. HasBuffer(d) /\ DirOf(worker[d].task.data) = d /\ DirOf(b) \in Dirs
  BY InHand, DirFacts DEF Processes
<1>2. UNCHANGED <<eosHandle, dangling>>
  BY DEF eosVars
<1>3. CASE module = "started"
  <2>1. /\ b \in held'[DirOf(b)] <=> b \in held[DirOf(b)] \/ b = worker[d].task.data
        /\ UNCHANGED lost
    BY <1>1, <1>3 DEF ModuleTakes, IInv, TypeOK, ModuleTypeOK
  <2>2. QED
    BY <1>1, <1>2, <2>1, HandedOver, CountTypes DEF Balanced, Copies, One, Kept
<1>4. CASE module # "started"
  <2>1. UNCHANGED held /\ lost' = lost \cup {worker[d].task.data}
    BY <1>4 DEF ModuleTakes
  <2>2. QED
    BY <1>1, <1>2, <2>1, HandedOver, CountTypes DEF Balanced, Copies, One, Kept
<1>5. QED
  BY <1>3, <1>4

LEMMA KeepBalance ==
  ASSUME IInv, Placed, Placed', NEW b \in Buffers, Balanced(b), WorkerKeep
  PROVE  Balanced(b)'
<1> DEFINE x == worker["out"].task.data
<1>1. /\ HasBuffer("out") /\ Finish("out") /\ eosHandle["out"] = None /\ "out" \in Dirs
      /\ eosHandle' = [eosHandle EXCEPT !["out"] = x] /\ dangling' = dangling \ {"out"}
      /\ UNCHANGED <<portBuffers, mainQ, held, client, lost>>
  BY DEF WorkerKeep, Processes, Dirs, portVars, moduleVars
<1>2. DirOf(x) = "out" /\ DirOf(b) \in Dirs /\ b # None
  BY <1>1, InHand, DirFacts
<1>3. /\ Kept(b) <=> DirOf(b) \notin dangling /\ eosHandle[DirOf(b)] = b
      /\ Kept(b)' <=> DirOf(b) \notin dangling' /\ eosHandle'[DirOf(b)] = b
  BY KeptFacts DEF Placed, Kept
<1>4. Kept(b)' <=> Kept(b) \/ b = x
  BY <1>1, <1>2, <1>3 DEF IInv, TypeOK, ModuleTypeOK
<1> HIDE DEF x
<1>5. /\ b = x => /\ Carries(worker[DirOf(b)].task, b)
                  /\ ~Carries(worker'[DirOf(b)].task, b)
      /\ b # x => (Carries(worker'[DirOf(b)].task, b) <=> Carries(worker[DirOf(b)].task, b))
      /\ UNCHANGED fifo
  BY <1>1, HandedOver DEF x
<1>6. QED
  BY <1>1, <1>4, <1>5, CountTypes DEF Balanced, Copies, One

LEMMA EosBalance ==
  ASSUME IInv, Placed, Placed', NEW b \in Buffers, Balanced(b), WorkerEos
  PROVE  Balanced(b)'
<1> DEFINE x   == worker["in"].task.data
           old == eosHandle["in"]
<1>1. /\ HasBuffer("in") /\ Finish("in") /\ "in" \in Dirs
      /\ eosHandle' = [eosHandle EXCEPT !["in"] = x] /\ dangling' = dangling \ {"in"}
      /\ lost' = IF old = None \/ "in" \in dangling THEN lost ELSE lost \cup {old}
      /\ UNCHANGED <<portBuffers, mainQ, held, client>>
  BY DEF WorkerEos, Processes, Dirs, portVars
<1>2. DirOf(x) = "in" /\ DirOf(b) \in Dirs /\ b # None
  BY <1>1, InHand, DirFacts
<1>3. /\ Kept(b) <=> DirOf(b) \notin dangling /\ eosHandle[DirOf(b)] = b
      /\ Kept(b)' <=> DirOf(b) \notin dangling' /\ eosHandle'[DirOf(b)] = b
      /\ old # None => DirOf(old) = "in"
  BY <1>1, KeptFacts, DirFacts DEF Placed, Kept
<1>4. CASE DirOf(b) # "in"
  <2>1. (Kept(b)' <=> Kept(b)) /\ (b \in lost' <=> b \in lost) /\ b # x
    BY <1>1, <1>2, <1>3, <1>4 DEF IInv, TypeOK, ModuleTypeOK
  <2>2. QED
    BY <1>1, <2>1, HandedOver DEF Balanced, Copies, One
<1>5. CASE DirOf(b) = "in"
  <2>1. /\ Kept(b) <=> "in" \notin dangling /\ old = b
        /\ Kept(b)' <=> b = x
        /\ b \in lost' <=> b \in lost \/ Kept(b)
    BY <1>1, <1>2, <1>3, <1>5 DEF IInv, TypeOK, ModuleTypeOK
  <2> HIDE DEF x, old
  <2>2. /\ b = x => /\ Carries(worker[DirOf(b)].task, b)
                    /\ ~Carries(worker'[DirOf(b)].task, b)
        /\ b # x => (Carries(worker'[DirOf(b)].task, b) <=> Carries(worker[DirOf(b)].task, b))
        /\ UNCHANGED fifo
    BY <1>1, HandedOver DEF x
  <2>3. QED
    BY <1>1, <2>1, <2>2, CountTypes DEF Balanced, Copies, One
<1>6. QED
  BY <1>4, <1>5

LEMMA WorkersBalance ==
  ASSUME IInv, Placed, Placed', NEW b \in Buffers, Balanced(b), Workers
  PROVE  Balanced(b)'
<1>1. CASE WorkerFill
  BY <1>1, TakesBalance DEF WorkerFill, Dirs, portVars
<1>2. CASE WorkerEmpty
  BY <1>2, TakesBalance DEF WorkerEmpty, Dirs, portVars
<1>3. QED
  BY <1>1, <1>2, PopBalance, PassFenceBalance, ReturnBalance, KeepBalance, EosBalance
     DEF Workers, Worker

(* The codec                                                                *)

LEMMA EosReturnBalance ==
  ASSUME IInv, Placed, Placed', NEW b \in Buffers, Balanced(b),
         NEW d \in Dirs, d \notin dangling, EosReturn(d),
         UNCHANGED <<portBuffers, mainQ, fifo, worker, held, lost>>
  PROVE  Balanced(b)'
<1>1. /\ Kept(b) <=> DirOf(b) \notin dangling /\ eosHandle[DirOf(b)] = b
      /\ Kept(b)' <=> DirOf(b) \notin dangling' /\ eosHandle'[DirOf(b)] = b
      /\ eosHandle[d] # None => DirOf(eosHandle[d]) = d
      /\ DirOf(b) \in Dirs /\ b # None
  BY KeptFacts, DirFacts DEF Placed, Kept
<1>2. CASE b = eosHandle[d]
  <2>1. Kept(b) /\ ~Kept(b)' /\ client' = client \cup {b}
    BY <1>1, <1>2 DEF EosReturn, IInv, TypeOK, ModuleTypeOK
  <2>2. QED
    BY <2>1, CountTypes DEF Balanced, Copies, One
<1>3. CASE b # eosHandle[d]
  <2>1. (Kept(b)' <=> Kept(b)) /\ (b \in client' <=> b \in client)
    BY <1>1, <1>3 DEF EosReturn, IInv, TypeOK, ModuleTypeOK
  <2>2. QED
    BY <2>1 DEF Balanced, Copies, One
<1>4. QED
  BY <1>2, <1>3

LEMMA EosClearBalance ==
  ASSUME IInv, NEW b \in Buffers, Balanced(b), CodecEosClear
  PROVE  Balanced(b)'
<1>1. /\ ~Kept(b)'
      /\ b \in lost' <=> b \in lost \/ Kept(b)
      /\ UNCHANGED <<portBuffers, mainQ, fifo, worker, held, client>>
  BY DirFacts DEF CodecEosClear, Kept, portVars, workerVars, moduleVars
<1>2. QED
  BY <1>1, CountTypes DEF Balanced, Copies, One

LEMMA CodecReturnsBalance ==
  ASSUME IInv, NEW b \in Buffers, Balanced(b), NEW x \in Buffers, CodecReturns(x)
  PROVE  Balanced(b)'
<1>1. /\ x \in held[DirOf(x)]
      /\ held' = [held EXCEPT ![DirOf(x)] = @ \ {x}] /\ client' = client \cup {x}
      /\ UNCHANGED <<portBuffers, mainQ, fifo, worker, eosHandle, dangling, lost>>
  BY DEF CodecReturns, portVars, workerVars, eosVars
<1>2. b \in held'[DirOf(b)] <=> b \in held[DirOf(b)] /\ b # x
  BY <1>1, DirFacts DEF IInv, TypeOK, ModuleTypeOK
<1>3. QED
  BY <1>1, <1>2, CountTypes DEF Balanced, Copies, One, Kept

LEMMA CodecBalance ==
  ASSUME IInv, EosKnown, Placed, Placed', NEW b \in Buffers, Balanced(b), Codec
  PROVE  Balanced(b)'
<1>1. CASE CodecEos
  BY <1>1, BalanceFrame DEF CodecEos, elsewhereVars, portVars, workerVars
<1>2. CASE CodecEosIn
  <2>1. "in" \in Dirs /\ "in" \notin dangling /\ EosReturn("in")
    BY <1>2 DEF CodecEosIn, EosKnown, Dirs
  <2>2. UNCHANGED <<portBuffers, mainQ, fifo, worker, held, lost>>
    BY <1>2 DEF CodecEosIn, portVars, workerVars, moduleVars
  <2>3. QED
    BY <2>1, <2>2, EosReturnBalance
<1>3. CASE CodecEosOut
  <2>1. "out" \in Dirs /\ "out" \notin dangling /\ EosReturn("out")
    BY <1>3 DEF CodecEosOut, EosKnown, Dirs
  <2>2. UNCHANGED <<portBuffers, mainQ, fifo, worker, held, lost>>
    BY <1>3 DEF CodecEosOut, portVars, workerVars, moduleVars
  <2>3. QED
    BY <2>1, <2>2, EosReturnBalance
<1>4. CASE CodecError
  <2>1. [cmd |-> "SetState", data |-> "Invalid", opt |-> TRUE] \in StateTasks
    BY DEF StateTasks, States
  <2>2. QED
    BY <1>4, <2>1, CommandBalance DEF CodecError, elsewhereVars, portVars, workerVars,
       moduleVars, eosVars
<1>5. QED
  BY <1>1, <1>2, <1>3, <1>4, CodecReturnsBalance, EosClearBalance DEF Codec, CodecFinishesEos

(* "OMX - Sched"                                                            *)

LEMMA DispatchBalance ==
  ASSUME IInv, NEW b \in Buffers, Balanced(b), MainDispatch
  PROVE  Balanced(b)'
<1> DEFINE t == Head(mainQ)
           d == IF t.cmd = "EmptyBuffer" THEN "in" ELSE "out"
           e == DirOf(b)
<1>1. /\ t \in BufferTasks /\ mainQ # <<>> /\ mainQ' = Tail(mainQ)
      /\ fifo' = [fifo EXCEPT ![d] = Append(@, t)]
      /\ UNCHANGED <<elsewhereVars, client, worker>>
  BY DEF MainDispatch, elsewhereVars, portVars, moduleVars, eosVars
<1>2. d \in Dirs /\ e \in Dirs /\ (Carries(t, b) => e = d)
  BY <1>1, TaskFacts, DirFacts DEF Dirs, BufferTasks, Carries, BuffersOf
<1> HIDE DEF t, d, e
<1>3. mainQ \in Seq(MainTasks) /\ fifo[d] \in Seq(Fences \cup BufferTasks)
  BY <1>2 DEF IInv, TypeOK, MainTypeOK, WorkersTypeOK
<1>4. Queued(mainQ, b) = Queued(mainQ', b) + One(Carries(t, b))
  BY <1>1, <1>3, QueuedTail DEF t
<1>5. Queued(fifo'[e], b) = Queued(fifo[e], b) + One(Carries(t, b))
  <2>1. CASE e = d
    <3>1. fifo'[e] = Append(fifo[e], t)
      BY <1>1, <1>2, <2>1 DEF IInv, TypeOK, WorkersTypeOK
    <3>2. QED
      BY <1>1, <1>3, <2>1, <3>1, QueuedAppend
  <2>2. CASE e # d
    <3>1. fifo'[e] = fifo[e] /\ ~Carries(t, b)
      BY <1>1, <1>2, <2>2 DEF IInv, TypeOK, WorkersTypeOK
    <3>2. QED
      BY <3>1, CountTypes DEF One, e
  <2>3. QED
    BY <2>1, <2>2
<1>6. Queued(mainQ', b) \in Nat
  BY <1>1, <1>3, SequenceFacts, QueuedType
<1>7. QED
  BY <1>1, <1>4, <1>5, <1>6, CountTypes
     DEF Balanced, Copies, One, Kept, elsewhereVars, e

LEMMA TakeBalance ==
  ASSUME IInv, NEW b \in Buffers, Balanced(b), MainTake
  PROVE  Balanced(b)'
<1>1. /\ mainQ # <<>> /\ mainQ' = Tail(mainQ) /\ Head(mainQ) \notin BufferTasks
      /\ mainQ \in Seq(MainTasks)
      /\ UNCHANGED <<elsewhereVars, client, fifo, worker>>
  BY DEF MainTake, elsewhereVars, portVars, workerVars, moduleVars, eosVars, IInv, TypeOK,
     MainTypeOK
<1>2. Head(mainQ) \in StateTasks \cup PortCommands
  BY <1>1, SequenceFacts, MainTaskSplit
<1>3. ~Carries(Head(mainQ), b)
  BY <1>2, TaskFacts DEF Carries
<1>4. Queued(mainQ, b) = Queued(mainQ', b) + One(Carries(Head(mainQ), b))
  BY <1>1, QueuedTail
<1>5. Queued(mainQ', b) \in Nat
  BY <1>1, SequenceFacts, QueuedType
<1>6. Queued(mainQ', b) = Queued(mainQ, b)
  BY <1>3, <1>4, <1>5 DEF One
<1>7. QED
  BY <1>1, <1>6, BalanceFrame

\* fences come and go around the buffers
LEMMA FencesBalance ==
  ASSUME IInv, NEW b \in Buffers, Balanced(b), UNCHANGED <<elsewhereVars, client, mainQ>>,
         Unblock \/ (\E ds \in SUBSET Dirs : Block(ds)) \/ UNCHANGED workerVars
  PROVE  Balanced(b)'
<1> DEFINE e == DirOf(b)
<1>1. e \in Dirs
  BY DirFacts
<1>2. CASE Unblock
  <2>1. /\ fifo'[e] = [i \in DOMAIN fifo[e] |-> Released(fifo[e][i])]
        /\ worker'[e] = [worker[e] EXCEPT !.task = Released(@)]
    BY <1>1, <1>2 DEF Unblock
  <2>2. worker'[e].task = Released(worker[e].task)
    BY <1>1, <2>1 DEF IInv, TypeOK, WorkersTypeOK, Popped, Idling
  <2>3. Queued(fifo'[e], b) = Queued(fifo[e], b)
    BY <2>1, QueuedReleased
  <2>4. Carries(worker'[e].task, b) <=> Carries(worker[e].task, b)
    BY <2>2, QueuedReleased
  <2>5. QED
    BY <2>3, <2>4, BalanceFrame
<1>3. CASE \E ds \in SUBSET Dirs : Block(ds)
  <2>1. /\ fifo'[e] \in {fifo[e], Append(fifo[e], ClosedFence)} /\ worker' = worker
        /\ fifo[e] \in Seq(Fences \cup BufferTasks)
    BY <1>1, <1>3 DEF Block, IInv, TypeOK, WorkersTypeOK
  <2>2. ClosedFence \in Fences \cup BufferTasks /\ ~Carries(ClosedFence, b)
    BY FenceTypes DEF ClosedFence, Carries
  <2>3. Queued(Append(fifo[e], ClosedFence), b)
          = Queued(fifo[e], b) + One(Carries(ClosedFence, b))
    BY <2>1, <2>2, QueuedAppend
  <2>4. Queued(Append(fifo[e], ClosedFence), b) = Queued(fifo[e], b)
    BY <2>2, <2>3, CountTypes DEF One
  <2>5. Queued(fifo'[e], b) = Queued(fifo[e], b)
    BY <2>1, <2>4
  <2>6. QED
    BY <2>1, <2>5, BalanceFrame
<1>4. CASE UNCHANGED workerVars
  BY <1>4, BalanceFrame DEF workerVars
<1>5. QED
  BY <1>2, <1>3, <1>4

\* what the module holds goes back to the client when it is destroyed
LEMMA ReleaseBalance ==
  ASSUME IInv, Placed, NEW b \in Buffers, Balanced(b), ModuleStop \/ ModuleRestart,
         UNCHANGED <<portBuffers, mainQ, workerVars, eosVars, lost>>
  PROVE  Balanced(b)'
<1>1. UNCHANGED <<fifo, worker, eosHandle, dangling>>
  BY DEF workerVars, eosVars
<1>2. CASE module = "stopped"
  BY <1>1, <1>2, BalanceFrame DEF ModuleStop, ModuleRestart, moduleVars, elsewhereVars
<1>3. CASE module # "stopped"
  <2>1. Destroyed
    BY <1>3 DEF ModuleStop, ModuleRestart
  <2>2. b \in held["in"] \cup held["out"] <=> b \in held[DirOf(b)]
    BY DirFacts DEF Placed, Dirs
  <2>3. b \notin held'[DirOf(b)] /\ (b \in client' <=> b \in client \/ b \in held[DirOf(b)])
    BY <2>1, <2>2, DirFacts DEF Destroyed
  <2>4. QED
    BY <1>1, <2>3, CountTypes DEF Balanced, Copies, One, Kept
<1>4. QED
  BY <1>2, <1>3

LEMMA FlushEosBalance ==
  ASSUME IInv, EosKnown, NEW b \in Buffers, Balanced(b), MainFlushEos
  PROVE  Balanced(b)'
<1>1. dangling = {} /\ UNCHANGED <<portBuffers, mainQ, fifo, worker, held, dangling, lost>>
  BY DEF MainFlushEos, EosKnown, AtRest, portVars, workerVars, moduleVars
<1>2. /\ ~Kept(b)' /\ (b \in client' <=> b \in client \/ Kept(b))
  BY <1>1, DirFacts DEF MainFlushEos, Kept
<1>3. QED
  BY <1>1, <1>2, CountTypes DEF Balanced, Copies, One

LEMMA MainBalance ==
  ASSUME IInv, EosKnown, Placed, NEW b \in Buffers, Balanced(b), Main
  PROVE  Balanced(b)'
<1>1. CASE \/ MainSwap \/ MainJoin \/ MainCheck \/ MainStart \/ MainWaitEmpty \/ MainWaitFull
           \/ \E d \in Dirs : MainPopulate(d) \/ MainUnpopulate(d)
  <2>1. UNCHANGED <<elsewhereVars, client, mainQ, fifo, worker>>
    BY <1>1 DEF MainSwap, MainJoin, MainCheck, MainStart, MainWaitEmpty, MainWaitFull,
       MainPopulate, MainUnpopulate, elsewhereVars, portVars, workerVars, moduleVars, eosVars
  <2>2. QED
    BY <2>1, BalanceFrame
<1>2. CASE MainUnblock \/ MainReblock \/ MainBlock \/ MainSwitch \/ MainEnabled
  <2>1. UNCHANGED <<elsewhereVars, client, mainQ>>
    BY <1>2 DEF MainUnblock, MainReblock, MainBlock, MainSwitch, MainEnabled, elsewhereVars,
       portVars, moduleVars, eosVars
  <2>2. reblock \subseteq Dirs /\ {"out"} \cup (IF ShouldPrealloc THEN {"in"} ELSE {}) \subseteq Dirs
    BY DEF IInv, TypeOK, MainTypeOK, Dirs
  <2>3. Unblock \/ (\E ds \in SUBSET Dirs : Block(ds)) \/ UNCHANGED workerVars
    BY <1>2, <2>2 DEF MainUnblock, MainReblock, MainBlock, MainSwitch, MainEnabled
  <2>4. QED
    BY <2>1, <2>3, FencesBalance
<1>3. CASE MainRestart \/ MainRestartPort \/ MainReopen \/ MainStop \/ MainInvalid
  <2>1. ModuleStop \/ ModuleRestart
    BY <1>3 DEF MainRestart, MainRestartPort, MainReopen, MainStop, MainInvalid
  <2>2. UNCHANGED <<portBuffers, mainQ, workerVars, eosVars, lost>>
    BY <1>3 DEF MainRestart, MainRestartPort, MainReopen, MainStop, MainInvalid, portVars
  <2>3. QED
    BY <2>1, <2>2, ReleaseBalance
<1>4. QED
  BY <1>1, <1>2, <1>3, DispatchBalance, TakeBalance, FlushEosBalance DEF Main

LEMMA NextConservation ==
  ASSUME IInv, EosKnown, Placed, Conservation, [Next]_vars
  PROVE  Conservation'
<1>1. Placed'
  BY NextPlaced
<1>2. ASSUME NEW b \in Buffers PROVE Balanced(b)'
  <2>1. Balanced(b)
    BY DEF Conservation, Balanced
  <2>2. CASE UNCHANGED vars
    BY <2>1, <2>2, BalanceFrame
       DEF vars, elsewhereVars, portVars, workerVars, moduleVars, eosVars
  <2>3. QED
    BY <1>1, <2>1, <2>2, ClientBalance, MainBalance, WorkersBalance, CodecBalance DEF Next
<1>3. QED
  BY <1>2 DEF Conservation, Balanced

-----------------------------------------------------------------------------
(* The theorems                                                             *)

BInv == IInv /\ Transit /\ FlushKnown /\ EosKnown /\ Placed /\ Conservation

LEMMA InitBInv == Init => BInv
<1> SUFFICES ASSUME Init PROVE BInv
  OBVIOUS
<1>1. Transit /\ FlushKnown
  BY DEF Init, Transit, FlushKnown, SetStatePc
<1>2. EosKnown /\ Placed
  BY DEF Init, EosKnown, AtRest, Placed
<1>3. ASSUME NEW b \in Buffers PROVE Copies(b) = One(b \in portBuffers[DirOf(b)])
  <2>1. Queued(mainQ, b) = 0 /\ Queued(fifo[DirOf(b)], b) = 0
    <3>1. mainQ = <<>> /\ fifo[DirOf(b)] = <<>>
      BY DirFacts DEF Init
    <3>2. {i \in DOMAIN <<>> : Carries(<<>>[i], b)} = {}
      OBVIOUS
    <3>3. QED
      BY <3>1, <3>2, FS_EmptySet DEF Queued
  <2>2. ~Carries(worker[DirOf(b)].task, b) /\ ~Kept(b)
    BY DirFacts, TaskFacts DEF Init, Carries, Idling, Kept
  <2>3. b \notin held[DirOf(b)] /\ b \notin portBuffers[DirOf(b)]
    BY DirFacts DEF Init
  <2>4. QED
    BY <2>1, <2>2, <2>3 DEF Init, Copies, One
<1>4. QED
  BY <1>1, <1>2, <1>3, InitIInv DEF BInv, Conservation

LEMMA NextBInv == BInv /\ [Next]_vars => BInv'
BY NextIInv, NextTransit, NextFlushKnown, NextEosKnown, NextPlaced, NextConservation DEF BInv

THEOREM BuffersInductive == Spec => []BInv
BY InitBInv, NextBInv, PTL DEF Spec

(* Every header of a port is in exactly one place, whatever the client sends,   *)
(* in whatever order and state, and whatever the codec reports: EmptyBufferDone  *)
(* and FillBufferDone never return a header twice, nor one that was freed        *)
(* (TreatEmptyBufferCommand, TreatFillBufferCommand, FlushFillEmptyBuffers,      *)
(* FlushEosHandles and the codec's callbacks).                                  *)
THEOREM ConservationHolds == Spec => []Conservation
BY BuffersInductive, PTL DEF BInv

(* When TreatFlushCommand restarts the module, and when the way from Executing  *)
(* to Idle stops it, no worker is inside module->Empty or module->Fill           *)
(* (omx_component.cpp:1907-1914, 1947-1959).                                     *)
THEOREM QuietModuleHolds == Spec => []QuietModule
<1>1. ASSUME BInv, main.pc = "restart" \/ (main.pc = "stop" /\ state = "Executing")
      PROVE  \A d \in Dirs : Drained(d)
  <2>1. CASE main.pc = "restart"
    BY <1>1, <2>1 DEF BInv, FlushKnown
  <2>2. CASE main.pc = "stop" /\ state = "Executing"
    <3>1. CheckStateTransition(state, main.task.data) = "None" /\ main.task.data \in States
      BY <1>1, <2>2, TaskFacts DEF BInv, Transit, SetStatePc, IInv, TaskOfPc
    <3>2. main.task.data \in {"Idle", "Pause"}
      BY <2>2, <3>1 DEF CheckStateTransition, Incorrect, States
    <3>3. FlushingRequired(state, main.task.data)
      BY <2>2, <3>1, <3>2 DEF FlushingRequired, GetTransientState, TransientStates
    <3>4. QED
      BY <1>1, <2>2, <3>3 DEF BInv, FlushKnown
  <2>3. QED
    BY <1>1, <2>1, <2>2
<1>2. BInv => QuietModule
  BY <1>1 DEF QuietModule, Drained, Processes
<1>3. QED
  BY <1>2, BuffersInductive, PTL

(* When a Flush reports its completion, neither the module nor a worker, its    *)
(* FIFO or eosHandles has a buffer any more, whichever ports it named and        *)
(* whatever was queued, paused or ending when it was sent                        *)
(* (TreatFlushCommand, omx_component.cpp:1947-1959).                             *)
THEOREM FlushEmptiesHolds == Spec => FlushEmpties
<1>1. ASSUME BInv, MainFlushEos
      PROVE  /\ \A d \in Dirs : held'[d] = {} /\ eosHandle'[d] = None /\ ~HasBuffer(d)'
             /\ \A d \in Dirs : \A i \in DOMAIN fifo'[d] : fifo'[d][i].cmd = "SharedFence"
  <2>1. main.pc = "flushEos" /\ UNCHANGED <<held, fifo, worker>>
        /\ \A d \in Dirs : eosHandle'[d] = None
    BY <1>1 DEF MainFlushEos, workerVars, moduleVars
  <2>2. AtRest /\ \A d \in Dirs : Drained(d)
    BY <1>1, <2>1 DEF BInv, EosKnown, FlushKnown
  <2>3. QED
    BY <2>1, <2>2 DEF AtRest, Drained, HasBuffer
<1>2. BInv /\ [Next]_vars =>
        [MainFlushEos =>
           /\ \A d \in Dirs : held'[d] = {} /\ eosHandle'[d] = None /\ ~HasBuffer(d)'
           /\ \A d \in Dirs : \A i \in DOMAIN fifo'[d] : fifo'[d][i].cmd = "SharedFence"]_vars
  BY <1>1
<1>3. QED
  BY <1>2, BuffersInductive, PTL DEF Spec, FlushEmpties

-----------------------------------------------------------------------------
(* What the client sees                                                     *)

hand == [b \in Buffers |-> OwnerOf(b)]

\* a header the client has is one of its port
LEMMA Owned ==
  ASSUME BInv, NEW b \in Buffers, b \in client
  PROVE  b \in portBuffers[DirOf(b)]
BY CountTypes DEF BInv, Conservation, Copies, One

\* headers come back, or nothing happens, as the client sees it
LEMMA ReturnStep ==
  ASSUME BInv, BInv', UNCHANGED portBuffers, client \subseteq client'
  PROVE  \E bs \in SUBSET IL!OwnedBy("component") : IL!Return(bs)
<1> DEFINE bs == {b \in Buffers : b \in client' \ client}
<1>1. \A b \in Buffers : b \in client' => b \in portBuffers[DirOf(b)]
  <2> SUFFICES ASSUME NEW b \in Buffers, b \in client' PROVE b \in portBuffers'[DirOf(b)]
    OBVIOUS
  <2>1. Queued(mainQ', b) \in Nat /\ Queued(fifo'[DirOf(b)], b) \in Nat
    BY QueuedType, DirFacts DEF BInv, IInv, TypeOK, MainTypeOK, WorkersTypeOK
  <2>2. QED
    BY <2>1 DEF BInv, Conservation, Copies, One
<1>2. \A b \in bs : OwnerOf(b) = "component"
  BY <1>1 DEF OwnerOf
<1>3. \A b \in Buffers : OwnerOf(b)' = IF b \in bs THEN "client" ELSE OwnerOf(b)
  BY DEF OwnerOf
<1> HIDE DEF bs
<1>4. bs \in SUBSET IL!OwnedBy("component")
  BY <1>2 DEF IL!OwnedBy, bs
<1>5. IL!Return(bs)
  BY <1>3 DEF IL!Return
<1>6. QED
  BY <1>4, <1>5

LEMMA AllocateStep ==
  ASSUME BInv, NEW x \in Buffers, UseBuffer(x)
  PROVE  IL!Allocate(x) /\ UNCHANGED state
<1>1. /\ x \notin portBuffers[DirOf(x)] /\ client' = client \cup {x} /\ UNCHANGED state
      /\ portBuffers' = [portBuffers EXCEPT ![DirOf(x)] = @ \cup {x}]
  BY DEF UseBuffer, stateVars
<1>2. x \notin client
  BY <1>1, Owned
<1>3. \A b \in Buffers : b \in portBuffers'[DirOf(b)] <=> b = x \/ b \in portBuffers[DirOf(b)]
  BY <1>1, DirFacts DEF BInv, IInv, TypeOK, PortsTypeOK
<1>4. OwnerOf(x) = "nobody" /\ \A b \in Buffers : OwnerOf(b)' = IF b = x THEN "client" ELSE OwnerOf(b)
  BY <1>1, <1>2, <1>3 DEF OwnerOf
<1>5. QED
  BY <1>1, <1>4 DEF IL!Allocate

LEMMA FreeStep ==
  ASSUME BInv, NEW x \in Buffers, FreeBuffer(x)
  PROVE  IL!Free(x) /\ UNCHANGED state
<1>1. /\ x \in client /\ client' = client \ {x} /\ UNCHANGED state
      /\ portBuffers' = [portBuffers EXCEPT ![DirOf(x)] = @ \ {x}]
  BY DEF FreeBuffer, stateVars
<1>2. \A b \in Buffers : b \in portBuffers'[DirOf(b)] <=> b # x /\ b \in portBuffers[DirOf(b)]
  BY <1>1, DirFacts DEF BInv, IInv, TypeOK, PortsTypeOK
<1>3. OwnerOf(x) = "client" /\ \A b \in Buffers : OwnerOf(b)' = IF b = x THEN "nobody" ELSE OwnerOf(b)
  BY <1>1, <1>2 DEF OwnerOf
<1>4. QED
  BY <1>1, <1>3 DEF IL!Free

LEMMA SubmitStep ==
  ASSUME BInv, NEW x \in Buffers, FillThisBuffer(x) \/ \E k \in Kinds : EmptyThisBuffer(x, k)
  PROVE  IL!Submit(x) /\ UNCHANGED state
<1>1. /\ x \in client /\ client' = client \ {x} /\ UNCHANGED <<state, portBuffers>>
      /\ state \notin Refused("FillThisBuffer") \cap Refused("EmptyThisBuffer")
  BY DEF FillThisBuffer, EmptyThisBuffer, MaySubmit, stateVars, portVars
<1>2. x \in portBuffers[DirOf(x)]
  BY <1>1, Owned
<1>3. OwnerOf(x) = "client" /\ \A b \in Buffers : OwnerOf(b)' = IF b = x THEN "component" ELSE OwnerOf(b)
  BY <1>1, <1>2 DEF OwnerOf
<1>4. QED
  BY <1>1, <1>3 DEF IL!Submit, IL!Refused, Refused

\* the state moves at the end of TreatSetStateCommand, along a checked transition
LEMMA StateStep ==
  ASSUME BInv, Main, state' # state
  PROVE  \E new \in States : IL!Transition(new)
<1>1. (MainSwitch \/ MainInvalid)
  BY DEF Main, MainDispatch, MainTake, MainUnblock, MainSwap, MainJoin, MainReblock,
     MainCheck, MainPopulate, MainUnpopulate, MainStart, MainStop, MainRestart, MainFlushEos,
     MainBlock, MainRestartPort, MainWaitEmpty, MainWaitFull, MainReopen, MainEnabled,
     stateVars
<1>2. CASE MainSwitch
  <2>1. /\ main.pc = "switch" /\ state' = main.task.data
        /\ CheckStateTransition(state, main.task.data) = "None" /\ main.task.data \in States
    BY <1>2, TaskFacts DEF MainSwitch, BInv, Transit, SetStatePc, IInv, TaskOfPc
  <2>2. IL!CheckStateTransition(state, main.task.data) = "None"
    BY <2>1 DEF CheckStateTransition, IL!CheckStateTransition, Incorrect, IL!Incorrect
  <2>3. QED
    BY <2>1, <2>2 DEF IL!Transition
<1>3. CASE MainInvalid
  <2>1. /\ main.pc = "invalid" /\ state' = "Invalid" /\ main.task.data \in States
        /\ CheckStateTransition(state, main.task.data) = "InvalidState"
    BY <1>3, TaskFacts DEF MainInvalid, BInv, Transit, SetStatePc, IInv, TaskOfPc
  <2>2. main.task.data = "Invalid" /\ state # "Invalid"
    BY <2>1 DEF CheckStateTransition
  <2>3. IL!CheckStateTransition(state, "Invalid") = "InvalidState"
    BY <2>2 DEF IL!CheckStateTransition
  <2>4. QED
    BY <2>1, <2>3 DEF IL!Transition, States
<1>4. QED
  BY <1>1, <1>2, <1>3

LEMMA OthersReturn ==
  ASSUME BInv, Main \/ Workers \/ Codec
  PROVE  UNCHANGED portBuffers /\ client \subseteq client'
<1>1. CASE Main
  <2>1. UNCHANGED portBuffers
    BY <1>1 DEF Main, MainDispatch, MainTake, MainUnblock, MainSwap, MainJoin, MainReblock,
       MainCheck, MainPopulate, MainUnpopulate, MainStart, MainStop, MainSwitch, MainInvalid,
       MainRestart, MainFlushEos, MainBlock, MainRestartPort, MainWaitEmpty, MainWaitFull,
       MainReopen, MainEnabled, portVars
  <2>2. ModuleStop \/ ModuleRestart => client \subseteq client'
    BY DEF ModuleStop, ModuleRestart, Destroyed
  <2>3. client \subseteq client'
    BY <1>1, <2>2 DEF Main, MainDispatch, MainTake, MainUnblock, MainSwap, MainJoin,
       MainReblock, MainCheck, MainPopulate, MainUnpopulate, MainStart, MainStop, MainSwitch,
       MainInvalid, MainRestart, MainFlushEos, MainBlock, MainRestartPort, MainWaitEmpty,
       MainWaitFull, MainReopen, MainEnabled
  <2>4. QED
    BY <2>1, <2>3
<1>2. CASE Workers
  BY <1>2 DEF Workers, Worker, WorkerPop, WorkerPassFence, WorkerReturn, WorkerKeep,
     WorkerFill, WorkerEmpty, WorkerEos, portVars
<1>3. CASE Codec
  BY <1>3 DEF Codec, CodecReturns, CodecEos, CodecFinishesEos, CodecEosIn, CodecEosOut,
     CodecEosClear, CodecError, EosReturn, portVars
<1>4. QED
  BY <1>1, <1>2, <1>3

LEMMA ClientSteps ==
  ASSUME BInv, Client
  PROVE  UNCHANGED state /\
         (\/ \E x \in Buffers : IL!Allocate(x) \/ IL!Free(x) \/ IL!Submit(x)
          \/ UNCHANGED <<portBuffers, client>>)
<1>1. ASSUME NEW c, SendCommand(c) PROVE UNCHANGED <<state, portBuffers, client>>
  BY <1>1 DEF SendCommand, QueueStateCommand, QueuePortCommand, portVars
<1>2. SendSecondHalf => UNCHANGED <<state, portBuffers, client>>
  BY DEF SendSecondHalf, QueuePortCommand
<1>3. \A d \in Dirs : UseBufferFails(d) => UNCHANGED <<state, portBuffers, client>>
  BY DEF UseBufferFails, stateVars
<1>4. QED
  BY <1>1, <1>2, <1>3, AllocateStep, FreeStep, SubmitStep, BufferDirs DEF Client

LEMMA ILStep == ASSUME BInv, BInv', [Next]_vars PROVE [IL!Next]_(IL!vars)
<1>1. CASE UNCHANGED vars
  <2>1. UNCHANGED <<state, hand>>
    BY <1>1 DEF vars, stateVars, portVars, hand, OwnerOf
  <2>2. QED
    BY <2>1 DEF IL!vars, hand
<1>2. ASSUME UNCHANGED portBuffers, client \subseteq client',
             UNCHANGED state \/ \E new \in States : IL!Transition(new)
      PROVE  IL!Next
  <2>1. \E bs \in SUBSET IL!OwnedBy("component") : IL!Return(bs)
    BY <1>2, ReturnStep
  <2>2. QED
    BY <1>2, <2>1 DEF IL!Next, IL!States, States
<1>3. CASE Client
  BY <1>2, <1>3, ClientSteps DEF IL!Next
<1>4. CASE Main
  BY <1>2, <1>4, StateStep, OthersReturn
<1>5. CASE Workers \/ Codec
  <2>1. UNCHANGED state
    BY <1>5, OthersKeepPlace
  <2>2. QED
    BY <1>2, <1>5, <2>1, OthersReturn
<1>6. QED
  BY <1>1, <1>3, <1>4, <1>5 DEF Next

(* The component implements ILComponent: whatever happens inside, the state      *)
(* moves along the checker's transitions only, and each header goes from hand    *)
(* to hand, allocated, submitted, returned once and freed by its client.         *)
THEOREM ImplementsILHolds == Spec => ImplementsIL
<1>1. Init => IL!Init
  BY DEF Init, IL!Init, OwnerOf, DirOf, Dirs
<1>2. BInv /\ BInv' /\ [Next]_vars => [IL!Next]_(IL!vars)
  BY ILStep
<1>3. QED
  BY <1>1, <1>2, BuffersInductive, PTL DEF Spec, ImplementsIL, IL!Spec

-----------------------------------------------------------------------------
(* Fences, and the port commands that put and open them                      *)

\* what the client has sent, not the component itself
CommandTasks == {t \in StateTasks : ~t.opt} \cup PortCommands
Commands(q) == CountIn(q, CommandTasks)

(* The commands on their way are among those not answered.                     *)
Accounted == Commands(mainQ) + One(main.task \in CommandTasks) <= outstanding

\* more of what the step "OMX - Sched" is at tells of its task
CommandOfPc ==
  /\ main.pc \in {"restart", "flushEos"} => main.task \in PortCommands
  /\ main.pc = "waitFull" => main.task.cmd = "EnablePort"
  /\ main.pc = "block" => main.task.cmd = "DisablePort"

Asks(t, cmd, d) == t.cmd = cmd /\ t.data = d

\* in front of the i-th task an EnablePort of d is still to look at toEnable
EnableAhead(d, i) ==
  \/ main.pc = "waitFull" /\ Asks(main.task, "EnablePort", d)
  \/ \E j \in DOMAIN mainQ : j < i /\ Asks(mainQ[j], "EnablePort", d)
Clear(d) ==
  \A i \in DOMAIN mainQ : Asks(mainQ[i], "DisablePort", d) => ~EnableAhead(d, i)

(* The port of a DisablePort on its way is disabled, or the EnablePort that     *)
(* will open it again is behind.  It is the only one: MaxOutstanding.           *)
Unready(d) == ~enable[d] \/ toEnable[d]
DisableKnown ==
  /\ \A d \in Dirs : Asks(main.task, "DisablePort", d) => Unready(d)
  /\ \A d \in Dirs : \A i \in DOMAIN mainQ : Asks(mainQ[i], "DisablePort", d) =>
       Unready(d) /\ (~enable[d] \/ ~EnableAhead(d, i))
  /\ half.cmd = "EnablePort" => Clear("out")

(* A fence that is not one of Pause is there for a port that is not ready.      *)
FencesExplained ==
  /\ reblock # {} => main.pc \in {"swap", "join", "reblock"}
  /\ /\ main.pc \notin {"reopen", "enabled"} /\ state \notin {"Pause", "Invalid"}
     /\ reblock # {} \/ \E d \in Dirs : pause[d]
     => \E d \in Dirs : Unready(d)

Flow == Accounted /\ CommandOfPc /\ DisableKnown /\ FencesExplained

\* the tasks the component was sent, and how their number goes up and down
LEMMA CommandFacts ==
  /\ CommandTasks \subseteq MainTasks
  /\ \A t \in BufferTasks : t \notin CommandTasks /\ t.cmd \notin {"EnablePort", "DisablePort"}
  /\ NoTask \notin CommandTasks /\ NoTask.cmd \notin {"EnablePort", "DisablePort"}
  /\ \A t \in StateTasks : t.cmd = "SetState" /\ (t \in CommandTasks <=> ~t.opt)
  /\ \A t \in PortCommands : t \in CommandTasks
  /\ \A t \in MainTasks : t.cmd \in {"EnablePort", "DisablePort"} => t \in PortCommands
<1>1. \A t \in StateTasks : t.cmd = "SetState" /\ t \notin PortCommands
  BY TaskFacts
<1>2. \A t \in BufferTasks : t.cmd \in {"EmptyBuffer", "FillBuffer"}
  BY TaskFacts DEF BufferTasks
<1>3. \A t \in CommandTasks : t.cmd \in {"SetState", "Flush", "DisablePort", "EnablePort"}
  BY TaskFacts DEF CommandTasks
<1>4. QED
  BY <1>1, <1>2, <1>3, TaskFacts DEF CommandTasks, MainTasks

LEMMA CommandsType ==
  ASSUME NEW S, NEW s \in Seq(S)
  PROVE  Commands(s) \in Nat /\ IsFiniteSet({i \in DOMAIN s : s[i] \in CommandTasks})
BY CountType DEF Commands

LEMMA CommandsAppend ==
  ASSUME NEW S, NEW s \in Seq(S), NEW e \in S
  PROVE  Commands(Append(s, e)) = Commands(s) + One(e \in CommandTasks)
BY CountAppend DEF Commands

LEMMA CommandsTail ==
  ASSUME NEW S, NEW s \in Seq(S), s # <<>>
  PROVE  Commands(s) = Commands(Tail(s)) + One(Head(s) \in CommandTasks)
BY CountTail DEF Commands

\* with less than two outstanding a command on its way is alone
LEMMA Alone ==
  ASSUME IInv, Accounted, outstanding < 2, NEW i \in DOMAIN mainQ, mainQ[i] \in CommandTasks
  PROVE  main.task \notin CommandTasks /\ \A j \in DOMAIN mainQ : mainQ[j] \in CommandTasks => j = i
<1> DEFINE S == {j \in DOMAIN mainQ : mainQ[j] \in CommandTasks}
<1>1. mainQ \in Seq(MainTasks) /\ outstanding \in Int
  BY DEF IInv, TypeOK, MainTypeOK, ClientTypeOK
<1>2. IsFiniteSet(S) /\ Cardinality(S) \in Nat /\ Cardinality(S) = Commands(mainQ) /\ i \in S
  BY <1>1, CommandsType DEF Commands, CountIn
<1>3. Cardinality(S) + One(main.task \in CommandTasks) < 2
  BY <1>1, <1>2 DEF Accounted, One
<1> HIDE DEF S
<1>4. IsFiniteSet(S \ {i}) /\ Cardinality(S \ {i}) = Cardinality(S) - 1 /\ Cardinality(S \ {i}) \in Nat
  BY <1>2, FS_RemoveElement, FS_CardinalityType
<1>5. Cardinality(S \ {i}) = 0 /\ main.task \notin CommandTasks
  BY <1>2, <1>3, <1>4 DEF One
<1>6. S \ {i} = {}
  BY <1>4, <1>5, FS_EmptySet
<1>7. QED
  BY <1>5, <1>6 DEF S

\* a command queued behind the others
LEMMA AheadAppend ==
  ASSUME IInv, NEW e \in MainTasks, mainQ' = Append(mainQ, e), UNCHANGED main
  PROVE  /\ DOMAIN mainQ' = DOMAIN mainQ \cup {Len(mainQ) + 1} /\ Len(mainQ) + 1 \notin DOMAIN mainQ
         /\ mainQ'[Len(mainQ) + 1] = e /\ \A i \in DOMAIN mainQ : mainQ'[i] = mainQ[i]
         /\ \A d : \A i \in DOMAIN mainQ : EnableAhead(d, i)' <=> EnableAhead(d, i)
         /\ \A d : Clear(d) /\ e.cmd # "DisablePort" => Clear(d)'
<1>1. mainQ \in Seq(MainTasks) /\ Len(mainQ) \in Nat /\ DOMAIN mainQ = 1..Len(mainQ)
  BY DEF IInv, TypeOK, MainTypeOK
<1>2. /\ DOMAIN mainQ' = DOMAIN mainQ \cup {Len(mainQ) + 1} /\ Len(mainQ) + 1 \notin DOMAIN mainQ
      /\ mainQ'[Len(mainQ) + 1] = e /\ \A i \in DOMAIN mainQ : mainQ'[i] = mainQ[i]
  BY <1>1
<1>3. ASSUME NEW d, NEW i \in DOMAIN mainQ PROVE EnableAhead(d, i)' <=> EnableAhead(d, i)
  <2>1. \A j \in DOMAIN mainQ' : j < i => j \in DOMAIN mainQ
    BY <1>1, <1>2
  <2>2. QED
    BY <1>2, <2>1 DEF EnableAhead
<1>4. ASSUME NEW d, Clear(d), e.cmd # "DisablePort" PROVE Clear(d)'
  BY <1>2, <1>3, <1>4 DEF Clear, Asks
<1>5. QED
  BY <1>2, <1>3, <1>4

LEMMA SentAccounted ==
  ASSUME IInv, Accounted, NEW e \in MainTasks, mainQ' = Append(mainQ, e), UNCHANGED main,
         outstanding' = outstanding + One(e \in CommandTasks)
  PROVE  Accounted'
<1>1. mainQ \in Seq(MainTasks) /\ outstanding \in Int
  BY DEF IInv, TypeOK, MainTypeOK, ClientTypeOK
<1>2. Commands(mainQ') = Commands(mainQ) + One(e \in CommandTasks) /\ Commands(mainQ) \in Nat
  BY <1>1, CommandsAppend, CommandsType
<1>3. QED
  BY <1>1, <1>2 DEF Accounted, One

\* CreateCommand for one port: enable and toEnable are set at once
LEMMA QueuePortFlow ==
  ASSUME IInv, Flow, NEW cmd \in {"Flush", "DisablePort", "EnablePort"}, NEW d \in Dirs,
         QueuePortCommand(cmd, d), UNCHANGED <<mainVars, pause>>,
         cmd = "EnablePort" => Clear(d)
  PROVE  /\ Accounted' /\ CommandOfPc' /\ FencesExplained'
         /\ \A x \in Dirs : Asks(main'.task, "DisablePort", x) => Unready(x)'
         /\ \A x \in Dirs : \A i \in DOMAIN mainQ' : Asks(mainQ'[i], "DisablePort", x) =>
              Unready(x)' /\ (~enable'[x] \/ ~EnableAhead(x, i)')
         /\ \A x : cmd # "DisablePort" /\ Clear(x) => Clear(x)'
<1> DEFINE e == [cmd |-> cmd, data |-> d]
<1>1. /\ mainQ' = Append(mainQ, e) /\ outstanding' = outstanding + 1 /\ UNCHANGED <<state, main, reblock>>
      /\ e \in PortCommands /\ e \in CommandTasks /\ e \in MainTasks /\ e.cmd = cmd /\ e.data = d
  BY CommandFacts DEF QueuePortCommand, mainVars, PortCommands
<1>2. /\ enable \in [Dirs -> BOOLEAN] /\ toEnable \in [Dirs -> BOOLEAN]
      /\ cmd = "Flush" => UNCHANGED <<enable, toEnable>>
      /\ cmd = "DisablePort" => enable' = [enable EXCEPT ![d] = FALSE] /\ UNCHANGED toEnable
      /\ cmd = "EnablePort" => enable' = [enable EXCEPT ![d] = TRUE] /\ toEnable' = [toEnable EXCEPT ![d] = TRUE]
  BY DEF IInv, TypeOK, PortsTypeOK, QueuePortCommand
<1>3. \A x \in Dirs : Unready(x) => Unready(x)'
  BY <1>2 DEF Unready
<1>4. Accounted'
  BY <1>1, SentAccounted DEF Flow, One
<1>5. FencesExplained' /\ CommandOfPc'
  BY <1>1, <1>3 DEF Flow, FencesExplained, CommandOfPc
<1>6. ASSUME NEW x \in Dirs, NEW i \in DOMAIN mainQ', Asks(mainQ'[i], "DisablePort", x)
      PROVE  Unready(x)' /\ (~enable'[x] \/ ~EnableAhead(x, i)')
  <2>1. CASE i \in DOMAIN mainQ
    <3>1. Asks(mainQ[i], "DisablePort", x) /\ (EnableAhead(x, i)' <=> EnableAhead(x, i))
      BY <1>1, <1>6, <2>1, AheadAppend
    <3>2. Unready(x) /\ (~enable[x] \/ ~EnableAhead(x, i))
      BY <1>6, <2>1, <3>1 DEF Flow, DisableKnown
    <3>3. CASE cmd = "EnablePort" /\ x = d
      BY <1>3, <2>1, <3>1, <3>2, <3>3 DEF Clear
    <3>4. CASE ~(cmd = "EnablePort" /\ x = d)
      <4>1. ~enable[x] => ~enable'[x]
        BY <1>2, <3>4
      <4>2. QED
        BY <1>3, <3>1, <3>2, <4>1
    <3>5. QED
      BY <3>3, <3>4
  <2>2. CASE i \notin DOMAIN mainQ
    <3>1. mainQ'[i] = e
      BY <1>1, <2>2, AheadAppend
    <3>2. cmd = "DisablePort" /\ x = d
      BY <1>1, <1>6, <3>1 DEF Asks
    <3>3. ~enable'[x]
      BY <1>2, <3>2
    <3>4. QED
      BY <3>3 DEF Unready
  <2>3. QED
    BY <2>1, <2>2
<1>7. ASSUME NEW x \in Dirs, Asks(main'.task, "DisablePort", x) PROVE Unready(x)'
  <2>1. Asks(main.task, "DisablePort", x)
    BY <1>1, <1>7
  <2>2. QED
    BY <1>3, <2>1 DEF Flow, DisableKnown
<1>8. \A x : cmd # "DisablePort" /\ Clear(x) => Clear(x)'
  BY <1>1, AheadAppend
<1>9. QED
  BY <1>4, <1>5, <1>6, <1>7, <1>8

\* with less than two outstanding no EnablePort is in front of a DisablePort
LEMMA AloneIsClear ==
  ASSUME IInv, Accounted, outstanding < 2, NEW d PROVE Clear(d)
<1>1. mainQ \in Seq(MainTasks) /\ main.task \in MainTasks \cup {NoTask}
  BY DEF IInv, TypeOK, MainTypeOK
<1>2. SUFFICES ASSUME NEW i \in DOMAIN mainQ, Asks(mainQ[i], "DisablePort", d), EnableAhead(d, i)
               PROVE  FALSE
  BY DEF Clear
<1>3. mainQ[i] \in CommandTasks
  BY <1>1, <1>2, CommandFacts DEF Asks
<1>4. main.task \notin CommandTasks /\ \A j \in DOMAIN mainQ : mainQ[j] \in CommandTasks => j = i
  BY <1>3, Alone
<1>5. ~Asks(main.task, "EnablePort", d)
  BY <1>1, <1>4, CommandFacts DEF Asks
<1>6. PICK j \in DOMAIN mainQ : j < i /\ Asks(mainQ[j], "EnablePort", d)
  BY <1>2, <1>5 DEF EnableAhead
<1>7. mainQ[j] \in CommandTasks
  BY <1>1, <1>6, CommandFacts DEF Asks
<1>8. j = i /\ i \in Nat
  BY <1>1, <1>4, <1>7
<1>9. QED
  BY <1>6, <1>8

LEMMA FlowFrame ==
  ASSUME Flow, UNCHANGED <<state, enable, toEnable, mainQ, main, reblock, pause, half, outstanding>>
  PROVE  Flow'
BY DEF Flow, Accounted, CommandOfPc, DisableKnown, FencesExplained, Commands, CountIn, Unready,
   Clear, EnableAhead, Asks

\* a task that neither puts a fence nor opens one
LEMMA AppendFlow ==
  ASSUME IInv, Flow, NEW e \in MainTasks, e.cmd \notin {"EnablePort", "DisablePort"},
         mainQ' = Append(mainQ, e), outstanding' = outstanding + One(e \in CommandTasks),
         UNCHANGED <<state, enable, toEnable, main, reblock, pause, half>>
  PROVE  Flow'
<1>1. Accounted'
  BY SentAccounted DEF Flow
<1>2. CommandOfPc' /\ FencesExplained'
  BY DEF Flow, CommandOfPc, FencesExplained, Unready
<1>3. ASSUME NEW d \in Dirs, NEW i \in DOMAIN mainQ', Asks(mainQ'[i], "DisablePort", d)
      PROVE  Unready(d)' /\ (~enable'[d] \/ ~EnableAhead(d, i)')
  <2>1. i \in DOMAIN mainQ /\ Asks(mainQ[i], "DisablePort", d)
    BY <1>3, AheadAppend DEF Asks
  <2>2. EnableAhead(d, i)' <=> EnableAhead(d, i)
    BY <2>1, AheadAppend
  <2>3. QED
    BY <2>1, <2>2 DEF Flow, DisableKnown, Unready
<1>4. \A d \in Dirs : Asks(main'.task, "DisablePort", d) => Unready(d)'
  <2>1. \A d : Unready(d)' <=> Unready(d)
    BY DEF Unready
  <2>2. QED
    BY <2>1 DEF Flow, DisableKnown
<1>5. half'.cmd = "EnablePort" => Clear("out")'
  <2>1. Clear("out") => Clear("out")'
    BY AheadAppend
  <2>2. QED
    BY <2>1 DEF Flow, DisableKnown
<1>6. DisableKnown'
  BY <1>3, <1>4, <1>5 DEF DisableKnown, Asks
<1>7. QED
  BY <1>1, <1>2, <1>6 DEF Flow

LEMMA SendCommandFlow ==
  ASSUME IInv, Flow, MaxOutstanding <= 2,
         NEW c \in StateCommands \cup PortCommands \cup AllCommands, SendCommand(c)
  PROVE  Flow'
<1>1. /\ half = NoTask /\ UNCHANGED <<mainVars, workerVars>> /\ UNCHANGED pause
      /\ outstanding < 2
  <2>1. outstanding \in Int /\ MaxOutstanding \in Nat /\ outstanding < MaxOutstanding
    BY BoundsAssumption DEF SendCommand, IInv, TypeOK, ClientTypeOK
  <2>2. outstanding < 2
    BY <2>1
  <2>3. QED
    BY <2>2 DEF SendCommand, workerVars
<1>2. \A d : Clear(d)
  BY <1>1, AloneIsClear DEF Flow
<1>3. CASE c \in StateCommands
  <2> DEFINE e == [cmd |-> "SetState", data |-> c.data, opt |-> FALSE]
  <2>1. e \in StateTasks /\ c.cmd = "SetState" /\ ~e.opt
    BY <1>3 DEF StateCommands, StateTasks
  <2>2. e \in MainTasks /\ e \in CommandTasks /\ e.cmd \notin {"EnablePort", "DisablePort"}
    BY <2>1 DEF MainTasks, CommandTasks
  <2>3. QueueStateCommand(c.data) /\ UNCHANGED half
    BY <2>1 DEF SendCommand
  <2>4. /\ mainQ' = Append(mainQ, e) /\ outstanding' = outstanding + One(e \in CommandTasks)
        /\ UNCHANGED <<state, enable, toEnable, main, reblock, pause, half>>
    BY <1>1, <2>2, <2>3 DEF QueueStateCommand, portVars, mainVars, One
  <2> HIDE DEF e
  <2>5. QED
    BY <2>2, <2>4, AppendFlow
<1>4. CASE c \in AllCommands
  <2>1. c.cmd \in {"Flush", "DisablePort", "EnablePort"} /\ c.data = "all" /\ "in" \in Dirs
    BY <1>4 DEF AllCommands, Dirs
  <2>2. QueuePortCommand(c.cmd, "in") /\ half' = c
    BY <2>1 DEF SendCommand
  <2>3. QED
    BY <1>1, <1>2, <2>1, <2>2, QueuePortFlow DEF Flow, DisableKnown, Asks
<1>5. CASE c \in PortCommands
  <2>1. c.cmd \in {"Flush", "DisablePort", "EnablePort"} /\ c.data \in Dirs
    BY <1>5, TaskFacts
  <2>2. c.cmd # "SetState" /\ c.data # "all"
    BY <2>1 DEF Dirs
  <2>3. QueuePortCommand(c.cmd, c.data) /\ half' = half
    BY <2>2 DEF SendCommand
  <2>4. half'.cmd # "EnablePort"
    BY <1>1, <2>3, TaskFacts
  <2>5. QED
    BY <1>1, <1>2, <2>1, <2>3, <2>4, QueuePortFlow DEF Flow, DisableKnown, Asks
<1>6. QED
  BY <1>3, <1>4, <1>5

LEMMA SendSecondHalfFlow == ASSUME IInv, Flow, SendSecondHalf PROVE Flow'
<1>1. /\ half.cmd \in {"Flush", "DisablePort", "EnablePort"} /\ "out" \in Dirs
      /\ QueuePortCommand(half.cmd, "out") /\ half' = NoTask
      /\ UNCHANGED mainVars /\ UNCHANGED pause
  BY DEF SendSecondHalf, IInv, TypeOK, ClientTypeOK, AllCommands, Dirs, workerVars
<1>2. half.cmd = "EnablePort" => Clear("out")
  BY DEF Flow, DisableKnown
<1>3. half'.cmd # "EnablePort"
  BY <1>1, TaskFacts
<1>4. QED
  BY <1>1, <1>2, <1>3, QueuePortFlow DEF Flow, DisableKnown, Asks

LEMMA SubmitFlow ==
  ASSUME IInv, Flow, NEW e \in BufferTasks, mainQ' = Append(mainQ, e),
         UNCHANGED <<state, enable, toEnable, main, reblock, pause, half, outstanding>>
  PROVE  Flow'
<1>1. /\ e \in MainTasks /\ e \notin CommandTasks
      /\ e.cmd \notin {"EnablePort", "DisablePort"} /\ outstanding \in Int
  BY CommandFacts DEF MainTasks, IInv, TypeOK, ClientTypeOK
<1>2. outstanding' = outstanding + One(e \in CommandTasks)
  BY <1>1 DEF One
<1>3. QED
  BY <1>1, <1>2, AppendFlow

LEMMA ClientFlow == ASSUME IInv, Flow, MaxOutstanding <= 2, Client PROVE Flow'
<1>1. ASSUME NEW c \in {m[2] : m \in {m \in MaySend : m[1] = state}}, SendCommand(c)
      PROVE  Flow'
  BY <1>1, ClientAssumption, SendCommandFlow
<1>2. ASSUME NEW b \in InBuffers, NEW k \in Kinds, EmptyThisBuffer(b, k) PROVE Flow'
  <2>1. [cmd |-> "EmptyBuffer", data |-> b, kind |-> k] \in BufferTasks
    BY ClientAssumption DEF BufferTasks, EmptyTasks
  <2>2. QED
    BY <1>2, <2>1, SubmitFlow DEF EmptyThisBuffer, stateVars, portVars, mainVars, workerVars
<1>3. ASSUME NEW b \in Buffers, FillThisBuffer(b) PROVE Flow'
  <2>1. [cmd |-> "FillBuffer", data |-> b] \in BufferTasks
    BY <1>3 DEF FillThisBuffer, BufferTasks, FillTasks
  <2>2. QED
    BY <1>3, <2>1, SubmitFlow DEF FillThisBuffer, stateVars, portVars, mainVars, workerVars
<1>4. ASSUME \/ \E b \in Buffers : UseBuffer(b) \/ FreeBuffer(b)
             \/ \E d \in Dirs : UseBufferFails(d)
      PROVE  Flow'
  <2>1. UNCHANGED <<state, enable, toEnable, mainQ, main, reblock, pause, half, outstanding>>
    BY <1>4 DEF UseBuffer, FreeBuffer, UseBufferFails, stateVars, mainVars, workerVars
  <2>2. QED
    BY <2>1, FlowFrame
<1>5. QED
  BY <1>1, <1>2, <1>3, <1>4, SendSecondHalfFlow DEF Client

LEMMA OthersFlow == ASSUME IInv, Flow, Workers \/ Codec \/ UNCHANGED vars PROVE Flow'
<1>1. CASE CodecError
  <2> DEFINE e == [cmd |-> "SetState", data |-> "Invalid", opt |-> TRUE]
  <2>1. e \in StateTasks /\ e \in MainTasks /\ e.opt
    BY DEF StateTasks, MainTasks, States
  <2>2. e \notin CommandTasks /\ e.cmd \notin {"EnablePort", "DisablePort"} /\ outstanding \in Int
    BY <2>1, CommandFacts DEF IInv, TypeOK, ClientTypeOK
  <2>3. /\ mainQ' = Append(mainQ, e) /\ outstanding' = outstanding + One(e \in CommandTasks)
        /\ UNCHANGED <<state, enable, toEnable, main, reblock, pause, half>>
    BY <1>1, <2>2 DEF CodecError, stateVars, portVars, mainVars, workerVars, One
  <2> HIDE DEF e
  <2>4. QED
    BY <2>1, <2>2, <2>3, AppendFlow
<1>2. CASE Workers
  <2>1. UNCHANGED <<state, enable, toEnable, mainQ, main, reblock, pause, half, outstanding>>
    BY <1>2 DEF Workers, Worker, WorkerPop, WorkerPassFence, WorkerReturn, WorkerKeep,
       WorkerFill, WorkerEmpty, WorkerEos, Finish, stateVars, portVars, mainVars
  <2>2. QED
    BY <2>1, FlowFrame
<1>3. CASE \/ \E b \in Buffers : CodecReturns(b)
           \/ CodecEos \/ CodecFinishesEos \/ UNCHANGED vars
  <2>1. UNCHANGED <<state, enable, toEnable, mainQ, main, reblock, pause, half, outstanding>>
    BY <1>3 DEF CodecReturns, CodecEos, CodecFinishesEos, CodecEosIn, CodecEosOut,
       CodecEosClear, vars, stateVars, portVars, mainVars, workerVars
  <2>2. QED
    BY <2>1, FlowFrame
<1>4. QED
  BY <1>1, <1>2, <1>3 DEF Codec

-----------------------------------------------------------------------------
(* "OMX - Sched" and the fences                                             *)

\* a task taken from the queue, whether it becomes the one in treatment or not
LEMMA AheadTail ==
  ASSUME IInv, mainQ # <<>>, mainQ' = Tail(mainQ), main.pc = "take",
         main' = main \/ main'.task = Head(mainQ)
  PROVE  /\ \A i \in DOMAIN mainQ' : i + 1 \in DOMAIN mainQ /\ mainQ'[i] = mainQ[i + 1]
         /\ \A d : \A i \in DOMAIN mainQ' : EnableAhead(d, i)' => EnableAhead(d, i + 1)
         /\ \A d : Clear(d) => Clear(d)'
<1>1. mainQ \in Seq(MainTasks) /\ Len(mainQ) \in Nat /\ DOMAIN mainQ = 1..Len(mainQ)
  BY DEF IInv, TypeOK, MainTypeOK
<1>2. /\ DOMAIN mainQ' = 1..(Len(mainQ) - 1) /\ 1 \in DOMAIN mainQ /\ Head(mainQ) = mainQ[1]
      /\ \A i \in DOMAIN mainQ' : i + 1 \in DOMAIN mainQ /\ mainQ'[i] = mainQ[i + 1]
  BY <1>1
<1>3. ASSUME NEW d, NEW i \in DOMAIN mainQ', EnableAhead(d, i)' PROVE EnableAhead(d, i + 1)
  <2>1. i \in Nat /\ i > 0
    BY <1>1, <1>2
  <2>2. CASE main'.pc = "waitFull" /\ Asks(main'.task, "EnablePort", d)
    <3>1. main'.task = Head(mainQ) /\ 1 < i + 1
      BY <2>1, <2>2
    <3>2. QED
      BY <1>2, <2>2, <3>1 DEF EnableAhead
  <2>3. ASSUME NEW j \in DOMAIN mainQ', j < i, Asks(mainQ'[j], "EnablePort", d)
        PROVE  EnableAhead(d, i + 1)
    <3>1. j + 1 < i + 1 /\ j + 1 \in DOMAIN mainQ /\ mainQ'[j] = mainQ[j + 1]
      BY <1>1, <1>2, <2>1, <2>3
    <3>2. QED
      BY <2>3, <3>1 DEF EnableAhead
  <2>4. QED
    BY <1>3, <2>2, <2>3 DEF EnableAhead
<1>4. ASSUME NEW d, Clear(d) PROVE Clear(d)'
  BY <1>2, <1>3, <1>4 DEF Clear
<1>5. QED
  BY <1>2, <1>3, <1>4

\* a task leaves the queue: a buffer, or a command that becomes the one in treatment
LEMMA TailFlow ==
  ASSUME IInv, Flow, mainQ # <<>>, mainQ' = Tail(mainQ), main.pc = "take",
         UNCHANGED <<state, enable, toEnable, reblock, pause, half>>,
         \/ main' = main /\ outstanding' = outstanding - One(Head(mainQ) \in CommandTasks)
         \/ /\ main'.task = Head(mainQ) /\ outstanding' = outstanding
            /\ main'.pc \in {"unblock", "check", "waitFull"}
            /\ main'.pc = "waitFull" => main'.task.cmd = "EnablePort"
  PROVE  Flow'
<1>1. mainQ \in Seq(MainTasks) /\ outstanding \in Int /\ 1 \in DOMAIN mainQ /\ Head(mainQ) = mainQ[1]
  BY DEF IInv, TypeOK, MainTypeOK, ClientTypeOK
<1>2. Commands(mainQ') \in Nat /\ Commands(mainQ) = Commands(mainQ') + One(Head(mainQ) \in CommandTasks)
  <2>1. Tail(mainQ) \in Seq(MainTasks)
    BY <1>1
  <2>2. QED
    BY <1>1, <2>1, CommandsTail, CommandsType
<1>3. Accounted'
  BY <1>1, <1>2 DEF Flow, Accounted, One
<1>4. \A d : Unready(d)' <=> Unready(d)
  BY DEF Unready
<1>5. CommandOfPc'
  BY DEF CommandOfPc
<1>6. FencesExplained'
  <2>1. reblock' = {} /\ main'.pc \notin {"swap", "join", "reblock", "reopen", "enabled"}
    BY DEF Flow, FencesExplained
  <2>2. QED
    BY <1>4, <2>1 DEF Flow, FencesExplained
<1>7. \A d \in Dirs : Asks(main'.task, "DisablePort", d) => Unready(d)'
  BY <1>1, <1>4 DEF Flow, DisableKnown
<1>8. ASSUME NEW d \in Dirs, NEW i \in DOMAIN mainQ', Asks(mainQ'[i], "DisablePort", d)
      PROVE  Unready(d)' /\ (~enable'[d] \/ ~EnableAhead(d, i)')
  <2>1. /\ i + 1 \in DOMAIN mainQ /\ Asks(mainQ[i + 1], "DisablePort", d)
        /\ EnableAhead(d, i)' => EnableAhead(d, i + 1)
    BY <1>8, AheadTail
  <2>2. QED
    BY <1>4, <2>1 DEF Flow, DisableKnown
<1>9. half'.cmd = "EnablePort" => Clear("out")'
  BY AheadTail DEF Flow, DisableKnown
<1>10. DisableKnown'
  BY <1>7, <1>8, <1>9 DEF DisableKnown, Asks
<1>11. QED
  BY <1>3, <1>5, <1>6, <1>10 DEF Flow

LEMMA MainDispatchFlow == ASSUME IInv, Flow, MainDispatch PROVE Flow'
<1>1. outstanding' = outstanding - One(Head(mainQ) \in CommandTasks)
  BY CommandFacts DEF MainDispatch, IInv, TypeOK, ClientTypeOK, One
<1>2. QED
  BY <1>1, TailFlow DEF MainDispatch, stateVars, portVars, mainVars

LEMMA MainTakeFlow == ASSUME IInv, Flow, MainTake PROVE Flow'
<1> DEFINE t == Head(mainQ)
<1>1. /\ mainQ # <<>> /\ mainQ' = Tail(mainQ) /\ main.pc = "take"
      /\ UNCHANGED <<state, enable, toEnable, reblock, pause, half>>
      /\ t \in StateTasks \cup PortCommands
  BY SequenceFacts, MainTaskSplit
     DEF MainTake, IInv, TypeOK, MainTypeOK, stateVars, portVars, mainVars, workerVars
<1>2. CASE AlreadyDone(t)
  <2>1. t \in CommandTasks
    BY <1>1, <1>2, CommandFacts DEF AlreadyDone
  <2>2. main' = main /\ outstanding' = outstanding - One(t \in CommandTasks)
    BY <1>2, <2>1 DEF MainTake, mainVars, One
  <2> HIDE DEF t
  <2>3. QED
    BY <1>1, <2>2, TailFlow DEF t
<1>3. CASE ~AlreadyDone(t)
  <2>1. main' = [pc |-> BeginsWith(t), task |-> t] /\ outstanding' = outstanding
    BY <1>3 DEF MainTake
  <2>2. /\ BeginsWith(t) \in {"unblock", "check", "waitFull"}
        /\ BeginsWith(t) = "waitFull" => t.cmd = "EnablePort"
    BY <1>1, TaskFacts DEF BeginsWith
  <2>3. QED
    BY <1>1, <2>1, <2>2, TailFlow
<1>4. QED
  BY <1>2, <1>3

\* a command goes on, or ends
Ends == Answer \/ GiveUp
GoesOn ==
  /\ UNCHANGED outstanding /\ main'.task = main.task /\ main'.pc # "waitFull"
  /\ main'.pc \in {"restart", "flushEos"} => main.task \in PortCommands
  /\ main'.pc = "block" => main.task.cmd = "DisablePort"

LEMMA StepFlow ==
  ASSUME IInv, Flow, main.task \in StateTasks \cup PortCommands,
         UNCHANGED <<mainQ, half, enable>>, Ends \/ GoesOn,
         \/ toEnable' = toEnable
         \/ /\ main.pc = "waitFull"
            /\ \A d \in Dirs : main.task.data # d => toEnable'[d] = toEnable[d]
  PROVE  Accounted' /\ CommandOfPc' /\ DisableKnown'
<1>1. mainQ \in Seq(MainTasks) /\ outstanding \in Int /\ NoTask \notin CommandTasks
  BY CommandFacts DEF IInv, TypeOK, MainTypeOK, ClientTypeOK
<1>2. Commands(mainQ') = Commands(mainQ) /\ Commands(mainQ) \in Nat
  BY <1>1, CommandsType
<1>3. Accounted'
  <2>1. CASE Answer
    <3>1. /\ main'.task = NoTask
          /\ outstanding' = outstanding - One(main.task \in CommandTasks)
      BY <2>1, TaskFacts, CommandFacts DEF Answer, One
    <3>2. QED
      BY <1>1, <1>2, <3>1 DEF Flow, Accounted, One
  <2>2. CASE GiveUp
    BY <1>1, <1>2, <2>2 DEF Flow, Accounted, One, GiveUp
  <2>3. CASE GoesOn
    BY <1>1, <1>2, <2>3 DEF Flow, Accounted, GoesOn
  <2>4. QED
    BY <2>1, <2>2, <2>3 DEF Ends
<1>4. CommandOfPc' /\ main'.pc # "waitFull"
  BY DEF Ends, Answer, GiveUp, GoesOn, CommandOfPc
<1>5. \A d : \A i : EnableAhead(d, i)' => EnableAhead(d, i)
  BY <1>4 DEF EnableAhead
<1>6. \A d : Clear(d) => Clear(d)'
  BY <1>5 DEF Clear
<1>7. main'.task \in {main.task, NoTask} /\ ~Asks(NoTask, "DisablePort", "in")
      /\ \A d : ~Asks(NoTask, "DisablePort", d)
  BY TaskFacts DEF Ends, Answer, GiveUp, GoesOn, Asks
<1>8. ASSUME NEW d \in Dirs, Unready(d), ~Unready(d)'
      PROVE  Asks(main.task, "EnablePort", d) /\ main.pc = "waitFull" /\ enable[d]
  BY <1>8 DEF Unready, Flow, CommandOfPc, Asks
<1>9. \A d \in Dirs : Asks(main'.task, "DisablePort", d) => Unready(d)'
  <2>1. \A d : ~(Asks(main.task, "EnablePort", d) /\ Asks(main.task, "DisablePort", d))
    BY DEF Asks
  <2>2. QED
    BY <1>7, <1>8, <2>1 DEF Flow, DisableKnown
<1>10. ASSUME NEW d \in Dirs, NEW i \in DOMAIN mainQ', Asks(mainQ'[i], "DisablePort", d)
       PROVE  Unready(d)' /\ (~enable'[d] \/ ~EnableAhead(d, i)')
  <2>1. Unready(d) /\ (~enable[d] \/ ~EnableAhead(d, i))
    BY <1>10 DEF Flow, DisableKnown
  <2>2. Unready(d)'
    BY <1>8, <2>1 DEF EnableAhead
  <2>3. QED
    BY <1>5, <2>1, <2>2
<1>11. half'.cmd = "EnablePort" => Clear("out")'
  BY <1>6 DEF Flow, DisableKnown
<1>12. DisableKnown'
  BY <1>9, <1>10, <1>11 DEF DisableKnown, Asks
<1>13. QED
  BY <1>3, <1>4, <1>12

\* a step of FlushFillEmptyBuffers, of TreatSetStateCommand or of a port command
LEMMA PlaceOfStep ==
  ASSUME IInv, Flow, Main, ~MainDispatch, ~MainTake
  PROVE  main.task \in StateTasks \cup PortCommands /\ UNCHANGED <<mainQ, half, enable>>
<1>1. main.pc \in FlushPc \cup SetStatePc \cup PortPc \cup {"restart", "flushEos"}
  BY DEF Main, MainUnblock, MainSwap, MainJoin, MainReblock, MainCheck, MainPopulate,
     MainUnpopulate, MainStart, MainStop, MainSwitch, MainInvalid, MainRestart, MainFlushEos,
     MainBlock, MainRestartPort, MainWaitEmpty, MainWaitFull, MainReopen, MainEnabled,
     FlushPc, SetStatePc, PortPc
<1>2. UNCHANGED <<mainQ, half, enable>>
  BY DEF Main, MainUnblock, MainSwap, MainJoin, MainReblock, MainCheck, MainPopulate,
     MainUnpopulate, MainStart, MainStop, MainSwitch, MainInvalid, MainRestart, MainFlushEos,
     MainBlock, MainRestartPort, MainWaitEmpty, MainWaitFull, MainReopen, MainEnabled,
     portVars
<1>3. QED
  BY <1>1, <1>2 DEF IInv, TaskOfPc, Flow, CommandOfPc

LEMMA GoesOnTo ==
  ASSUME IInv, NEW pc \in MainPc, Goto(pc), UNCHANGED outstanding, pc # "waitFull",
         pc \in {"restart", "flushEos"} => main.task \in PortCommands,
         pc = "block" => main.task.cmd = "DisablePort"
  PROVE  GoesOn /\ main'.pc = pc
BY GotoType DEF IInv, TypeOK, GoesOn

\* no fence is put or opened, and the ports stay as they are
LEMMA QuietFences ==
  ASSUME Flow, UNCHANGED <<state, enable, toEnable, reblock, pause>>,
         main.pc \notin {"swap", "join", "reblock", "reopen", "enabled"}
  PROVE  FencesExplained'
<1>1. reblock' = {}
  BY DEF Flow, FencesExplained
<1>2. QED
  BY <1>1 DEF Flow, FencesExplained, Unready

LEMMA FlushFlow ==
  ASSUME IInv, Flow, MainUnblock \/ MainSwap \/ MainJoin \/ MainReblock
  PROVE  Flow'
<1>1. main.task \in StateTasks \cup PortCommands /\ UNCHANGED <<mainQ, half, enable>>
  <2>1. Main /\ ~MainDispatch /\ ~MainTake
    BY DEF Main, MainUnblock, MainSwap, MainJoin, MainReblock, MainDispatch, MainTake
  <2>2. QED
    BY <2>1, PlaceOfStep
<1>2. UNCHANGED <<state, toEnable, outstanding>>
  BY DEF MainUnblock, MainSwap, MainJoin, MainReblock, stateVars, portVars
<1>3. CASE MainUnblock
  <2>1. GoesOn /\ main'.pc = "swap"
    BY <1>2, <1>3, GoesOnTo DEF MainUnblock, MainPc
  <2>2. /\ main.pc = "unblock" /\ reblock' = {d \in Dirs : pause[d]}
        /\ \A d \in Dirs : ~pause'[d]
    BY <1>3 DEF MainUnblock, Unblock
  <2>3. FencesExplained'
    BY <1>1, <1>2, <2>1, <2>2 DEF Flow, FencesExplained, Unready
  <2>4. QED
    BY <1>1, <1>2, <2>1, <2>3, StepFlow DEF Flow
<1>4. CASE MainSwap \/ MainJoin
  <2>1. \E pc \in {"join", "swap", "reblock"} : Goto(pc)
    BY <1>4 DEF MainSwap, MainJoin
  <2>2. GoesOn /\ main'.pc \in {"join", "swap", "reblock"}
    BY <1>2, <2>1, GoesOnTo DEF MainPc
  <2>3. main.pc \in {"join", "swap"} /\ UNCHANGED <<reblock, pause>>
    BY <1>4 DEF MainSwap, MainJoin
  <2>4. FencesExplained'
    BY <1>1, <1>2, <2>2, <2>3 DEF Flow, FencesExplained, Unready
  <2>5. QED
    BY <1>1, <1>2, <2>2, <2>4, StepFlow DEF Flow
<1>5. CASE MainReblock
  <2>1. /\ main.pc = "reblock" /\ main'.task = main.task
        /\ main'.pc = CASE main.task.cmd = "SetState" -> "check"
                        [] main.task.cmd = "Flush" -> "restart"
                        [] main.task.cmd = "DisablePort" -> "block"
        /\ main.task.cmd \in {"SetState", "Flush", "DisablePort"}
        /\ reblock' = {} /\ Block(reblock)
    BY <1>5, ReblockStep DEF MainReblock
  <2>2. GoesOn /\ main'.pc \in {"check", "restart", "block"}
    BY <1>1, <1>2, <2>1, TaskFacts DEF GoesOn
  <2>3. \A d \in Dirs : pause'[d] => pause[d] \/ reblock # {}
    BY <2>1 DEF Block
  <2>4. FencesExplained'
    BY <1>1, <1>2, <2>1, <2>2, <2>3 DEF Flow, FencesExplained, Unready
  <2>5. QED
    BY <1>1, <1>2, <2>2, <2>4, StepFlow DEF Flow
<1>6. QED
  BY <1>3, <1>4, <1>5

\* the steps that wait, or give the module something to do
LEMMA QuietFlow ==
  ASSUME IInv, Flow,
         \/ MainCheck \/ MainStart \/ MainStop
         \/ \E d \in Dirs : MainPopulate(d) \/ MainUnpopulate(d)
         \/ MainRestart \/ MainFlushEos \/ MainRestartPort \/ MainWaitEmpty
  PROVE  Flow'
<1>1. main.task \in StateTasks \cup PortCommands /\ UNCHANGED <<mainQ, half, enable>>
  <2>1. main.pc # "take" /\ Main
    BY DEF Main, MainCheck, MainStart, MainStop, MainPopulate, MainUnpopulate, MainRestart,
       MainFlushEos, MainRestartPort, MainWaitEmpty
  <2>2. QED
    BY <2>1, PlaceOfStep DEF MainDispatch, MainTake
<1>2. /\ UNCHANGED <<state, toEnable, reblock, pause>>
      /\ main.pc \notin {"swap", "join", "reblock", "reopen", "enabled"}
  BY DEF MainCheck, MainStart, MainStop, MainPopulate, MainUnpopulate, MainRestart,
     MainFlushEos, MainRestartPort, MainWaitEmpty, stateVars, portVars, workerVars
<1>3. Ends \/ GoesOn
  <2>1. \/ Ends
        \/ /\ UNCHANGED outstanding
           /\ \E pc \in {"populateIn", "populateOut", "unpopulateIn", "unpopulateOut", "start",
                        "stop", "switch", "invalid", "waitEmpty"} : Goto(pc)
        \/ UNCHANGED outstanding /\ main.pc = "restart" /\ Goto("flushEos")
    BY DEF Ends, MainCheck, MainStart, MainStop, MainPopulate, MainUnpopulate, MainRestart,
       MainFlushEos, MainRestartPort, MainWaitEmpty
  <2>2. QED
    BY <2>1, GoesOnTo DEF Flow, CommandOfPc, MainPc
<1>4. FencesExplained'
  BY <1>1, <1>2, QuietFences
<1>5. QED
  BY <1>1, <1>2, <1>3, <1>4, StepFlow DEF Flow

\* the state and the fences change together
LEMMA MainSwitchFlow == ASSUME IInv, Transit, Flow, MainSwitch PROVE Flow'
<1> DEFINE new == main.task.data
<1>1. main.task \in StateTasks \cup PortCommands /\ UNCHANGED <<mainQ, half, enable>>
  <2>1. main.pc # "take" /\ Main
    BY DEF Main, MainSwitch
  <2>2. QED
    BY <2>1, PlaceOfStep DEF MainDispatch, MainTake
<1>2. /\ UNCHANGED <<toEnable, reblock>> /\ Answer /\ state' = new
      /\ main.pc = "switch" /\ main'.pc = "take"
      /\ IF ToPause(state, new) THEN Block(Dirs)
         ELSE IF state = "Pause" /\ BothPortsReady THEN Unblock
         ELSE UNCHANGED workerVars
  BY DEF MainSwitch, portVars, Answer
<1>3. CheckStateTransition(state, new) = "None"
  BY <1>2 DEF Transit, SetStatePc
<1>4. state # "Invalid" /\ state # new /\ reblock = {}
  BY <1>2, <1>3 DEF CheckStateTransition, Flow, FencesExplained
<1> HIDE DEF new
<1>5. FencesExplained'
  <2>1. CASE ToPause(state, new)
    BY <1>2, <1>4, <2>1 DEF ToPause, FencesExplained
  <2>2. CASE ~ToPause(state, new) /\ state = "Pause" /\ BothPortsReady
    BY <1>2, <1>4, <2>2 DEF Unblock, FencesExplained
  <2>3. CASE state = "Pause" /\ ~BothPortsReady
    BY <1>1, <1>2, <1>4, <2>3 DEF BothPortsReady, Unready, FencesExplained
  <2>4. CASE ~ToPause(state, new) /\ state # "Pause"
    <3>1. pause' = pause
      BY <1>2, <2>4 DEF workerVars
    <3>2. (\E d \in Dirs : pause[d]) => \E d \in Dirs : Unready(d)
      BY <1>2, <1>4, <2>4 DEF Flow, FencesExplained
    <3>3. QED
      BY <1>1, <1>2, <1>4, <3>1, <3>2 DEF FencesExplained, Unready
  <2>5. QED
    BY <2>1, <2>2, <2>3, <2>4
<1>6. QED
  BY <1>1, <1>2, <1>5, StepFlow DEF Ends, Flow

LEMMA MainInvalidFlow == ASSUME IInv, Flow, MainInvalid PROVE Flow'
<1>1. main.task \in StateTasks \cup PortCommands /\ UNCHANGED <<mainQ, half, enable>>
  <2>1. main.pc # "take" /\ Main
    BY DEF Main, MainInvalid
  <2>2. QED
    BY <2>1, PlaceOfStep DEF MainDispatch, MainTake
<1>2. UNCHANGED <<toEnable, reblock>> /\ Answer /\ state' = "Invalid" /\ main.pc = "invalid"
  BY DEF MainInvalid, portVars
<1>3. FencesExplained'
  BY <1>2 DEF Flow, FencesExplained
<1>4. QED
  BY <1>1, <1>2, <1>3, StepFlow DEF Ends, Flow

\* TreatDisablePortCommand puts a fence, and knows the port is not ready
LEMMA MainBlockFlow == ASSUME IInv, Flow, MainBlock PROVE Flow'
<1>1. main.task \in StateTasks \cup PortCommands /\ UNCHANGED <<mainQ, half, enable>>
  <2>1. main.pc # "take" /\ Main
    BY DEF Main, MainBlock
  <2>2. QED
    BY <2>1, PlaceOfStep DEF MainDispatch, MainTake
<1>2. UNCHANGED <<state, toEnable, reblock, outstanding>> /\ main.pc = "block"
  BY DEF MainBlock, stateVars, portVars
<1>3. \E pc \in {"restartPort", "waitEmpty"} : Goto(pc)
  BY DEF MainBlock
<1>4. GoesOn
  BY <1>2, <1>3, GoesOnTo DEF MainPc
<1>5. \E d \in Dirs : Unready(d)
  <2>1. main.task.cmd = "DisablePort" /\ main.task.data \in Dirs
    BY <1>1, <1>2, TaskFacts DEF Flow, CommandOfPc
  <2>2. QED
    BY <2>1 DEF Flow, DisableKnown, Asks
<1>6. FencesExplained'
  BY <1>1, <1>2, <1>5 DEF Flow, FencesExplained, Unready
<1>7. QED
  BY <1>1, <1>2, <1>4, <1>6, StepFlow DEF Flow

\* TreatEnablePortCommand: toEnable is cleared, and the fences are looked at next
LEMMA EnableFlow == ASSUME IInv, Flow, MainWaitFull \/ MainReopen \/ MainEnabled PROVE Flow'
<1>1. main.task \in StateTasks \cup PortCommands /\ UNCHANGED <<mainQ, half, enable>>
  <2>1. main.pc # "take" /\ Main
    BY DEF Main, MainWaitFull, MainReopen, MainEnabled
  <2>2. QED
    BY <2>1, PlaceOfStep DEF MainDispatch, MainTake
<1>2. UNCHANGED <<state, reblock>> /\ main.pc \in {"waitFull", "reopen", "enabled"} /\ reblock = {}
  BY DEF MainWaitFull, MainReopen, MainEnabled, stateVars, Flow, FencesExplained
<1>3. CASE MainWaitFull
  <2>1. CASE GiveUp /\ UNCHANGED toEnable
    <3>1. pause' = pause /\ main.pc = "waitFull"
      BY <1>3 DEF MainWaitFull, workerVars
    <3>2. FencesExplained'
      BY <1>1, <1>2, <2>1, <3>1, QuietFences
    <3>3. QED
      BY <1>1, <2>1, <3>2, StepFlow DEF Ends, Flow
  <2>2. CASE /\ toEnable' = [toEnable EXCEPT ![main.task.data] = FALSE]
             /\ Goto(IF ShouldPrealloc /\ shouldFire /\ Streaming THEN "reopen" ELSE "enabled")
             /\ UNCHANGED outstanding
    <3>1. \E pc \in {"reopen", "enabled"} : Goto(pc)
      BY <2>2
    <3>2. GoesOn /\ main'.pc \in {"reopen", "enabled"}
      BY <2>2, <3>1, GoesOnTo DEF MainPc
    <3>3. \A d \in Dirs : main.task.data # d => toEnable'[d] = toEnable[d]
      BY <2>2 DEF IInv, TypeOK, PortsTypeOK
    <3>4. FencesExplained' /\ main.pc = "waitFull"
      BY <1>2, <1>3, <3>2 DEF FencesExplained, MainWaitFull
    <3>5. QED
      BY <1>1, <3>2, <3>3, <3>4, StepFlow DEF Flow
  <2>3. QED
    BY <1>3, <2>1, <2>2 DEF MainWaitFull
<1>4. CASE MainReopen
  <2>1. GoesOn /\ main'.pc = "enabled" /\ UNCHANGED toEnable
    BY <1>4, GoesOnTo DEF MainReopen, MainPc, portVars
  <2>2. FencesExplained'
    BY <1>2, <2>1 DEF FencesExplained
  <2>3. QED
    BY <1>1, <2>1, <2>2, StepFlow DEF Flow
<1>5. CASE MainEnabled
  <2>1. /\ Answer /\ UNCHANGED toEnable
        /\ IF BothPortsReady /\ state # "Pause" THEN Unblock ELSE UNCHANGED workerVars
    BY <1>5 DEF MainEnabled, portVars
  <2>2. BothPortsReady /\ state # "Pause" => \A d \in Dirs : ~pause'[d]
    BY <2>1 DEF Unblock
  <2>3. ~BothPortsReady => \E d \in Dirs : Unready(d)'
    BY <1>1, <2>1 DEF BothPortsReady, Unready
  <2>4. FencesExplained'
    BY <1>2, <2>2, <2>3 DEF FencesExplained
  <2>5. QED
    BY <1>1, <2>1, <2>4, StepFlow DEF Ends, Flow
<1>6. QED
  BY <1>3, <1>4, <1>5

LEMMA NextFlow ==
  ASSUME IInv, Transit, Flow, MaxOutstanding <= 2, [Next]_vars PROVE Flow'
<1>1. CASE Client \/ Workers \/ Codec \/ UNCHANGED vars
  BY <1>1, ClientFlow, OthersFlow
<1>2. CASE Main
  BY <1>2, MainDispatchFlow, MainTakeFlow, FlushFlow, QuietFlow, MainSwitchFlow,
     MainInvalidFlow, MainBlockFlow, EnableFlow DEF Main
<1>3. QED
  BY <1>1, <1>2 DEF Next

LEMMA InitFlow == Init => Flow
<1>1. ASSUME Init PROVE Flow
  <2>1. mainQ = <<>> /\ main.pc = "take" /\ main.task = NoTask /\ half = NoTask /\ outstanding = 0
        /\ reblock = {} /\ \A d \in Dirs : ~pause[d]
    BY <1>1 DEF Init
  <2>2. {i \in DOMAIN mainQ : mainQ[i] \in CommandTasks} = {} /\ DOMAIN mainQ = {}
    BY <2>1
  <2>3. Commands(mainQ) = 0
    BY <2>2, FS_EmptySet DEF Commands, CountIn
  <2>4. Accounted
    BY <2>1, <2>3, CommandFacts DEF Accounted, One
  <2>5. CommandOfPc /\ FencesExplained
    BY <2>1 DEF CommandOfPc, FencesExplained
  <2>6. DisableKnown
    BY <2>1, <2>2, TaskFacts DEF DisableKnown, Asks
  <2>7. QED
    BY <2>4, <2>5, <2>6 DEF Flow
<1>2. QED
  BY <1>1

(* Once the commands are done and both ports are enabled, data flows in          *)
(* Executing: with at most two commands outstanding no mixture of Pause, Flush    *)
(* and port commands leaves a worker behind a closed fence.                       *)
THEOREM DataFlowsHolds == ASSUME MaxOutstanding <= 2 PROVE Spec => []DataFlows
<1>1. BInv /\ Flow /\ [Next]_vars => Flow'
  BY NextFlow DEF BInv
<1>2. BInv /\ Flow => DataFlows
  <2>1. ASSUME BInv, Flow, Settled, state = "Executing", \A d \in Dirs : enable[d], NEW d \in Dirs
        PROVE  ClosedFences(d) = {} /\ worker[d].task # ClosedFence
    <3>1. \A x \in Dirs : ~Unready(x)
      BY <2>1 DEF Settled, Unready
    <3>2. ~pause[d]
      BY <2>1, <3>1 DEF Settled, Flow, FencesExplained
    <3>3. QED
      BY <2>1, <3>2 DEF BInv, IInv, FencesKnown, ClosedFences
  <2>2. QED
    BY <2>1 DEF DataFlows
<1>3. QED
  BY <1>1, <1>2, InitFlow, BuffersInductive, PTL DEF Spec

-----------------------------------------------------------------------------
(* Pause                                                                    *)

(* A client that waits for each command, does not go from Idle to Pause, and   *)
(* sends no port command in Pause.                                           *)
PausesOnlyWhatRuns ==
  /\ MaxOutstanding <= 1
  /\ <<"Idle", [cmd |-> "SetState", data |-> "Pause"]>> \notin MaySend
  /\ \A m \in MaySend : m[1] = "Pause" => m[2] \in StateCommands

ClientStates == {t \in StateTasks : ~t.opt}
OwnStates    == {t \in StateTasks : t.opt /\ t.data # "Invalid"}
PauseTasks   == {t \in ClientStates : t.data = "Pause"}

\* a task of T is queued or in treatment
OnWay(T) == main.task \in T \/ \E i \in DOMAIN mainQ : mainQ[i] \in T

(* A change of state is treated in the state it was sent in.                   *)
SentHere ==
  /\ OnWay(ClientStates) => half = NoTask /\ outstanding <= 1
  /\ ~OnWay(OwnStates)
  /\ state = "Pause" => half = NoTask /\ ~OnWay(PortCommands)
  /\ state = "Idle" => ~OnWay(PauseTasks)

(* Only the way out of Executing flushes.                                     *)
FlushPlace == main.pc \in FlushPc /\ main.task \in StateTasks => state = "Executing"

(* Only a FIFO being destroyed has another handler, and so has what was popped  *)
(* from it.                                                                  *)
Handlers ==
  \A d \in Dirs :
    /\ handler[d] = "delete" => main.pc = "join" /\ d = Flushed
    /\ worker[d].by = "delete" => handler[d] = "delete"

(* A promise is pending for a fence that is there.                            *)
FenceThere ==
  \A d \in Dirs : pause[d] =>
    worker[d].task = ClosedFence \/ \E i \in DOMAIN fifo[d] : fifo[d][i] = ClosedFence

\* no buffer is in front of the closed fence
HeldBack(d) ==
  /\ ~HasBuffer(d)
  /\ \/ worker[d].task = ClosedFence
     \/ \E i \in DOMAIN fifo[d] :
          /\ fifo[d][i] = ClosedFence
          /\ \A j \in DOMAIN fifo[d] : j < i => fifo[d][j].cmd = "SharedFence"

Still ==
  /\ SentHere /\ FlushPlace /\ Handlers /\ FenceThere
  /\ state = "Pause" => \A d \in Dirs : HeldBack(d)

LEMMA OnWayAppend ==
  ASSUME IInv, NEW e \in MainTasks, mainQ' = Append(mainQ, e), UNCHANGED main, NEW T
  PROVE  OnWay(T)' <=> OnWay(T) \/ e \in T
BY AheadAppend DEF OnWay

LEMMA OnWayTail ==
  ASSUME IInv, mainQ # <<>>, mainQ' = Tail(mainQ), NEW T, OnWay(T)',
         main' = main \/ main'.task = Head(mainQ)
  PROVE  OnWay(T)
<1>1. mainQ \in Seq(MainTasks)
  BY DEF IInv, TypeOK, MainTypeOK
<1>2. /\ 1 \in DOMAIN mainQ /\ Head(mainQ) = mainQ[1]
      /\ \A i \in DOMAIN mainQ' : \E j \in DOMAIN mainQ : mainQ'[i] = mainQ[j]
  BY <1>1, SequenceFacts
<1>3. QED
  BY <1>2 DEF OnWay

\* when every command is answered none is on its way
LEMMA NoneUnanswered ==
  ASSUME IInv, Accounted, outstanding < 1
  PROVE  ~OnWay(CommandTasks)
<1> DEFINE S == {i \in DOMAIN mainQ : mainQ[i] \in CommandTasks}
<1>1. mainQ \in Seq(MainTasks) /\ outstanding \in Int
  BY DEF IInv, TypeOK, MainTypeOK, ClientTypeOK
<1>2. IsFiniteSet(S) /\ Cardinality(S) \in Nat /\ Cardinality(S) = Commands(mainQ)
  BY <1>1, CommandsType DEF Commands, CountIn
<1>3. Cardinality(S) = 0 /\ main.task \notin CommandTasks
  BY <1>1, <1>2 DEF Accounted, One
<1>4. S = {}
  BY <1>2, <1>3, FS_EmptySet
<1>5. QED
  BY <1>3, <1>4 DEF OnWay

\* the command in treatment is the only one when one is outstanding
LEMMA NoneBehind ==
  ASSUME IInv, Accounted, outstanding <= 1, main.task \in CommandTasks
  PROVE  \A i \in DOMAIN mainQ : mainQ[i] \notin CommandTasks
<1> DEFINE S == {i \in DOMAIN mainQ : mainQ[i] \in CommandTasks}
<1>1. mainQ \in Seq(MainTasks) /\ outstanding \in Int
  BY DEF IInv, TypeOK, MainTypeOK, ClientTypeOK
<1>2. IsFiniteSet(S) /\ Cardinality(S) \in Nat /\ Cardinality(S) = Commands(mainQ)
  BY <1>1, CommandsType DEF Commands, CountIn
<1>3. Cardinality(S) = 0
  BY <1>1, <1>2 DEF Accounted, One
<1>4. S = {}
  BY <1>2, <1>3, FS_EmptySet
<1>5. QED
  BY <1>4

\* the sets of tasks the invariant speaks of
LEMMA TaskSets ==
  /\ ClientStates \subseteq CommandTasks /\ PortCommands \subseteq CommandTasks
  /\ PauseTasks \subseteq ClientStates /\ ClientStates \subseteq StateTasks
  /\ NoTask \notin StateTasks \cup PortCommands
  /\ \A t \in StateTasks : t \in ClientStates <=> ~t.opt
  /\ \A t \in BufferTasks : t \notin StateTasks \cup PortCommands
  /\ \A t \in StateTasks : t \notin PortCommands
BY TaskFacts, CommandFacts DEF ClientStates, PauseTasks, CommandTasks, BufferTasks

LEMMA SentFrame ==
  ASSUME SentHere, UNCHANGED <<state, mainQ, main, half, outstanding>>
  PROVE  SentHere'
BY DEF SentHere, OnWay

\* CreateCommand for one port, in another state than Pause
LEMMA QueuePortSent ==
  ASSUME IInv, SentHere, NEW cmd \in {"Flush", "DisablePort", "EnablePort"}, NEW d \in Dirs,
         QueuePortCommand(cmd, d), UNCHANGED mainVars, state # "Pause", ~OnWay(ClientStates)
  PROVE  SentHere'
<1> DEFINE e == [cmd |-> cmd, data |-> d]
<1>1. /\ mainQ' = Append(mainQ, e) /\ UNCHANGED <<state, main>>
      /\ e \in PortCommands /\ e \in MainTasks
  BY CommandFacts DEF QueuePortCommand, mainVars, PortCommands, MainTasks
<1>2. e \notin ClientStates /\ e \notin OwnStates /\ e \notin PauseTasks
  BY <1>1, TaskSets DEF OwnStates
<1> HIDE DEF e
<1>3. ~OnWay(ClientStates)' /\ ~OnWay(OwnStates)' /\ (state = "Idle" => ~OnWay(PauseTasks)')
  BY <1>1, <1>2, OnWayAppend DEF SentHere
<1>4. QED
  BY <1>1, <1>3 DEF SentHere

LEMMA SendCommandSent ==
  ASSUME IInv, Flow, SentHere, PausesOnlyWhatRuns,
         NEW c \in StateCommands \cup PortCommands \cup AllCommands, <<state, c>> \in MaySend,
         SendCommand(c)
  PROVE  SentHere'
<1>1. half = NoTask /\ UNCHANGED mainVars /\ outstanding < 1
  <2>1. outstanding \in Int /\ MaxOutstanding \in Nat /\ outstanding < MaxOutstanding
    BY BoundsAssumption DEF SendCommand, IInv, TypeOK, ClientTypeOK
  <2>2. outstanding < 1
    BY <2>1 DEF PausesOnlyWhatRuns
  <2>3. QED
    BY <2>2 DEF SendCommand
<1>2. ~OnWay(CommandTasks) /\ ~OnWay(ClientStates) /\ ~OnWay(PortCommands)
  <2>1. ~OnWay(CommandTasks)
    BY <1>1, NoneUnanswered DEF Flow
  <2>2. QED
    BY <2>1, TaskSets DEF OnWay
<1>3. CASE c \in StateCommands
  <2> DEFINE e == [cmd |-> "SetState", data |-> c.data, opt |-> FALSE]
  <2>1. e \in StateTasks /\ c.cmd = "SetState" /\ ~e.opt /\ e.data = c.data
        /\ c = [cmd |-> "SetState", data |-> c.data]
    BY <1>3 DEF StateCommands, StateTasks
  <2>2. e \in MainTasks /\ e \notin PortCommands /\ e \notin OwnStates
    BY <2>1, TaskSets DEF MainTasks, OwnStates
  <2>3. state = "Idle" => e \notin PauseTasks
    BY <2>1 DEF PausesOnlyWhatRuns, PauseTasks
  <2>4. /\ mainQ' = Append(mainQ, e) /\ outstanding' = outstanding + 1
        /\ UNCHANGED <<state, main, half>>
    BY <1>1, <2>1 DEF SendCommand, QueueStateCommand, mainVars
  <2> HIDE DEF e
  <2>5. outstanding' <= 1
    BY <1>1, <2>4 DEF IInv, TypeOK, ClientTypeOK
  <2>6. ~OnWay(OwnStates)' /\ ~OnWay(PortCommands)' /\ (state = "Idle" => ~OnWay(PauseTasks)')
    BY <1>2, <2>2, <2>3, <2>4, OnWayAppend DEF SentHere
  <2>7. QED
    BY <1>1, <2>4, <2>5, <2>6 DEF SentHere
<1>4. CASE c \notin StateCommands
  <2>1. state # "Pause"
    BY <1>4 DEF PausesOnlyWhatRuns
  <2>2. /\ c.cmd \in {"Flush", "DisablePort", "EnablePort"}
        /\ c.data \in Dirs \/ (c.data = "all" /\ "in" \in Dirs)
        /\ c.data \in Dirs => c.data # "all"
    BY <1>4, TaskFacts DEF AllCommands, Dirs
  <2>3. \E d \in Dirs : QueuePortCommand(c.cmd, d)
    BY <2>2 DEF SendCommand
  <2>4. QED
    BY <1>1, <1>2, <2>1, <2>2, <2>3, QueuePortSent
<1>5. QED
  BY <1>3, <1>4

LEMMA ClientSent ==
  ASSUME IInv, Flow, SentHere, PausesOnlyWhatRuns, Client PROVE SentHere'
<1>1. ASSUME NEW c \in {m[2] : m \in {m \in MaySend : m[1] = state}}, SendCommand(c)
      PROVE  SentHere'
  <2>1. <<state, c>> \in MaySend /\ c \in StateCommands \cup PortCommands \cup AllCommands
    BY <1>1, ClientAssumption
  <2>2. QED
    BY <1>1, <2>1, SendCommandSent
<1>2. CASE SendSecondHalf
  <2>1. /\ half.cmd \in {"Flush", "DisablePort", "EnablePort"} /\ "out" \in Dirs
        /\ QueuePortCommand(half.cmd, "out") /\ UNCHANGED mainVars /\ half # NoTask
    BY <1>2 DEF SendSecondHalf, IInv, TypeOK, ClientTypeOK, AllCommands, Dirs
  <2>2. QED
    BY <2>1, QueuePortSent DEF SentHere
<1>3. ASSUME NEW e \in BufferTasks, mainQ' = Append(mainQ, e),
             UNCHANGED <<state, main, half, outstanding>>
      PROVE  SentHere'
  <2>1. e \in MainTasks /\ e \notin ClientStates /\ e \notin OwnStates
        /\ e \notin PortCommands /\ e \notin PauseTasks
    BY <1>3, TaskSets DEF MainTasks, OwnStates
  <2>2. QED
    BY <1>3, <2>1, OnWayAppend DEF SentHere
<1>4. ASSUME NEW b \in InBuffers, NEW k \in Kinds, EmptyThisBuffer(b, k) PROVE SentHere'
  <2>1. [cmd |-> "EmptyBuffer", data |-> b, kind |-> k] \in BufferTasks
    BY ClientAssumption DEF BufferTasks, EmptyTasks
  <2>2. QED
    BY <1>3, <1>4, <2>1 DEF EmptyThisBuffer, stateVars, mainVars
<1>5. ASSUME NEW b \in Buffers, FillThisBuffer(b) PROVE SentHere'
  <2>1. [cmd |-> "FillBuffer", data |-> b] \in BufferTasks
    BY <1>5 DEF FillThisBuffer, BufferTasks, FillTasks
  <2>2. QED
    BY <1>3, <1>5, <2>1 DEF FillThisBuffer, stateVars, mainVars
<1>6. ASSUME \/ \E b \in Buffers : UseBuffer(b) \/ FreeBuffer(b)
             \/ \E d \in Dirs : UseBufferFails(d)
      PROVE  SentHere'
  <2>1. UNCHANGED <<state, mainQ, main, half, outstanding>>
    BY <1>6 DEF UseBuffer, FreeBuffer, UseBufferFails, stateVars, mainVars
  <2>2. QED
    BY <2>1, SentFrame
<1>7. QED
  BY <1>1, <1>2, <1>4, <1>5, <1>6 DEF Client

LEMMA OthersSent == ASSUME IInv, SentHere, Workers \/ Codec \/ UNCHANGED vars PROVE SentHere'
<1>1. CASE CodecError
  <2> DEFINE e == [cmd |-> "SetState", data |-> "Invalid", opt |-> TRUE]
  <2>1. e \in StateTasks /\ e \in MainTasks /\ e.opt /\ e.data = "Invalid"
    BY DEF StateTasks, MainTasks, States
  <2>2. e \notin ClientStates /\ e \notin OwnStates /\ e \notin PortCommands /\ e \notin PauseTasks
    BY <2>1, TaskSets DEF OwnStates
  <2>3. mainQ' = Append(mainQ, e) /\ UNCHANGED <<state, main, half, outstanding>>
    BY <1>1 DEF CodecError, stateVars, mainVars
  <2> HIDE DEF e
  <2>4. QED
    BY <2>1, <2>2, <2>3, OnWayAppend DEF SentHere
<1>2. CASE Workers
  <2>1. UNCHANGED <<state, mainQ, main, half, outstanding>>
    BY <1>2 DEF Workers, Worker, WorkerPop, WorkerPassFence, WorkerReturn, WorkerKeep,
       WorkerFill, WorkerEmpty, WorkerEos, stateVars, mainVars
  <2>2. QED
    BY <2>1, SentFrame
<1>3. CASE \/ \E b \in Buffers : CodecReturns(b)
           \/ CodecEos \/ CodecFinishesEos \/ UNCHANGED vars
  <2>1. UNCHANGED <<state, mainQ, main, half, outstanding>>
    BY <1>3 DEF CodecReturns, CodecEos, CodecFinishesEos, CodecEosIn, CodecEosOut,
       CodecEosClear, vars, stateVars, mainVars
  <2>2. QED
    BY <2>1, SentFrame
<1>4. QED
  BY <1>1, <1>2, <1>3 DEF Codec

\* nothing new is on its way, and the state stays
LEMMA LessOnWay ==
  ASSUME IInv, SentHere, UNCHANGED <<state, half>>, outstanding' <= outstanding,
         outstanding' \in Int, \A T : OnWay(T)' => OnWay(T) \/ NoTask \in T
  PROVE  SentHere'
<1>1. NoTask \notin ClientStates /\ NoTask \notin OwnStates /\ NoTask \notin PortCommands
      /\ NoTask \notin PauseTasks
  BY TaskSets DEF OwnStates
<1>2. outstanding \in Int
  BY DEF IInv, TypeOK, ClientTypeOK
<1>3. QED
  BY <1>1, <1>2 DEF SentHere

LEMMA MainSent == ASSUME IInv, Transit, Flow, SentHere, Main PROVE SentHere'
<1>1. outstanding \in Int
  BY DEF IInv, TypeOK, ClientTypeOK
<1>2. CASE MainDispatch
  <2>1. UNCHANGED <<state, half, outstanding, main>> /\ mainQ # <<>> /\ mainQ' = Tail(mainQ)
    BY <1>2 DEF MainDispatch, stateVars, mainVars
  <2>2. \A T : OnWay(T)' => OnWay(T)
    BY <2>1, OnWayTail
  <2>3. outstanding' <= outstanding /\ outstanding' \in Int
    BY <1>1, <2>1
  <2>4. QED
    BY <2>1, <2>2, <2>3, LessOnWay
<1>3. CASE MainTake
  <2>1. UNCHANGED <<state, half>> /\ mainQ # <<>> /\ mainQ' = Tail(mainQ)
        /\ (main' = main \/ main'.task = Head(mainQ))
        /\ outstanding' \in {outstanding, outstanding - 1}
    BY <1>3 DEF MainTake, stateVars, mainVars
  <2>2. \A T : OnWay(T)' => OnWay(T)
    BY <2>1, OnWayTail
  <2>3. outstanding' <= outstanding /\ outstanding' \in Int
    BY <1>1, <2>1
  <2>4. QED
    BY <2>1, <2>2, <2>3, LessOnWay
<1>4. CASE MainSwitch
  <2>1. /\ main.pc = "switch" /\ UNCHANGED <<mainQ, half>> /\ main'.task = NoTask
        /\ main.task \in StateTasks /\ CheckStateTransition(state, main.task.data) = "None"
    BY <1>4 DEF MainSwitch, Answer, Transit, IInv, TaskOfPc, SetStatePc
  <2>2. main.task.data # "Invalid"
    BY <2>1 DEF CheckStateTransition
  <2>3. main.task \in ClientStates
    BY <2>1, <2>2, TaskSets DEF SentHere, OnWay, OwnStates
  <2>4. half = NoTask /\ \A i \in DOMAIN mainQ : mainQ[i] \notin CommandTasks
    BY <2>3, TaskSets, NoneBehind DEF SentHere, OnWay, Flow
  <2>5. NoTask \notin ClientStates /\ NoTask \notin OwnStates /\ NoTask \notin PortCommands
        /\ NoTask \notin PauseTasks
    BY TaskSets DEF OwnStates
  <2>6. ~OnWay(ClientStates)' /\ ~OnWay(OwnStates)' /\ ~OnWay(PortCommands)' /\ ~OnWay(PauseTasks)'
    BY <2>1, <2>4, <2>5, TaskSets DEF OnWay, SentHere
  <2>7. QED
    BY <2>1, <2>4, <2>6 DEF SentHere
<1>5. CASE ~MainDispatch /\ ~MainTake /\ ~MainSwitch
  <2>1. UNCHANGED <<mainQ, half>>
    BY <1>5, PlaceOfStep
  <2>2. main'.task \in {main.task, NoTask} /\ outstanding' \in {outstanding, outstanding - 1}
    <3>1. Answer \/ GiveUp \/ (UNCHANGED outstanding /\ \E pc : Goto(pc))
      BY <1>5 DEF Main, MainUnblock, MainSwap, MainJoin, MainReblock, MainCheck, MainPopulate,
         MainUnpopulate, MainStart, MainStop, MainInvalid, MainRestart, MainFlushEos,
         MainBlock, MainRestartPort, MainWaitEmpty, MainWaitFull, MainReopen, MainEnabled
    <3>2. \A pc : Goto(pc) => main'.task = main.task
      BY DEF Goto, IInv, TypeOK, MainTypeOK
    <3>3. QED
      BY <1>1, <3>1, <3>2 DEF Answer, GiveUp
  <2>3. \A T : OnWay(T)' => OnWay(T) \/ NoTask \in T
    BY <2>1, <2>2 DEF OnWay
  <2>4. outstanding' <= outstanding /\ outstanding' \in Int
    BY <1>1, <2>2
  <2>5. CASE UNCHANGED state
    BY <2>1, <2>3, <2>4, <2>5, LessOnWay
  <2>6. CASE ~UNCHANGED state
    <3>1. state' = "Invalid"
      BY <1>5, <2>6 DEF Main, MainUnblock, MainSwap, MainJoin, MainReblock, MainCheck,
         MainPopulate, MainUnpopulate, MainStart, MainStop, MainInvalid, MainRestart,
         MainFlushEos, MainBlock, MainRestartPort, MainWaitEmpty, MainWaitFull, MainReopen,
         MainEnabled, stateVars
    <3>2. QED
      BY <1>1, <2>1, <2>2, <2>3, <3>1, TaskSets DEF SentHere, OwnStates, IInv, TypeOK, ClientTypeOK
  <2>7. QED
    BY <2>5, <2>6
<1>6. QED
  BY <1>2, <1>3, <1>4, <1>5

\* what a worker does
LEMMA WorkersDo ==
  ASSUME Workers
  PROVE  /\ UNCHANGED <<state, main, todo>>
         /\ \E d \in Dirs :
              \/ WorkerPop(d)
              \/ Finish(d) /\ (HasBuffer(d) \/ WorkerPassFence(d))
<1>1. UNCHANGED <<state, main, todo>>
  BY DEF Workers, Worker, WorkerPop, WorkerPassFence, WorkerReturn, WorkerKeep, WorkerFill,
     WorkerEmpty, WorkerEos, stateVars, mainVars
<1>2. "in" \in Dirs /\ "out" \in Dirs
  BY DEF Dirs
<1>3. \E d \in Dirs : WorkerPop(d) \/ (Finish(d) /\ (HasBuffer(d) \/ WorkerPassFence(d)))
  <2>1. \A d \in Dirs : Worker(d) =>
          WorkerPop(d) \/ (Finish(d) /\ (HasBuffer(d) \/ WorkerPassFence(d)))
    <3>1. \A d : WorkerPassFence(d) => Finish(d)
      BY DEF WorkerPassFence
    <3>2. \A d : WorkerReturn(d) => Finish(d) /\ HasBuffer(d)
      BY DEF WorkerReturn
    <3>3. QED
      BY <3>1, <3>2 DEF Worker
  <2>2. WorkerKeep \/ WorkerFill => Finish("out") /\ HasBuffer("out")
    BY DEF WorkerKeep, WorkerFill, Processes
  <2>3. WorkerEmpty \/ WorkerEos => Finish("in") /\ HasBuffer("in")
    BY DEF WorkerEmpty, WorkerEos, Processes
  <2>4. QED
    BY <1>2, <2>1, <2>2, <2>3 DEF Workers
<1>4. QED
  BY <1>1, <1>3

\* only a flush goes on flushing
LEMMA FlushSteps ==
  ASSUME IInv, Main, main'.pc \in FlushPc
  PROVE  MainDispatch \/ MainTake \/ MainUnblock \/ MainSwap \/ MainJoin
<1>1. CASE MainReblock
  BY <1>1, ReblockStep DEF FlushPc
<1>2. CASE MainCheck
  BY <1>2, CheckStep DEF FlushPc
<1>3. CASE \/ \E d \in Dirs : MainPopulate(d) \/ MainUnpopulate(d)
           \/ MainStart \/ MainStop
  BY <1>3, SetStateSteps DEF FlushPc
<1>4. CASE \/ MainRestart \/ MainFlushEos \/ MainBlock \/ MainRestartPort \/ MainWaitEmpty
           \/ MainWaitFull \/ MainReopen \/ MainEnabled \/ MainSwitch \/ MainInvalid
  BY <1>4, PortSteps DEF FlushPc
<1>5. QED
  BY <1>1, <1>2, <1>3, <1>4 DEF Main

LEMMA NextFlushOfState ==
  ASSUME IInv, FlushPlace, [Next]_vars, main'.pc \in FlushPc, main'.task \in StateTasks
  PROVE  state' = "Executing"
<1>1. CASE Client \/ Workers \/ Codec \/ MainDispatch \/ UNCHANGED vars
  BY <1>1, OthersKeepPlace DEF FlushPlace
<1>2. CASE MainTake
  <2>1. CASE main' = main /\ main.pc = "take"
    BY <2>1 DEF FlushPc
  <2>2. CASE main' = [pc |-> BeginsWith(Head(mainQ)), task |-> Head(mainQ)]
    <3>1. BeginsWith(main'.task) \in FlushPc /\ main'.task.cmd = "SetState"
      BY <2>2, TaskFacts
    <3>2. FlushingRequired(state, main'.task.data)
      BY <3>1 DEF BeginsWith, FlushPc
    <3>3. QED
      BY <1>2, <3>2, FlushFrom, TakeStep
  <2>3. QED
    BY <1>2, <2>1, <2>2, TakeStep
<1>3. CASE MainUnblock \/ MainSwap \/ MainJoin
  <2>1. \E pc \in {"swap", "join", "reblock"} : Goto(pc)
    BY <1>3 DEF MainUnblock, MainSwap, MainJoin
  <2>2. main'.task = main.task
    BY <2>1, GotoType DEF IInv, TypeOK, MainPc
  <2>3. main.pc \in FlushPc /\ UNCHANGED state
    BY <1>3 DEF MainUnblock, MainSwap, MainJoin, FlushPc, stateVars
  <2>4. QED
    BY <2>2, <2>3 DEF FlushPlace
<1>4. QED
  BY <1>1, <1>2, <1>3, FlushSteps DEF Next

LEMMA NextHandlers == ASSUME IInv, Handlers, [Next]_vars PROVE Handlers'
<1> USE DEF IInv, TypeOK, WorkersTypeOK
<1>1. CASE Client \/ Codec \/ UNCHANGED vars
  <2>1. UNCHANGED <<main, todo>>
    BY <1>1, OthersKeepPlace, OthersKeepDrained
  <2>2. \A c : SendCommand(c) => UNCHANGED <<handler, worker>>
    BY DEF SendCommand, workerVars
  <2>3. UNCHANGED <<handler, worker>>
    BY <1>1, <2>2 DEF Client, SendSecondHalf, UseBuffer, FreeBuffer, FillThisBuffer,
       EmptyThisBuffer, UseBufferFails, Codec, CodecReturns, CodecEos, CodecFinishesEos,
       CodecEosIn, CodecEosOut, CodecEosClear, CodecError, vars, workerVars
  <2>4. QED
    BY <2>1, <2>3 DEF Handlers, Flushed
<1>2. CASE Workers
  <2>1. UNCHANGED <<main, todo, handler>>
    BY <1>2, WorkersDo DEF WorkerPop, Finish
  <2>2. PICK d \in Dirs : WorkerPop(d) \/ Finish(d)
    BY <1>2, WorkersDo
  <2>3. /\ \A e \in Dirs : e # d => worker'[e] = worker[e]
        /\ worker'[d].by = "none" \/ worker'[d].by = handler[d]
    BY <2>2 DEF WorkerPop, Finish, Idling
  <2>4. QED
    BY <2>1, <2>3 DEF Handlers, Flushed
<1>3. CASE MainSwap
  <2>1. main.pc = "swap" /\ main'.pc = "join" /\ UNCHANGED <<todo, worker>>
    BY <1>3, GotoType DEF MainSwap, MainPc
  <2>2. /\ handler'[Flushed] = "delete" \/ Flushed \notin Dirs
        /\ \A d \in Dirs : d # Flushed => handler'[d] = handler[d]
    BY <1>3 DEF MainSwap
  <2>3. Flushed' = Flushed
    BY <2>1 DEF Flushed
  <2>4. QED
    BY <2>1, <2>2, <2>3 DEF Handlers
<1>4. CASE MainJoin
  <2>1. /\ Flushed \in Dirs /\ worker[Flushed] = Idling /\ UNCHANGED worker
        /\ handler' = [handler EXCEPT ![Flushed] = "process"]
    BY <1>4, JoinStep DEF MainJoin
  <2>2. \A d \in Dirs : handler'[d] # "delete" /\ worker'[d].by # "delete"
    BY <2>1 DEF Handlers, Idling
  <2>3. QED
    BY <2>2 DEF Handlers
<1>5. CASE Main /\ ~MainSwap /\ ~MainJoin
  <2>1. main.pc # "join" /\ UNCHANGED handler
    BY <1>5 DEF Main, MainDispatch, MainTake, MainUnblock, MainReblock, MainCheck,
       MainPopulate, MainUnpopulate, MainStart, MainStop, MainSwitch, MainInvalid,
       MainRestart, MainFlushEos, MainBlock, MainRestartPort, MainWaitEmpty, MainWaitFull,
       MainReopen, MainEnabled, Block, Unblock, workerVars
  <2>2. \A d \in Dirs : handler'[d] # "delete" /\ worker[d].by # "delete"
    BY <2>1 DEF Handlers
  <2>3. UNCHANGED worker \/ Unblock
    BY <1>5 DEF Main, MainDispatch, MainTake, MainUnblock, MainReblock, MainCheck,
       MainPopulate, MainUnpopulate, MainStart, MainStop, MainSwitch, MainInvalid,
       MainRestart, MainFlushEos, MainBlock, MainRestartPort, MainWaitEmpty, MainWaitFull,
       MainReopen, MainEnabled, Block, workerVars
  <2>4. ASSUME NEW d \in Dirs PROVE worker'[d].by = worker[d].by
    <3>1. worker'[d] = worker[d] \/ worker'[d] = [worker[d] EXCEPT !.task = Released(@)]
      BY <2>3 DEF Unblock
    <3>2. worker[d] \in Popped \/ worker[d] = Idling
      OBVIOUS
    <3>3. QED
      BY <3>1, <3>2 DEF Popped, Idling
  <2>5. QED
    BY <2>2, <2>4 DEF Handlers
<1>6. QED
  BY <1>1, <1>2, <1>3, <1>4, <1>5 DEF Next

(* Where the closed fences are                                              *)

\* what a step of a worker does to its fences
LEMMA WorkerFences ==
  ASSUME IInv, Handlers, main.pc # "join" \/ \A d \in Dirs : ~pause[d],
         NEW d \in Dirs, pause[d], worker[d].task = ClosedFence
  PROVE  ~HasBuffer(d) /\ ~WorkerPassFence(d) /\ worker[d] # Idling
<1>1. worker[d] # Idling /\ ~HasBuffer(d) /\ ~ClosedFence.open
  BY FenceTypes, TaskFacts DEF Idling, HasBuffer, ClosedFence
<1>2. worker[d] \in Popped /\ worker[d].by # "delete"
  BY <1>1 DEF IInv, TypeOK, WorkersTypeOK, Handlers
<1>3. worker[d].by = "process"
  BY <1>2 DEF Popped
<1>4. QED
  BY <1>1, <1>3 DEF WorkerPassFence

LEMMA PopsFence ==
  ASSUME IInv, NEW d \in Dirs, WorkerPop(d), NEW i \in DOMAIN fifo[d], fifo[d][i] = ClosedFence
  PROVE  \/ worker'[d].task = ClosedFence /\ i = 1
         \/ /\ i # 1 /\ i - 1 \in DOMAIN fifo'[d] /\ fifo'[d][i - 1] = ClosedFence
            /\ worker'[d].task = fifo[d][1] /\ 1 \in DOMAIN fifo[d] /\ i > 1
            /\ \A j \in DOMAIN fifo'[d] : j + 1 \in DOMAIN fifo[d] /\ fifo'[d][j] = fifo[d][j + 1]
<1>1. /\ fifo[d] \in Seq(Fences \cup BufferTasks) /\ fifo[d] # <<>>
      /\ fifo'[d] = Tail(fifo[d]) /\ worker'[d].task = Head(fifo[d])
  BY DEF WorkerPop, IInv, TypeOK, WorkersTypeOK
<1>2. /\ Len(fifo[d]) \in Nat /\ DOMAIN fifo[d] = 1..Len(fifo[d]) /\ Head(fifo[d]) = fifo[d][1]
      /\ DOMAIN fifo'[d] = 1..(Len(fifo[d]) - 1)
      /\ \A j \in DOMAIN fifo'[d] : fifo'[d][j] = fifo[d][j + 1]
  BY <1>1
<1>3. QED
  BY <1>1, <1>2

LEMMA NextFenceThere == ASSUME IInv, Handlers, FenceThere, [Next]_vars PROVE FenceThere'
<1> USE DEF IInv, TypeOK, WorkersTypeOK
<1>1. CASE UNCHANGED <<fifo, worker, pause>>
  BY <1>1 DEF FenceThere
<1>2. CASE Client \/ Codec \/ UNCHANGED vars
  <2>1. \A c : SendCommand(c) => UNCHANGED <<fifo, worker, pause>>
    BY DEF SendCommand, workerVars
  <2>2. UNCHANGED <<fifo, worker, pause>>
    BY <1>2, <2>1 DEF Client, SendSecondHalf, UseBuffer, FreeBuffer, FillThisBuffer,
       EmptyThisBuffer, UseBufferFails, Codec, CodecReturns, CodecEos, CodecFinishesEos,
       CodecEosIn, CodecEosOut, CodecEosClear, CodecError, vars, workerVars
  <2>3. QED
    BY <1>1, <2>2
<1>3. CASE Workers
  <2>1. PICK d \in Dirs : WorkerPop(d) \/ (Finish(d) /\ (HasBuffer(d) \/ WorkerPassFence(d)))
    BY <1>3, WorkersDo
  <2>2. /\ pause' = pause
        /\ \A e \in Dirs : e # d => fifo'[e] = fifo[e] /\ worker'[e] = worker[e]
    BY <2>1 DEF WorkerPop, Finish
  <2>3. main.pc # "join" \/ \A e \in Dirs : ~pause[e]
    BY DEF OpenWhileFlushing
  <2>4. ASSUME pause[d]
        PROVE  worker'[d].task = ClosedFence \/ \E i \in DOMAIN fifo'[d] : fifo'[d][i] = ClosedFence
    <3>1. worker[d].task # ClosedFence
      BY <2>1, <2>3, <2>4, WorkerFences DEF WorkerPop
    <3>2. PICK i \in DOMAIN fifo[d] : fifo[d][i] = ClosedFence
      BY <2>4, <3>1 DEF FenceThere
    <3>3. CASE WorkerPop(d)
      BY <3>2, <3>3, PopsFence
    <3>4. CASE Finish(d)
      BY <3>2, <3>4 DEF Finish
    <3>5. QED
      BY <2>1, <3>3, <3>4
  <2>5. QED
    BY <2>2, <2>4 DEF FenceThere
<1>4. CASE MainDispatch
  <2>1. PICK d \in Dirs : fifo' = [fifo EXCEPT ![d] = Append(@, Head(mainQ))]
    BY <1>4 DEF MainDispatch, Dirs
  <2>2. UNCHANGED <<worker, pause>> /\ fifo[d] \in Seq(Fences \cup BufferTasks)
    BY <1>4 DEF MainDispatch
  <2>3. fifo'[d] = Append(fifo[d], Head(mainQ)) /\ \A e \in Dirs : e # d => fifo'[e] = fifo[e]
    BY <2>1
  <2>4. \A i \in DOMAIN fifo[d] : i \in DOMAIN fifo'[d] /\ fifo'[d][i] = fifo[d][i]
    BY <2>2, <2>3
  <2>5. \A e \in Dirs : \A i \in DOMAIN fifo[e] : i \in DOMAIN fifo'[e] /\ fifo'[e][i] = fifo[e][i]
    BY <2>3, <2>4
  <2>6. QED
    BY <2>2, <2>5 DEF FenceThere
<1>5. ASSUME NEW ds \in SUBSET Dirs, Block(ds) PROVE FenceThere'
  <2>1. ASSUME NEW d \in Dirs, pause'[d]
        PROVE  worker'[d].task = ClosedFence \/ \E i \in DOMAIN fifo'[d] : fifo'[d][i] = ClosedFence
    <3>1. fifo[d] \in Seq(Fences \cup BufferTasks) /\ worker' = worker
      BY <1>5 DEF Block
    <3>2. CASE d \in ds /\ ~pause[d]
      <4>1. fifo'[d] = Append(fifo[d], ClosedFence)
        BY <1>5, <3>2 DEF Block
      <4>2. ClosedFence \in Fences \cup BufferTasks
        BY FenceTypes
      <4>3. Len(fifo[d]) + 1 \in DOMAIN fifo'[d] /\ fifo'[d][Len(fifo[d]) + 1] = ClosedFence
        BY <3>1, <4>1, <4>2
      <4>4. QED
        BY <4>3
    <3>3. CASE ~(d \in ds /\ ~pause[d])
      <4>1. fifo'[d] = fifo[d] /\ pause[d]
        BY <1>5, <2>1, <3>3 DEF Block
      <4>2. QED
        BY <3>1, <4>1 DEF FenceThere
    <3>4. QED
      BY <3>2, <3>3
  <2>2. QED
    BY <2>1 DEF FenceThere
<1>6. CASE Unblock
  BY <1>6 DEF Unblock, FenceThere
<1>7. CASE Main /\ ~MainDispatch
  <2>1. UNCHANGED <<fifo, worker, pause>> \/ Unblock \/ \E ds \in SUBSET Dirs : Block(ds)
    <3>1. {"out"} \cup (IF ShouldPrealloc THEN {"in"} ELSE {}) \in SUBSET Dirs
          /\ Dirs \in SUBSET Dirs /\ reblock \in SUBSET Dirs
      BY DEF Dirs, MainTypeOK
    <3>2. CASE MainReblock \/ MainSwitch \/ MainBlock
      BY <3>1, <3>2 DEF MainReblock, MainSwitch, MainBlock, workerVars
    <3>3. CASE ~(MainReblock \/ MainSwitch \/ MainBlock)
      BY <1>7, <3>3 DEF Main, MainTake, MainUnblock, MainSwap, MainJoin, MainCheck,
         MainPopulate, MainUnpopulate, MainStart, MainStop, MainInvalid, MainRestart,
         MainFlushEos, MainRestartPort, MainWaitEmpty, MainWaitFull, MainReopen,
         MainEnabled, workerVars
    <3>4. QED
      BY <3>2, <3>3
  <2>2. QED
    BY <1>1, <1>5, <1>6, <2>1
<1>8. QED
  BY <1>2, <1>3, <1>4, <1>7 DEF Next

\* the two ways a worker moves leave the fence in front
LEMMA WorkersHeldBack ==
  ASSUME IInv, Handlers, main.pc # "join", Workers, NEW e \in Dirs, HeldBack(e)
  PROVE  HeldBack(e)'
<1> USE DEF IInv, TypeOK, WorkersTypeOK
<1>1. PICK d \in Dirs : WorkerPop(d) \/ (Finish(d) /\ (HasBuffer(d) \/ WorkerPassFence(d)))
  BY WorkersDo
<1>2. CASE e # d
  <2>1. fifo'[e] = fifo[e] /\ worker'[e] = worker[e]
    BY <1>1, <1>2 DEF WorkerPop, Finish
  <2>2. QED
    BY <2>1 DEF HeldBack, HasBuffer
<1>3. CASE e = d
  <2>1. worker[d].task # ClosedFence
    <3>1. SUFFICES ASSUME worker[d].task = ClosedFence PROVE FALSE
      OBVIOUS
    <3>2. pause[d]
      BY <3>1 DEF FencesKnown
    <3>3. QED
      BY <1>1, <3>1, <3>2, WorkerFences DEF WorkerPop
  <2>2. PICK i \in DOMAIN fifo[d] :
          /\ fifo[d][i] = ClosedFence
          /\ \A j \in DOMAIN fifo[d] : j < i => fifo[d][j].cmd = "SharedFence"
    BY <1>3, <2>1 DEF HeldBack
  <2>3. i \in Nat
    BY <2>2
  <2>4. CASE WorkerPop(d)
    <3>1. CASE worker'[d].task = ClosedFence /\ i = 1
      BY <1>3, <3>1, TaskFacts, FenceTypes DEF HeldBack, HasBuffer
    <3>2. CASE /\ i # 1 /\ i - 1 \in DOMAIN fifo'[d] /\ fifo'[d][i - 1] = ClosedFence
               /\ worker'[d].task = fifo[d][1] /\ 1 \in DOMAIN fifo[d] /\ i > 1
               /\ \A j \in DOMAIN fifo'[d] :
                    j + 1 \in DOMAIN fifo[d] /\ fifo'[d][j] = fifo[d][j + 1]
      <4>1. ~HasBuffer(d)'
        BY <2>2, <2>3, <3>2 DEF HasBuffer
      <4>2. ASSUME NEW j \in DOMAIN fifo'[d], j < i - 1 PROVE fifo'[d][j].cmd = "SharedFence"
        <5>1. fifo'[d] \in Seq(Fences \cup BufferTasks)
          BY <2>4 DEF WorkerPop
        <5>2. j \in Nat /\ j + 1 < i
          BY <2>3, <4>2, <5>1
        <5>3. QED
          BY <2>2, <3>2, <4>2, <5>2
      <4>3. QED
        BY <1>3, <3>2, <4>1, <4>2 DEF HeldBack
    <3>3. QED
      BY <2>2, <2>4, <3>1, <3>2, PopsFence
  <2>5. CASE Finish(d)
    <3>1. fifo'[d] = fifo[d] /\ worker'[d] = Idling
      BY <2>5 DEF Finish
    <3>2. ~HasBuffer(d)'
      BY <3>1, TaskFacts DEF HasBuffer, Idling
    <3>3. QED
      BY <1>3, <2>2, <3>1, <3>2 DEF HeldBack
  <2>6. QED
    BY <1>1, <2>4, <2>5
<1>4. QED
  BY <1>2, <1>3

LEMMA HeldFrame ==
  ASSUME UNCHANGED <<fifo, worker>>, NEW d, HeldBack(d) PROVE HeldBack(d)'
BY DEF HeldBack, HasBuffer

LEMMA DispatchHeldBack ==
  ASSUME IInv, MainDispatch, NEW e \in Dirs, HeldBack(e) PROVE HeldBack(e)'
<1> USE DEF IInv, TypeOK, WorkersTypeOK
<1>1. PICK d \in Dirs : fifo' = [fifo EXCEPT ![d] = Append(@, Head(mainQ))]
  BY DEF MainDispatch, Dirs
<1>2. worker' = worker /\ fifo[e] \in Seq(Fences \cup BufferTasks)
  BY DEF MainDispatch
<1>3. fifo'[e] = fifo[e] \/ fifo'[e] = Append(fifo[e], Head(mainQ))
  BY <1>1
<1>4. /\ \A i \in DOMAIN fifo[e] : i \in DOMAIN fifo'[e] /\ fifo'[e][i] = fifo[e][i]
      /\ \A i \in DOMAIN fifo[e] : \A j \in DOMAIN fifo'[e] : j < i => j \in DOMAIN fifo[e]
  BY <1>2, <1>3
<1>5. ~HasBuffer(e)'
  BY <1>2 DEF HeldBack, HasBuffer
<1>6. CASE worker[e].task = ClosedFence
  BY <1>2, <1>5, <1>6 DEF HeldBack
<1>7. CASE worker[e].task # ClosedFence
  <2>1. PICK i \in DOMAIN fifo[e] :
          /\ fifo[e][i] = ClosedFence
          /\ \A j \in DOMAIN fifo[e] : j < i => fifo[e][j].cmd = "SharedFence"
    BY <1>7 DEF HeldBack
  <2>2. i \in DOMAIN fifo'[e] /\ fifo'[e][i] = ClosedFence
    BY <1>4, <2>1
  <2>3. \A j \in DOMAIN fifo'[e] : j < i => fifo'[e][j].cmd = "SharedFence"
    BY <1>4, <2>1
  <2>4. QED
    BY <1>5, <2>2, <2>3 DEF HeldBack
<1>8. QED
  BY <1>6, <1>7

\* on the way from Executing the FIFOs are empty but for fences, and one is closed
LEMMA PauseHeldBack ==
  ASSUME IInv, Transit, FlushKnown, SentHere, Handlers, FenceThere, FenceThere', MainSwitch,
         state' = "Pause", NEW d \in Dirs
  PROVE  HeldBack(d)'
<1> DEFINE new == main.task.data
<1>1. /\ main.pc = "switch" /\ new = "Pause" /\ CheckStateTransition(state, new) = "None"
      /\ main.task \in StateTasks /\ state \in States
  BY DEF MainSwitch, Transit, IInv, TypeOK, StateTypeOK, TaskOfPc, SetStatePc
<1>2. main.task \in PauseTasks
  BY <1>1, TaskSets DEF SentHere, OnWay, OwnStates, PauseTasks
<1>3. state = "Executing"
  BY <1>1, <1>2 DEF SentHere, OnWay, CheckStateTransition, Incorrect, States
<1>4. FlushingRequired(state, new) /\ ToPause(state, new)
  BY <1>1, <1>3 DEF FlushingRequired, ToPause, GetTransientState, TransientStates
<1>5. Drained(d) /\ Block(Dirs)
  BY <1>1, <1>4 DEF FlushKnown, MainSwitch
<1>6. Drained(d)' /\ pause'[d]
  BY <1>5, BlockDrained DEF Block
<1>7. QED
  BY <1>6 DEF FenceThere, Drained, HeldBack

LEMMA NextHeldBack ==
  ASSUME BInv, Flow, Still, FenceThere', [Next]_vars, state' = "Pause", NEW d \in Dirs
  PROVE  HeldBack(d)'
<1> USE DEF BInv, Still
<1>1. CASE MainSwitch
  BY <1>1, PauseHeldBack
<1>2. CASE ~MainSwitch
  <2>1. state = "Pause"
    <3>1. CASE Client \/ Workers \/ Codec \/ MainDispatch \/ UNCHANGED vars
      BY <3>1, OthersKeepPlace
    <3>2. CASE Main /\ ~MainDispatch
      BY <1>2, <3>2 DEF Main, MainTake, MainUnblock, MainSwap, MainJoin, MainReblock,
         MainCheck, MainPopulate, MainUnpopulate, MainStart, MainStop, MainInvalid,
         MainRestart, MainFlushEos, MainBlock, MainRestartPort, MainWaitEmpty, MainWaitFull,
         MainReopen, MainEnabled, stateVars
    <3>3. QED
      BY <3>1, <3>2 DEF Next
  <2>2. HeldBack(d) /\ main.task \notin PortCommands
    BY <2>1 DEF SentHere, OnWay
  <2>3. main.pc \notin FlushPc /\ main.pc \notin PortPc /\ main.pc # "join"
    BY <2>1, <2>2 DEF FlushPlace, IInv, TaskOfPc, FlushPc
  <2>4. CASE Client \/ Codec \/ UNCHANGED vars
    <3>1. \A c : SendCommand(c) => UNCHANGED <<fifo, worker>>
      BY DEF SendCommand, workerVars
    <3>2. UNCHANGED <<fifo, worker>>
      BY <2>4, <3>1 DEF Client, SendSecondHalf, UseBuffer, FreeBuffer, FillThisBuffer,
         EmptyThisBuffer, UseBufferFails, Codec, CodecReturns, CodecEos, CodecFinishesEos,
         CodecEosIn, CodecEosOut, CodecEosClear, CodecError, vars, workerVars
    <3>3. QED
      BY <2>2, <3>2, HeldFrame
  <2>5. CASE Workers
    BY <2>2, <2>3, <2>5, WorkersHeldBack
  <2>6. CASE MainDispatch
    BY <2>2, <2>6, DispatchHeldBack
  <2>7. CASE Main /\ ~MainDispatch
    <3>1. ~(MainUnblock \/ MainReblock \/ MainBlock \/ MainEnabled)
      BY <2>3 DEF MainUnblock, MainReblock, MainBlock, MainEnabled, FlushPc, PortPc
    <3>2. UNCHANGED <<fifo, worker>>
      BY <1>2, <2>7, <3>1 DEF Main, MainTake, MainSwap, MainJoin, MainCheck, MainPopulate,
         MainUnpopulate, MainStart, MainStop, MainInvalid, MainRestart, MainFlushEos,
         MainRestartPort, MainWaitEmpty, MainWaitFull, MainReopen, workerVars
    <3>3. QED
      BY <2>2, <3>2, HeldFrame
  <2>8. QED
    BY <2>4, <2>5, <2>6, <2>7 DEF Next
<1>3. QED
  BY <1>1, <1>2

LEMMA NextStill ==
  ASSUME BInv, Flow, Still, PausesOnlyWhatRuns, [Next]_vars PROVE Still'
<1>1. SentHere'
  BY ClientSent, OthersSent, MainSent DEF BInv, Still, Next
<1>2. FlushPlace'
  BY NextFlushOfState DEF BInv, Still, FlushPlace
<1>3. Handlers' /\ FenceThere'
  BY NextHandlers, NextFenceThere DEF BInv, Still
<1>4. QED
  BY <1>1, <1>2, <1>3, NextHeldBack DEF Still

LEMMA InitStill == Init => Still
<1>1. ASSUME Init PROVE Still
  <2>1. /\ state = "Loaded" /\ mainQ = <<>> /\ main.pc = "take" /\ main.task = NoTask
        /\ \A d \in Dirs : ~pause[d] /\ handler[d] = "process" /\ worker[d] = Idling
    BY <1>1 DEF Init
  <2>2. DOMAIN mainQ = {}
    BY <2>1
  <2>3. SentHere
    BY <2>1, <2>2, TaskSets DEF SentHere, OnWay, OwnStates
  <2>4. FlushPlace /\ Handlers /\ FenceThere
    BY <2>1 DEF FlushPlace, FlushPc, Handlers, FenceThere, Idling
  <2>5. QED
    BY <2>1, <2>3, <2>4 DEF Still
<1>2. QED
  BY <1>1

(* In Pause no worker hands a buffer to the module, if the client waits for its  *)
(* commands, pauses a component that executes and sends no port command in       *)
(* Pause: the flush on the way from Executing has emptied the FIFOs, and what     *)
(* is submitted later queues behind the fences.                                *)
THEOREM PausedIsStillHolds == ASSUME PausesOnlyWhatRuns PROVE Spec => []PausedIsStill
<1>1. BInv /\ Flow /\ Still /\ [Next]_vars => Flow' /\ Still'
  <2>1. MaxOutstanding <= 2
    BY BoundsAssumption DEF PausesOnlyWhatRuns
  <2>2. QED
    BY <2>1, NextFlow, NextStill DEF BInv
<1>2. Still => PausedIsStill
  BY DEF Still, PausedIsStill, Processes, HeldBack
<1>3. QED
  BY <1>1, <1>2, InitFlow, InitStill, BuffersInductive, PTL DEF Spec

-----------------------------------------------------------------------------
(* The ports of a component whose client waits for each command              *)

(* The client of component_answers: one SendCommand at a time, OMX_ALL counting *)
(* for one, no failing allocation and no FreeBuffer out of turn.               *)
OneAtATime == MaxOutstanding <= 1 /\ MaxMisuse = 0

UnloadTasks == {t \in ClientStates : t.data = "Loaded"}
Ask(cmd, d) == [cmd |-> cmd, data |-> d]

(* A change of state is the only command on its way; of an OMX_ALL command no   *)
(* more than the first half is on its way when the second is queued.           *)
Sole ==
  /\ OnWay(ClientStates) => half = NoTask /\ outstanding <= 1
  /\ ~OnWay(OwnStates)
  /\ half # NoTask => ~OnWay(CommandTasks \ {Ask(half.cmd, "in")})
  /\ misuse = 0 /\ \A d \in Dirs : ~portError[d]

\* each step of a port command has its command
StepsOfPorts ==
  /\ main.pc = "take" => main.task = NoTask
  /\ main.pc \in {"restart", "flushEos"} => main.task.cmd = "Flush"
  /\ main.pc \in {"block", "restartPort", "waitEmpty"} => main.task.cmd = "DisablePort"
  /\ main.pc \in {"waitFull", "reopen", "enabled"} => main.task.cmd = "EnablePort"

(* A port in transition has its command on the way.                            *)
Transition ==
  \A d \in Dirs :
    /\ toEnable[d] => OnWay({Ask("EnablePort", d)})
    /\ toDisable[d] => OnWay({Ask("DisablePort", d)}) /\ ~enable[d]
    /\ main.pc \in {"reopen", "enabled"} /\ main.task.data = d => ~toEnable[d]

(* transientState allows FreeBuffer as long as the way to Loaded lasts.         *)
Leaving == transientState = <<"Idle", "Loaded">>
LeavingKnown ==
  /\ Leaving =>
       \/ state = "Invalid"
       \/ /\ state = "Idle"
          /\ \/ \E i \in DOMAIN mainQ : mainQ[i] \in UnloadTasks
             \/ /\ main.task \in UnloadTasks
                /\ main.pc \in {"check", "unpopulateIn", "unpopulateOut"}
  /\ OnWay(UnloadTasks) /\ state = "Idle" /\ main.pc # "switch" => Leaving
  /\ main.pc \in {"unpopulateIn", "unpopulateOut"} => main.task \in UnloadTasks
  /\ main.pc = "unpopulateOut" => ~playable["in"]
  /\ main.pc = "stop" => state \in Playing

(* A port that is playable has its buffers, unless they are being freed.        *)
Full ==
  \A d \in Dirs :
    playable[d] => \/ toDisable[d] \/ Leaving \/ state = "Invalid"
                   \/ Cardinality(portBuffers[d]) >= Expected[d]

(* Out of Loaded, a port that is open is playable, until it is to be emptied.   *)
Served(d) == enable[d] => playable[d] \/ toEnable[d]
Ready ==
  /\ state \in {"Idle", "Executing", "Pause"} =>
       \/ Leaving \/ (main.pc = "switch" /\ main.task.data = "Loaded")
       \/ \A d \in Dirs : Served(d)
  /\ main.pc = "populateOut" => Served("in")
  /\ main.pc = "switch" /\ main.task.data = "Idle" /\ state \in {"Loaded", "WaitForResources"} =>
       \A d \in Dirs : Served(d)

Populated == Sole /\ StepsOfPorts /\ Transition /\ LeavingKnown /\ Full /\ Ready

\* what the parts of the invariant read
portsRead == <<stateVars, portVars, mainQ, main, half, outstanding, misuse>>

\* what stays on its way when "OMX - Sched" takes a task, and what does not
LEMMA OnWayKept ==
  ASSUME IInv, mainQ # <<>>, mainQ' = Tail(mainQ), NEW T, OnWay(T), main.task \notin T,
         main'.task = Head(mainQ) \/ Head(mainQ) \notin T
  PROVE  OnWay(T)'
<1>1. mainQ \in Seq(MainTasks)
  BY DEF IInv, TypeOK, MainTypeOK
<1>2. PICK i \in DOMAIN mainQ : mainQ[i] \in T
  BY DEF OnWay
<1>3. CASE i = 1
  BY <1>1, <1>2, <1>3, SequenceFacts DEF OnWay
<1>4. CASE i # 1
  <2>1. i - 1 \in DOMAIN mainQ' /\ mainQ'[i - 1] = mainQ[i]
    BY <1>1, <1>2, <1>4
  <2>2. QED
    BY <1>2, <2>1 DEF OnWay
<1>5. QED
  BY <1>3, <1>4

\* the sets of tasks the invariant speaks of
LEMMA UnloadFacts ==
  /\ UnloadTasks \subseteq ClientStates /\ UnloadTasks \subseteq CommandTasks
  /\ \A t \in UnloadTasks : t.cmd = "SetState" /\ t.data = "Loaded"
  /\ \A t \in BufferTasks : t \notin CommandTasks /\ t \notin OwnStates /\ t \notin UnloadTasks
  /\ NoTask \notin CommandTasks /\ NoTask \notin OwnStates /\ NoTask \notin UnloadTasks
  /\ \A cmd \in {"Flush", "DisablePort", "EnablePort"} : \A d \in Dirs :
       /\ Ask(cmd, d) \in PortCommands /\ Ask(cmd, d) \in CommandTasks
       /\ Ask(cmd, d) \in MainTasks /\ Ask(cmd, d) \notin ClientStates
       /\ Ask(cmd, d) \notin OwnStates /\ Ask(cmd, d) \notin UnloadTasks
       /\ Ask(cmd, d) # NoTask
  /\ \A t \in PortCommands : t = Ask(t.cmd, t.data)
<1>1. \A t \in ClientStates : t.cmd = "SetState"
  BY TaskFacts DEF ClientStates
<1>2. \A cmd \in {"Flush", "DisablePort", "EnablePort"} : \A d \in Dirs : Ask(cmd, d) \in PortCommands
  BY DEF Ask, PortCommands
<1>3. \A t \in PortCommands : t = Ask(t.cmd, t.data)
  BY DEF Ask, PortCommands
<1>4. \A t \in PortCommands : t \in MainTasks /\ t # NoTask /\ t \notin StateTasks
  BY TaskFacts DEF MainTasks
<1>5. OwnStates \subseteq StateTasks /\ UnloadTasks \subseteq ClientStates
  BY DEF OwnStates, UnloadTasks
<1>6. QED
  BY <1>1, <1>2, <1>3, <1>4, <1>5, TaskSets, CommandFacts DEF UnloadTasks

\* the component's own SetState(Invalid)
OwnError == [cmd |-> "SetState", data |-> "Invalid", opt |-> TRUE]
LEMMA OwnErrorFacts ==
  /\ OwnError \in MainTasks
  /\ OwnError \notin CommandTasks \cup OwnStates \cup UnloadTasks \cup ClientStates
<1>1. OwnError \in StateTasks /\ OwnError.opt /\ OwnError.data = "Invalid" /\ OwnError \in MainTasks
  BY DEF OwnError, StateTasks, MainTasks, States
<1>2. QED
  BY <1>1, TaskSets, UnloadFacts, CommandFacts DEF OwnStates

\* a buffer submitted, or an error of the codec
Queues(e) ==
  mainQ' = Append(mainQ, e) /\ UNCHANGED <<stateVars, portVars, main, half, outstanding, misuse>>

\* what the threads other than "OMX - Sched" do to what the invariant reads
LEMMA OtherSteps ==
  ASSUME IInv, Sole, OneAtATime, Client \/ Workers \/ Codec \/ UNCHANGED vars
  PROVE  \/ \E c \in StateCommands \cup PortCommands \cup AllCommands : SendCommand(c)
         \/ SendSecondHalf
         \/ \E b \in Buffers : UseBuffer(b) \/ FreeBuffer(b)
         \/ \E e \in BufferTasks \cup {OwnError} : Queues(e)
         \/ UNCHANGED portsRead
<1>1. ~(misuse < MaxMisuse)
  BY DEF Sole, OneAtATime
<1>2. ASSUME NEW c \in {m[2] : m \in {m \in MaySend : m[1] = state}}, SendCommand(c)
      PROVE  \E x \in StateCommands \cup PortCommands \cup AllCommands : SendCommand(x)
  BY <1>2, ClientAssumption
<1>3. ASSUME NEW b \in InBuffers, NEW k \in Kinds, EmptyThisBuffer(b, k)
      PROVE  \E e \in BufferTasks : Queues(e)
  <2>1. [cmd |-> "EmptyBuffer", data |-> b, kind |-> k] \in BufferTasks
    BY ClientAssumption DEF BufferTasks, EmptyTasks
  <2>2. QED
    BY <1>3, <2>1 DEF EmptyThisBuffer, mainVars, Queues
<1>4. ASSUME NEW b \in Buffers, FillThisBuffer(b) PROVE \E e \in BufferTasks : Queues(e)
  <2>1. [cmd |-> "FillBuffer", data |-> b] \in BufferTasks
    BY <1>4 DEF FillThisBuffer, BufferTasks, FillTasks
  <2>2. QED
    BY <1>4, <2>1 DEF FillThisBuffer, mainVars, countVars, Queues
<1>5. ASSUME NEW d \in Dirs, UseBufferFails(d) PROVE FALSE
  BY <1>1, <1>5 DEF UseBufferFails
<1>6. CASE CodecError
  BY <1>6 DEF CodecError, Queues, OwnError, mainVars
<1>7. CASE Workers
  BY <1>7 DEF Workers, Worker, WorkerPop, WorkerPassFence, WorkerReturn, WorkerKeep,
     WorkerFill, WorkerEmpty, WorkerEos, portsRead, mainVars, countVars
<1>8. CASE \/ \E b \in Buffers : CodecReturns(b)
           \/ CodecEos \/ CodecFinishesEos \/ UNCHANGED vars
  BY <1>8 DEF CodecReturns, CodecEos, CodecFinishesEos, CodecEosIn, CodecEosOut,
     CodecEosClear, vars, portsRead, mainVars, countVars
<1>9. CASE Client
  BY <1>2, <1>3, <1>4, <1>5, <1>9 DEF Client
<1>10. QED
  BY <1>6, <1>7, <1>8, <1>9 DEF Codec

LEMMA PortsFrame == ASSUME Populated, UNCHANGED portsRead PROVE Populated'
<1> USE DEF portsRead, stateVars, portVars
<1>1. Sole'
  BY DEF Populated, Sole, OnWay
<1>2. StepsOfPorts' /\ Transition'
  BY DEF Populated, StepsOfPorts, Transition, OnWay
<1>3. LeavingKnown' /\ Full'
  BY DEF Populated, LeavingKnown, Leaving, OnWay, Full
<1>4. Ready'
  BY DEF Populated, Ready, Leaving, Served
<1>5. QED
  BY <1>1, <1>2, <1>3, <1>4 DEF Populated

LEMMA QueuesPopulated ==
  ASSUME IInv, Populated, NEW e \in BufferTasks \cup {OwnError}, Queues(e)
  PROVE  Populated'
<1>1. e \in MainTasks /\ e \notin CommandTasks /\ e \notin OwnStates /\ e \notin UnloadTasks
      /\ e \notin ClientStates
  BY UnloadFacts, OwnErrorFacts, TaskSets DEF MainTasks
<1>2. /\ mainQ' = Append(mainQ, e)
      /\ UNCHANGED <<state, transientState, enable, toEnable, toDisable, playable, portError,
                     portBuffers, main, half, outstanding, misuse>>
  BY DEF Queues, stateVars, portVars
<1>3. \A T : OnWay(T)' <=> OnWay(T) \/ e \in T
  BY <1>1, <1>2, OnWayAppend
<1>4. \A i \in DOMAIN mainQ : i \in DOMAIN mainQ' /\ mainQ'[i] = mainQ[i]
  BY <1>1, <1>2, AheadAppend
<1>5. Sole'
  BY <1>1, <1>2, <1>3 DEF Populated, Sole
<1>6. StepsOfPorts' /\ Transition'
  BY <1>2, <1>3 DEF Populated, StepsOfPorts, Transition
<1>7. LeavingKnown'
  BY <1>1, <1>2, <1>3, <1>4 DEF Populated, LeavingKnown, Leaving
<1>8. Full' /\ Ready'
  BY <1>2 DEF Populated, Full, Ready, Leaving, Served
<1>9. QED
  BY <1>5, <1>6, <1>7, <1>8 DEF Populated

\* CreateCommand for one port, with no change of state on its way
LEMMA QueuePortPopulated ==
  ASSUME IInv, Populated, NEW cmd \in {"Flush", "DisablePort", "EnablePort"}, NEW d \in Dirs,
         QueuePortCommand(cmd, d), UNCHANGED <<main, misuse>>, ~OnWay(ClientStates),
         ~OnWay({Ask("EnablePort", d)}), ~OnWay({Ask("DisablePort", d)}),
         half' # NoTask => half'.cmd = cmd /\ d = "in" /\ ~OnWay(CommandTasks)
  PROVE  Populated'
<1> DEFINE e == Ask(cmd, d)
<1>1. /\ e \in MainTasks /\ e \in PortCommands /\ e \in CommandTasks
      /\ e \notin ClientStates /\ e \notin OwnStates /\ e \notin UnloadTasks
  BY UnloadFacts
<1>2. /\ mainQ' = Append(mainQ, e)
      /\ UNCHANGED <<state, transientState, playable, portError, portBuffers, main, misuse>>
      /\ \A x \in Dirs \ {d} : /\ enable'[x] = enable[x] /\ toEnable'[x] = toEnable[x]
                               /\ toDisable'[x] = toDisable[x]
      /\ enable'[d] = (IF cmd = "Flush" THEN enable[d] ELSE cmd = "EnablePort")
      /\ toEnable'[d] = (toEnable[d] \/ cmd = "EnablePort")
      /\ toDisable'[d] = (toDisable[d] \/ cmd = "DisablePort")
  <2>1. /\ mainQ' = Append(mainQ, e)
        /\ UNCHANGED <<state, transientState, playable, portError, portBuffers, main, misuse>>
    BY DEF QueuePortCommand, Ask
  <2>2. /\ enable \in [Dirs -> BOOLEAN] /\ toEnable \in [Dirs -> BOOLEAN]
        /\ toDisable \in [Dirs -> BOOLEAN]
    BY DEF IInv, TypeOK, PortsTypeOK
  <2>3. CASE cmd = "Flush"
    BY <2>1, <2>2, <2>3 DEF QueuePortCommand
  <2>4. CASE cmd = "EnablePort"
    BY <2>1, <2>2, <2>4 DEF QueuePortCommand
  <2>5. CASE cmd = "DisablePort"
    BY <2>1, <2>2, <2>5 DEF QueuePortCommand
  <2>6. QED
    BY <2>3, <2>4, <2>5
<1>e. e = Ask(cmd, d)
  OBVIOUS
<1> HIDE DEF e
<1>3. \A T : OnWay(T)' <=> OnWay(T) \/ e \in T
  BY <1>1, <1>2, OnWayAppend
<1>4. ~toEnable[d] /\ ~toDisable[d]
  BY DEF Populated, Transition
<1>5. Sole'
  <2>1. ~OnWay(ClientStates)' /\ ~OnWay(OwnStates)'
    BY <1>1, <1>3 DEF Populated, Sole
  <2>2. (half # NoTask => ~OnWay(CommandTasks \ {Ask(half.cmd, "in")}))'
    <3>1. ASSUME half' # NoTask PROVE ~OnWay(CommandTasks \ {e})'
      BY <1>1, <1>2, <1>3, <3>1 DEF OnWay
    <3>2. half' # NoTask => e = Ask(half'.cmd, "in")
      BY <1>e
    <3>3. QED
      BY <3>1, <3>2 DEF OnWay
  <2>3. QED
    BY <1>2, <2>1, <2>2 DEF Populated, Sole
<1>6. StepsOfPorts'
  BY <1>2 DEF Populated, StepsOfPorts
<1>7. Transition'
  <2>1. ASSUME NEW x \in Dirs \ {d}
        PROVE  /\ toEnable'[x] => OnWay({Ask("EnablePort", x)})'
               /\ toDisable'[x] => OnWay({Ask("DisablePort", x)})' /\ ~enable'[x]
               /\ main'.pc \in {"reopen", "enabled"} /\ main'.task.data = x => ~toEnable'[x]
    BY <1>2, <1>3, <2>1 DEF Populated, Transition
  <2>2. /\ toEnable'[d] => OnWay({Ask("EnablePort", d)})'
        /\ toDisable'[d] => OnWay({Ask("DisablePort", d)})' /\ ~enable'[d]
    BY <1>2, <1>3, <1>4, <1>e
  <2>3. ~(main.pc \in {"reopen", "enabled"} /\ main.task.data = d)
    <3>1. ASSUME main.pc \in {"reopen", "enabled"}, main.task.data = d PROVE FALSE
      <4>1. main.task \in PortCommands /\ main.task.cmd = "EnablePort"
        BY <3>1 DEF IInv, TaskOfPc, PortPc, Populated, StepsOfPorts
      <4>2. main.task = Ask("EnablePort", d)
        BY <3>1, <4>1, UnloadFacts
      <4>3. QED
        BY <4>2 DEF OnWay
    <3>2. QED
      BY <3>1
  <2>4. QED
    BY <1>2, <2>1, <2>2, <2>3 DEF Transition
<1>8. LeavingKnown'
  <2>1. ~OnWay(UnloadTasks) /\ ~OnWay(UnloadTasks)'
    BY <1>1, <1>3, UnloadFacts DEF OnWay
  <2>2. QED
    BY <1>2, <2>1 DEF Populated, LeavingKnown, Leaving, OnWay
<1>9. Full'
  <2>1. \A x \in Dirs : toDisable[x] => toDisable'[x]
    BY <1>2, <1>4
  <2>2. QED
    BY <1>2, <2>1 DEF Populated, Full, Leaving
<1>10. Ready'
  <2>1. \A x \in Dirs : Served(x) => Served(x)'
    BY <1>2, <1>4 DEF Served
  <2>2. "in" \in Dirs
    BY DEF Dirs
  <2>3. QED
    BY <1>2, <2>1, <2>2 DEF Populated, Ready, Leaving
<1>11. QED
  BY <1>5, <1>6, <1>7, <1>8, <1>9, <1>10 DEF Populated

\* a change of state queued while nothing else is on its way
LEMMA QueueStatePopulated ==
  ASSUME IInv, Populated, NEW s \in States, QueueStateCommand(s), UNCHANGED <<main, half, misuse>>,
         ~OnWay(CommandTasks), outstanding < 1, half = NoTask, state # "Invalid"
  PROVE  Populated'
<1> DEFINE e == [cmd |-> "SetState", data |-> s, opt |-> FALSE]
<1>1. /\ e \in StateTasks /\ e \in MainTasks /\ e \in ClientStates /\ e \notin OwnStates
      /\ e \in UnloadTasks <=> s = "Loaded"
  BY DEF StateTasks, MainTasks, ClientStates, OwnStates, UnloadTasks
<1>2. /\ mainQ' = Append(mainQ, e) /\ outstanding' = outstanding + 1
      /\ transientState' = GetTransientState(state, s)
      /\ UNCHANGED <<state, enable, toEnable, toDisable, playable, portError, portBuffers,
                     main, half, misuse>>
  BY DEF QueueStateCommand, portVars
<1> HIDE DEF e
<1>3. \A T : OnWay(T)' <=> OnWay(T) \/ e \in T
  BY <1>1, <1>2, OnWayAppend
<1>4. ~OnWay(ClientStates) /\ ~OnWay(UnloadTasks) /\ ~OnWay(PortCommands)
  BY TaskSets, UnloadFacts DEF OnWay
<1>5. Sole'
  <2>1. outstanding' <= 1
    BY <1>2 DEF IInv, TypeOK, ClientTypeOK
  <2>2. QED
    BY <1>1, <1>2, <1>3, <2>1 DEF Populated, Sole
<1>6. StepsOfPorts' /\ Transition'
  BY <1>2, <1>3 DEF Populated, StepsOfPorts, Transition
<1>7. ~Leaving
  BY <1>4 DEF Populated, LeavingKnown, OnWay
<1>8. Leaving' <=> state = "Idle" /\ s = "Loaded"
  BY <1>2 DEF Leaving, GetTransientState, TransientStates, MaxTransient
<1>9. \E i \in DOMAIN mainQ' : mainQ'[i] = e
  BY <1>1, <1>2, AheadAppend
<1>10. main.task \notin UnloadTasks
  BY <1>4 DEF OnWay
<1>11. LeavingKnown'
  BY <1>1, <1>2, <1>3, <1>4, <1>8, <1>9, <1>10 DEF Populated, LeavingKnown
<1>12. Full' /\ Ready'
  BY <1>2, <1>7 DEF Populated, Full, Ready, Served
<1>13. QED
  BY <1>5, <1>6, <1>11, <1>12 DEF Populated

LEMMA SendCommandPopulated ==
  ASSUME IInv, Flow, Populated, OneAtATime,
         NEW c \in StateCommands \cup PortCommands \cup AllCommands, SendCommand(c)
  PROVE  Populated'
<1>1. half = NoTask /\ UNCHANGED <<main, misuse>> /\ outstanding < 1 /\ state # "Invalid"
  <2>1. outstanding \in Int /\ MaxOutstanding \in Nat /\ outstanding < MaxOutstanding
    BY BoundsAssumption DEF SendCommand, IInv, TypeOK, ClientTypeOK
  <2>2. QED
    BY <2>1 DEF SendCommand, OneAtATime, mainVars, Refused
<1>2. ~OnWay(CommandTasks)
  BY <1>1, NoneUnanswered DEF Flow
<1>3. CASE c \in StateCommands
  <2>1. c.cmd = "SetState" /\ c.data \in States
    BY <1>3 DEF StateCommands
  <2>2. QED
    BY <1>1, <1>2, <2>1, QueueStatePopulated DEF SendCommand
<1>4. CASE c \notin StateCommands
  <2>1. /\ c.cmd \in {"Flush", "DisablePort", "EnablePort"}
        /\ c.data \in Dirs \/ c.data = "all"
        /\ c.data \in Dirs => c.data # "all"
    BY <1>4, TaskFacts DEF AllCommands, Dirs
  <2>2. \E d \in Dirs : /\ QueuePortCommand(c.cmd, d)
                        /\ half' # NoTask => half' = c /\ d = "in"
    BY <1>1, <2>1 DEF SendCommand, Dirs
  <2>3. /\ ~OnWay(ClientStates)
        /\ \A d \in Dirs : ~OnWay({Ask("EnablePort", d)}) /\ ~OnWay({Ask("DisablePort", d)})
    BY <1>2, TaskSets, UnloadFacts DEF OnWay
  <2>4. QED
    BY <1>1, <1>2, <2>1, <2>2, <2>3, QueuePortPopulated
<1>5. QED
  BY <1>3, <1>4

LEMMA SendSecondHalfPopulated ==
  ASSUME IInv, Populated, SendSecondHalf PROVE Populated'
<1>1. /\ half \in AllCommands /\ half' = NoTask /\ UNCHANGED <<main, misuse>>
      /\ QueuePortCommand(half.cmd, "out") /\ half # NoTask
  BY DEF SendSecondHalf, IInv, TypeOK, ClientTypeOK, mainVars, countVars
<1>2. half.cmd \in {"Flush", "DisablePort", "EnablePort"} /\ "out" \in Dirs
  BY <1>1 DEF AllCommands, Dirs
<1>3. ~OnWay(CommandTasks \ {Ask(half.cmd, "in")}) /\ ~OnWay(ClientStates)
  BY <1>1 DEF Populated, Sole
<1>4. \A cmd \in {"EnablePort", "DisablePort"} :
        Ask(cmd, "out") \in CommandTasks \ {Ask(half.cmd, "in")}
  BY <1>2, UnloadFacts DEF Ask
<1>5. ~OnWay({Ask("EnablePort", "out")}) /\ ~OnWay({Ask("DisablePort", "out")})
  BY <1>3, <1>4 DEF OnWay
<1>6. QED
  BY <1>1, <1>2, <1>3, <1>5, QueuePortPopulated

LEMMA AllocatePopulated ==
  ASSUME BInv, Flow, Populated, NEW b \in Buffers, UseBuffer(b)
  PROVE  Populated'
<1> DEFINE d == DirOf(b)
<1>1. /\ d \in Dirs /\ b \notin portBuffers[d] /\ MayAllocate(d)
      /\ portBuffers' = [portBuffers EXCEPT ![d] = @ \cup {b}]
      /\ playable' = [playable EXCEPT ![d] = @ \/ Cardinality(portBuffers'[d]) >= Expected[d]]
      /\ UNCHANGED <<state, transientState, enable, toEnable, toDisable, portError, mainQ, main,
                     half, outstanding, misuse>>
  BY BufferDirs DEF UseBuffer, stateVars, mainVars, countVars
<1>2. /\ playable \in [Dirs -> BOOLEAN] /\ portBuffers \in [Dirs -> SUBSET Buffers]
      /\ IsFiniteSet(Buffers) /\ Expected[d] \in Nat
  BY FS_Union, BuffersAssumption, ExpectedAssumption, <1>1
     DEF BInv, IInv, TypeOK, PortsTypeOK, Buffers
<1> HIDE DEF d
<1>3. \A x \in Dirs \ {d} : playable'[x] = playable[x] /\ portBuffers'[x] = portBuffers[x]
  BY <1>1, <1>2
<1>4. /\ portBuffers'[d] = portBuffers[d] \cup {b}
      /\ playable'[d] <=> playable[d] \/ Cardinality(portBuffers'[d]) >= Expected[d]
  BY <1>1, <1>2
<1>5. Cardinality(portBuffers'[d]) = Cardinality(portBuffers[d]) + 1
      /\ Cardinality(portBuffers[d]) \in Nat
  <2>1. IsFiniteSet(portBuffers[d])
    BY <1>1, <1>2, FS_Subset
  <2>2. QED
    BY <1>1, <1>4, <2>1, FS_AddElement, FS_CardinalityType
<1>6. Sole' /\ StepsOfPorts' /\ Transition'
  BY <1>1 DEF Populated, Sole, StepsOfPorts, Transition, OnWay
<1>7. ASSUME main.pc = "unpopulateOut" PROVE d # "in"
  <2>1. main.task \in UnloadTasks /\ state = "Idle"
    BY <1>7 DEF Populated, LeavingKnown, BInv, Transit
  <2>2. Leaving /\ outstanding <= 1 /\ main.task \in CommandTasks /\ main.task \notin PortCommands
    BY <1>7, <2>1, UnloadFacts, TaskSets DEF Populated, LeavingKnown, OnWay, Sole
  <2>3. \A i \in DOMAIN mainQ : mainQ[i] \notin CommandTasks
    BY <2>2, NoneBehind DEF BInv, Flow
  <2>4. ~OnWay({Ask("EnablePort", "in")})
    BY <2>2, <2>3, UnloadFacts DEF OnWay, Dirs
  <2>5. "in" \in Dirs
    BY DEF Dirs
  <2>6. ~toEnable["in"] /\ transientState # <<"Loaded", "Idle">>
    BY <2>2, <2>4, <2>5 DEF Populated, Transition, Leaving
  <2>7. QED
    BY <1>1, <2>6 DEF MayAllocate
<1>8. LeavingKnown'
  BY <1>1, <1>3, <1>7 DEF Populated, LeavingKnown, Leaving, OnWay, Dirs
<1>9. Full'
  <2>1. ASSUME NEW x \in Dirs, playable'[x]
        PROVE  \/ toDisable'[x] \/ Leaving' \/ state' = "Invalid"
               \/ Cardinality(portBuffers'[x]) >= Expected[x]
    <3>1. CASE x = d
      BY <1>1, <1>2, <1>4, <1>5, <2>1, <3>1 DEF Populated, Full, Leaving
    <3>2. CASE x # d
      BY <1>1, <1>3, <2>1, <3>2 DEF Populated, Full, Leaving
    <3>3. QED
      BY <3>1, <3>2
  <2>2. QED
    BY <2>1 DEF Full
<1>10. Ready'
  <2>1. \A x \in Dirs : Served(x) => Served(x)'
    BY <1>1, <1>3, <1>4 DEF Served
  <2>2. QED
    BY <1>1, <2>1 DEF Populated, Ready, Leaving, Dirs
<1>11. QED
  BY <1>6, <1>8, <1>9, <1>10 DEF Populated

LEMMA FreePopulated ==
  ASSUME IInv, Transit, Populated, OneAtATime, NEW b \in Buffers, FreeBuffer(b)
  PROVE  Populated'
<1> DEFINE d == DirOf(b)
<1>1. /\ d \in Dirs /\ MayFree(d)
      /\ portBuffers' = [portBuffers EXCEPT ![d] = @ \ {b}]
      /\ playable' = [playable EXCEPT ![d] = @ /\ portBuffers'[d] # {}]
      /\ UNCHANGED <<state, transientState, enable, toEnable, toDisable, portError, mainQ, main,
                     half, outstanding, misuse>>
  <2>1. ~(misuse < MaxMisuse)
    BY DEF Populated, Sole, OneAtATime
  <2>2. QED
    BY <2>1, BufferDirs DEF FreeBuffer, stateVars, mainVars, countVars
<1>2. playable \in [Dirs -> BOOLEAN] /\ portBuffers \in [Dirs -> SUBSET Buffers]
  BY DEF IInv, TypeOK, PortsTypeOK
<1> HIDE DEF d
<1>3. /\ \A x \in Dirs \ {d} : playable'[x] = playable[x] /\ portBuffers'[x] = portBuffers[x]
      /\ \A x \in Dirs : playable'[x] => playable[x]
  BY <1>1, <1>2
<1>4. Leaving \/ (toDisable[d] /\ ~enable[d])
  BY <1>1 DEF MayFree, Leaving, Populated, Transition
<1>5. Sole' /\ StepsOfPorts' /\ Transition'
  BY <1>1 DEF Populated, Sole, StepsOfPorts, Transition, OnWay
<1>6. LeavingKnown'
  BY <1>1, <1>3 DEF Populated, LeavingKnown, Leaving, OnWay, Dirs
<1>7. Full'
  BY <1>1, <1>3, <1>4 DEF Populated, Full, Leaving
<1>8. Ready'
  <2>1. CASE Leaving
    <3>1. state \in {"Idle", "Invalid"} /\ main.pc # "populateOut"
      BY <2>1 DEF Populated, LeavingKnown, Transit
    <3>2. QED
      BY <1>1, <2>1, <3>1 DEF Ready, Leaving
  <2>2. CASE ~enable[d]
    <3>1. \A x \in Dirs : Served(x) => Served(x)'
      BY <1>1, <1>3, <2>2 DEF Served
    <3>2. QED
      BY <1>1, <3>1 DEF Populated, Ready, Leaving, Dirs
  <2>3. QED
    BY <1>4, <2>1, <2>2
<1>9. QED
  BY <1>5, <1>6, <1>7, <1>8 DEF Populated

LEMMA OthersPopulated ==
  ASSUME BInv, Flow, Populated, OneAtATime, Client \/ Workers \/ Codec \/ UNCHANGED vars
  PROVE  Populated'
BY OtherSteps, PortsFrame, QueuesPopulated, SendCommandPopulated, SendSecondHalfPopulated,
   AllocatePopulated, FreePopulated DEF BInv, Populated

-----------------------------------------------------------------------------

\* a buffer handed to its worker
LEMMA DispatchPopulated ==
  ASSUME IInv, Populated, MainDispatch PROVE Populated'
<1>1. /\ main.pc = "take" /\ mainQ # <<>> /\ Head(mainQ) \in BufferTasks /\ mainQ' = Tail(mainQ)
      /\ UNCHANGED <<state, transientState, enable, toEnable, toDisable, playable, portError,
                     portBuffers, main, half, outstanding, misuse>>
  BY DEF MainDispatch, stateVars, portVars, mainVars, countVars
<1>2. main.task = NoTask
  BY <1>1 DEF Populated, StepsOfPorts
<1>3. \A T : OnWay(T)' => OnWay(T)
  BY <1>1, OnWayTail
<1>4. \A T : T \subseteq CommandTasks /\ OnWay(T) => OnWay(T)'
  BY <1>1, <1>2, OnWayKept, UnloadFacts
<1>5. Sole'
  BY <1>1, <1>3 DEF Populated, Sole
<1>6. StepsOfPorts'
  BY <1>1 DEF Populated, StepsOfPorts
<1>7. Transition'
  <2>1. \A d \in Dirs : \A cmd \in {"EnablePort", "DisablePort"} :
          OnWay({Ask(cmd, d)}) => OnWay({Ask(cmd, d)})'
    <3>1. ASSUME NEW d \in Dirs, NEW cmd \in {"EnablePort", "DisablePort"}
          PROVE  OnWay({Ask(cmd, d)}) => OnWay({Ask(cmd, d)})'
      <4>1. {Ask(cmd, d)} \subseteq CommandTasks
        BY UnloadFacts
      <4>2. QED
        BY <1>4, <4>1
    <3>2. QED
      BY <3>1
  <2>2. QED
    BY <1>1, <2>1 DEF Populated, Transition
<1>8. LeavingKnown'
  <2>1. OnWay(UnloadTasks) => OnWay(UnloadTasks)'
    BY <1>4, UnloadFacts
  <2>2. main.task \notin UnloadTasks
    BY <1>2, UnloadFacts
  <2>3. QED
    BY <1>1, <1>3, <2>1, <2>2 DEF Populated, LeavingKnown, Leaving, OnWay
<1>9. Full' /\ Ready'
  BY <1>1 DEF Populated, Full, Ready, Leaving, Served
<1>10. QED
  BY <1>5, <1>6, <1>7, <1>8, <1>9 DEF Populated

LEMMA TakePopulated ==
  ASSUME IInv, Populated, MainTake PROVE Populated'
<1> DEFINE t == Head(mainQ)
<1>1. /\ main.pc = "take" /\ mainQ # <<>> /\ t \notin BufferTasks /\ mainQ' = Tail(mainQ)
      /\ UNCHANGED <<state, transientState, enable, toEnable, toDisable, playable, portError,
                     portBuffers, half, misuse>>
      /\ outstanding' \in {outstanding, outstanding - 1}
      /\ \/ AlreadyDone(t) /\ main' = main
         \/ ~AlreadyDone(t) /\ main' = [pc |-> BeginsWith(t), task |-> t]
  BY DEF MainTake, stateVars, portVars, mainVars, countVars
<1>2. t \in StateTasks \cup PortCommands
  BY <1>1, SequenceFacts, MainTaskSplit DEF IInv, TypeOK, MainTypeOK
<1>3. main.task = NoTask
  BY <1>1 DEF Populated, StepsOfPorts
<1> HIDE DEF t
<1>t. t = Head(mainQ)
  BY DEF t
<1>4. \A T : OnWay(T)' => OnWay(T)
  BY <1>1, <1>t, OnWayTail
<1>5. ASSUME NEW T, T \subseteq CommandTasks, AlreadyDone(t) => t \notin T, OnWay(T)
      PROVE  OnWay(T)'
  <2>1. main.task \notin T /\ (main'.task = Head(mainQ) \/ Head(mainQ) \notin T)
    BY <1>1, <1>3, <1>5, <1>t, UnloadFacts
  <2>2. QED
    BY <1>1, <1>5, <2>1, OnWayKept
<1>6. Sole'
  <2>1. outstanding' <= outstanding /\ outstanding' \in Int /\ outstanding \in Int
    BY <1>1 DEF IInv, TypeOK, ClientTypeOK
  <2>2. QED
    BY <1>1, <1>4, <2>1 DEF Populated, Sole
<1>7. ~AlreadyDone(t) =>
        /\ main'.task = t
        /\ t \in StateTasks => main'.pc \in {"unblock", "check"}
        /\ t.cmd = "SetState" /\ ~FlushingRequired(state, t.data) => main'.pc = "check"
        /\ t.cmd \in {"Flush", "DisablePort"} => main'.pc = "unblock"
        /\ t.cmd = "EnablePort" => main'.pc = "waitFull"
  BY <1>1, <1>2, TaskFacts DEF BeginsWith
<1>8. StepsOfPorts'
  BY <1>1, <1>2, <1>7, TaskFacts DEF Populated, StepsOfPorts
<1>9. main'.pc \in {"take", "unblock", "check", "waitFull"}
  BY <1>1, <1>2, <1>7, TaskFacts
<1>10. Transition'
  <2>1. ASSUME NEW d \in Dirs, toEnable[d] PROVE OnWay({Ask("EnablePort", d)})'
    <3>1. OnWay({Ask("EnablePort", d)}) /\ {Ask("EnablePort", d)} \subseteq CommandTasks
      BY <2>1, UnloadFacts DEF Populated, Transition
    <3>2. AlreadyDone(t) => t \notin {Ask("EnablePort", d)}
      BY <2>1 DEF AlreadyDone, Ask
    <3>3. QED
      BY <1>5, <3>1, <3>2
  <2>2. ASSUME NEW d \in Dirs, toDisable[d] PROVE OnWay({Ask("DisablePort", d)})' /\ ~enable[d]
    <3>1. /\ OnWay({Ask("DisablePort", d)}) /\ {Ask("DisablePort", d)} \subseteq CommandTasks
          /\ ~enable[d]
      BY <2>2, UnloadFacts DEF Populated, Transition
    <3>2. AlreadyDone(t) => t \notin {Ask("DisablePort", d)}
      BY <2>2 DEF AlreadyDone, Ask
    <3>3. QED
      BY <1>5, <3>1, <3>2
  <2>3. QED
    BY <1>1, <1>9, <2>1, <2>2 DEF Transition
<1>11. LeavingKnown'
  <2>1. \A x \in UnloadTasks : ~AlreadyDone(x)
    BY UnloadFacts DEF AlreadyDone
  <2>2. OnWay(UnloadTasks) => OnWay(UnloadTasks)'
    BY <1>5, <2>1, UnloadFacts
  <2>3. ASSUME state = "Idle", main'.task \in UnloadTasks PROVE main'.pc = "check"
    <3>1. main'.task = t /\ t.cmd = "SetState" /\ t.data = "Loaded" /\ ~AlreadyDone(t)
      BY <1>1, <1>3, <1>7, <2>3, UnloadFacts
    <3>2. ~FlushingRequired("Idle", "Loaded")
      BY DEF FlushingRequired, GetTransientState, TransientStates
    <3>3. QED
      BY <1>7, <2>3, <3>1, <3>2
  <2>4. main.task \notin UnloadTasks
    BY <1>3, UnloadFacts
  <2>5. ASSUME Leaving, state = "Idle"
        PROVE  \/ \E i \in DOMAIN mainQ' : mainQ'[i] \in UnloadTasks
               \/ main'.task \in UnloadTasks /\ main'.pc = "check"
    BY <2>2, <2>3, <2>4, <2>5 DEF Populated, LeavingKnown, OnWay
  <2>6. OnWay(UnloadTasks)' => OnWay(UnloadTasks)
    BY <1>4
  <2>7. QED
    BY <1>1, <1>9, <2>5, <2>6 DEF Populated, LeavingKnown, Leaving
<1>12. Full'
  BY <1>1 DEF Populated, Full, Leaving
<1>13. Ready'
  BY <1>1, <1>9 DEF Populated, Ready, Leaving, Served
<1>14. QED
  BY <1>6, <1>8, <1>10, <1>11, <1>12, <1>13 DEF Populated

-----------------------------------------------------------------------------

\* ports and states nobody writes
stillPorts == <<state, transientState, enable, playable, portBuffers, mainQ, half, misuse>>

\* a command goes on, or ends, and nothing is new on its way
LEMMA SoleOfStep ==
  ASSUME IInv, Populated, UNCHANGED <<mainQ, half, misuse>>, outstanding' \in {outstanding, outstanding - 1},
         main'.task \in {main.task, NoTask}, \A d \in Dirs : ~portError'[d]
  PROVE  Sole'
<1>1. outstanding' <= outstanding /\ outstanding' \in Int /\ outstanding \in Int
  BY DEF IInv, TypeOK, ClientTypeOK
<1>2. \A T : OnWay(T)' => OnWay(T) \/ NoTask \in T
  BY DEF OnWay
<1>3. /\ NoTask \notin ClientStates /\ NoTask \notin OwnStates
      /\ NoTask \notin CommandTasks \ {Ask(half.cmd, "in")}
  BY UnloadFacts, TaskSets
<1>4. QED
  BY <1>1, <1>2, <1>3 DEF Populated, Sole

\* the conditions under which a step of a command may go on
LEMMA GoesOnPopulated ==
  ASSUME IInv, Populated, UNCHANGED stillPorts, UNCHANGED <<toEnable, toDisable, outstanding>>,
         \A d \in Dirs : ~portError'[d], main'.task = main.task, StepsOfPorts',
         main.pc \notin {"take", "switch", "unpopulateOut"},
         main'.pc \in {"reopen", "enabled"} => main.pc = "reopen",
         main'.pc \in {"unpopulateIn", "unpopulateOut"} => main.task \in UnloadTasks,
         main'.pc = "unpopulateOut" => ~playable["in"],
         main'.pc = "stop" => state \in Playing,
         main.pc \in {"check", "unpopulateIn"} /\ main.task \in UnloadTasks /\ state = "Idle" =>
           main'.pc \in {"unpopulateIn", "unpopulateOut"},
         main'.pc = "populateOut" => Served("in"),
         main'.pc = "switch" /\ main.task.data = "Idle" /\ state \in {"Loaded", "WaitForResources"} =>
           \A d \in Dirs : Served(d)
  PROVE  Populated'
<1> USE DEF stillPorts
<1>1. Sole'
  BY SoleOfStep
<1>2. \A T : OnWay(T)' <=> OnWay(T)
  BY DEF OnWay
<1>3. Transition'
  BY <1>2 DEF Populated, Transition
<1>4. LeavingKnown'
  BY <1>2 DEF Populated, LeavingKnown, Leaving
<1>5. Full'
  BY DEF Populated, Full, Leaving
<1>6. \A d \in Dirs : Served(d) <=> Served(d)'
  BY DEF Served
<1>7. Ready'
  BY <1>6 DEF Populated, Ready, Leaving, Served
<1>8. QED
  BY <1>1, <1>3, <1>4, <1>5, <1>7 DEF Populated

LEMMA EndsPopulated ==
  ASSUME IInv, Populated, UNCHANGED stillPorts, UNCHANGED toEnable,
         outstanding' \in {outstanding, outstanding - 1}, \A d \in Dirs : ~portError'[d],
         main' = [pc |-> "take", task |-> NoTask],
         main.pc # "switch", state = "Idle" => main.task \notin UnloadTasks,
         \A d \in Dirs : /\ toEnable[d] => main.task # Ask("EnablePort", d)
                         /\ toDisable'[d] => toDisable[d] /\ main.task # Ask("DisablePort", d)
                         /\ toDisable[d] => toDisable'[d] \/ ~playable[d]
  PROVE  Populated'
<1> USE DEF stillPorts
<1>1. Sole'
  BY SoleOfStep
<1>2. main'.pc = "take" /\ main'.task = NoTask /\ StepsOfPorts'
  BY DEF StepsOfPorts
<1>3. /\ \A T : OnWay(T)' => OnWay(T) \/ NoTask \in T
      /\ \A T : main.task \notin T /\ OnWay(T) => OnWay(T)'
  BY <1>2 DEF OnWay
<1>4. Transition'
  BY <1>2, <1>3 DEF Populated, Transition
<1>5. OnWay(UnloadTasks)' => OnWay(UnloadTasks)
  BY <1>3, UnloadFacts
<1>6. LeavingKnown'
  BY <1>2, <1>3, <1>5 DEF Populated, LeavingKnown, Leaving, OnWay
<1>7. Full'
  BY DEF Populated, Full, Leaving
<1>8. Ready'
  BY <1>2 DEF Populated, Ready, Leaving, Served
<1>9. QED
  BY <1>1, <1>2, <1>4, <1>6, <1>7, <1>8 DEF Populated

\* FlushFillEmptyBuffers, and the steps of the commands that do not touch a port
LEMMA FlushPopulated ==
  ASSUME IInv, Populated, MainUnblock \/ MainSwap \/ MainJoin \/ MainReblock
  PROVE  Populated'
<1>1. /\ UNCHANGED stillPorts /\ UNCHANGED <<toEnable, toDisable, outstanding, portError>>
      /\ main.pc \in FlushPc
      /\ \/ \E pc \in FlushPc : Goto(pc)
         \/ /\ main.pc = "reblock"
            /\ Goto(CASE main.task.cmd = "SetState" -> "check"
                      [] main.task.cmd = "Flush" -> "restart"
                      [] main.task.cmd = "DisablePort" -> "block")
  BY DEF MainUnblock, MainSwap, MainJoin, MainReblock, stateVars, portVars, countVars, stillPorts,
         FlushPc
<1>2. main.task.cmd \in {"SetState", "Flush", "DisablePort"}
  BY <1>1, TaskFacts DEF IInv, TaskOfPc
<1>3. /\ main'.task = main.task
      /\ \/ main'.pc \in FlushPc
         \/ main'.pc = "check" /\ main.task.cmd = "SetState"
         \/ main'.pc = "restart" /\ main.task.cmd = "Flush"
         \/ main'.pc = "block" /\ main.task.cmd = "DisablePort"
  <2>1. FlushPc \cup {"check", "restart", "block"} \subseteq MainPc
    BY DEF MainPc, FlushPc
  <2>2. QED
    BY <1>1, <1>2, <2>1, GotoType DEF IInv, TypeOK
<1>4. StepsOfPorts'
  BY <1>3 DEF StepsOfPorts, FlushPc
<1>5. QED
  BY <1>1, <1>3, <1>4, GoesOnPopulated DEF FlushPc, Populated, Sole

LEMMA CheckPopulated ==
  ASSUME IInv, Transit, Populated, MainCheck PROVE Populated'
<1>1. /\ UNCHANGED stillPorts /\ UNCHANGED <<toEnable, toDisable, portError>>
      /\ main.pc = "check"
  BY DEF MainCheck, stateVars, portVars, countVars, stillPorts
<1>2. main.task \in StateTasks /\ main.task.data \in States /\ state \in States
  BY <1>1, TaskFacts DEF IInv, TaskOfPc, SetStatePc, TypeOK, StateTypeOK
<1>3. \A t \in UnloadTasks : t.data = "Loaded"
  BY UnloadFacts
<1>4. CASE Answer
  <2>1. CheckStateTransition(state, main.task.data) # "None"
    <3>1. \A pc \in MainPc : Goto(pc) => main'.pc = pc
      BY GotoType DEF IInv, TypeOK
    <3>2. ASSUME CheckStateTransition(state, main.task.data) = "None"
          PROVE  \E pc \in {"populateIn", "unpopulateIn", "start", "stop", "switch"} : Goto(pc)
      BY <3>2 DEF MainCheck
    <3>3. {"populateIn", "unpopulateIn", "start", "stop", "switch"} \subseteq MainPc
      BY DEF MainPc
    <3>4. main'.pc = "take"
      BY <1>4 DEF Answer
    <3>5. QED
      BY <3>1, <3>2, <3>3, <3>4
  <2>2. state = "Idle" => main.task \notin UnloadTasks
    BY <1>3, <2>1 DEF CheckStateTransition, Incorrect
  <2>3. \A d : main.task # Ask("EnablePort", d) /\ main.task # Ask("DisablePort", d)
    BY <1>2, TaskFacts DEF Ask
  <2>4. outstanding' \in {outstanding, outstanding - 1} /\ main' = [pc |-> "take", task |-> NoTask]
    BY <1>4 DEF Answer, IInv, TypeOK, ClientTypeOK
  <2>5. QED
    BY <1>1, <2>2, <2>3, <2>4, EndsPopulated DEF Populated, Sole
<1>5. CASE ~Answer
  <2>1. /\ UNCHANGED outstanding
        /\ \/ ToIdleFromLoadedOrWait(state, main.task.data) /\ Goto("populateIn")
           \/ /\ ToLoaded(state, main.task.data) /\ state # "WaitForResources"
              /\ Goto("unpopulateIn")
           \/ ToExecutingOrPause(state, main.task.data) /\ Goto("start")
           \/ ToIdleFromExecutingOrPause(state, main.task.data) /\ Goto("stop")
           \/ /\ Goto("switch") /\ ~ToIdleFromLoadedOrWait(state, main.task.data)
              /\ ~(ToLoaded(state, main.task.data) /\ state # "WaitForResources")
           \/ Goto("invalid") /\ CheckStateTransition(state, main.task.data) # "None"
    BY <1>5 DEF MainCheck
  <2>2. {"populateIn", "unpopulateIn", "start", "stop", "switch", "invalid"} \subseteq MainPc
    BY DEF MainPc
  <2>3. /\ main'.task = main.task
        /\ \/ main'.pc \in {"populateIn", "start"} /\ ~(state = "Idle" /\ main.task.data = "Loaded")
           \/ main'.pc = "unpopulateIn" /\ state = "Idle" /\ main.task.data = "Loaded"
           \/ main'.pc = "stop" /\ state \in Playing
           \/ /\ main'.pc = "switch" /\ ~(state = "Idle" /\ main.task.data = "Loaded")
              /\ ~(main.task.data = "Idle" /\ state \in {"Loaded", "WaitForResources"})
           \/ main'.pc = "invalid" /\ ~(state = "Idle" /\ main.task.data = "Loaded")
    BY <2>1, <2>2, GotoType DEF IInv, TypeOK, ToIdleFromLoadedOrWait, ToLoaded, ToExecutingOrPause,
       ToIdleFromExecutingOrPause, Playing, CheckStateTransition, Incorrect
  <2>4. main.task \in UnloadTasks <=> main.task.data = "Loaded"
    <3>1. main.task.opt => main.task.data = "Invalid"
      BY <1>2 DEF Populated, Sole, OnWay, OwnStates
    <3>2. QED
      BY <1>2, <3>1 DEF UnloadTasks, ClientStates
  <2>5. StepsOfPorts'
    BY <2>3 DEF StepsOfPorts
  <2>6. QED
    BY <1>1, <1>3, <2>1, <2>3, <2>4, <2>5, GoesOnPopulated DEF Populated, Sole, Playing
<1>6. QED
  BY <1>4, <1>5

\* Port::WaitFull has seen the buffers of both ports when the state changes
LEMMA PopulatePopulated ==
  ASSUME IInv, Transit, Populated, NEW d \in Dirs, MainPopulate(d) PROVE Populated'
<1>1. /\ UNCHANGED stillPorts /\ UNCHANGED <<toEnable, toDisable>>
      /\ portError' = [portError EXCEPT ![d] = FALSE]
      /\ main.pc = (IF d = "in" THEN "populateIn" ELSE "populateOut")
      /\ enable[d] => playable[d]
      /\ UNCHANGED outstanding /\ Goto(IF d = "in" THEN "populateOut" ELSE "switch")
  BY DEF MainPopulate, stateVars, countVars, stillPorts, Populated, Sole
<1>2. \A x \in Dirs : ~portError'[x]
  BY <1>1 DEF Populated, Sole, IInv, TypeOK, PortsTypeOK
<1>3. main'.task = main.task /\ main'.pc = IF d = "in" THEN "populateOut" ELSE "switch"
  BY <1>1, GotoType DEF IInv, TypeOK, MainPc
<1>4. Served(d) /\ (main.pc = "populateOut" => Served("in"))
  BY <1>1 DEF Served, Populated, Ready
<1>5. main'.pc = "switch" => \A x \in Dirs : Served(x)
  BY <1>1, <1>3, <1>4 DEF Dirs
<1>6. StepsOfPorts'
  BY <1>3 DEF StepsOfPorts
<1>7. QED
  BY <1>1, <1>2, <1>3, <1>4, <1>5, <1>6, GoesOnPopulated

\* Port::WaitEmpty has seen both ports empty when transientState is cleared
LEMMA UnpopulatePopulated ==
  ASSUME IInv, Transit, Populated, NEW d \in Dirs, MainUnpopulate(d) PROVE Populated'
<1>1. /\ UNCHANGED stillPorts \/ d = "out"
      /\ UNCHANGED <<state, enable, toEnable, toDisable, playable, portBuffers, mainQ, half, misuse>>
      /\ portError' = [portError EXCEPT ![d] = FALSE]
      /\ main.pc = (IF d = "in" THEN "unpopulateIn" ELSE "unpopulateOut")
      /\ ~playable[d] /\ (d = "out" => transientState' = MaxTransient)
      /\ UNCHANGED outstanding /\ Goto(IF d = "in" THEN "unpopulateOut" ELSE "switch")
  BY DEF MainUnpopulate, countVars, stillPorts, Populated, Sole, Dirs
<1>2. \A x \in Dirs : ~portError'[x]
  BY <1>1 DEF Populated, Sole, IInv, TypeOK, PortsTypeOK
<1>3. main'.task = main.task /\ main'.pc = IF d = "in" THEN "unpopulateOut" ELSE "switch"
  BY <1>1, GotoType DEF IInv, TypeOK, MainPc
<1>4. main.task \in UnloadTasks /\ main.task.data = "Loaded" /\ state = "Idle"
  BY <1>1, UnloadFacts DEF Populated, LeavingKnown, Transit
<1>5. StepsOfPorts'
  BY <1>3 DEF StepsOfPorts
<1>6. CASE d = "in"
  BY <1>1, <1>2, <1>3, <1>4, <1>5, <1>6, GoesOnPopulated
<1>7. CASE d = "out"
  <2>1. /\ main.pc = "unpopulateOut" /\ main'.pc = "switch" /\ ~Leaving'
        /\ ~playable["in"] /\ ~playable["out"]
    BY <1>1, <1>3, <1>7 DEF Leaving, MaxTransient, Populated, LeavingKnown, Dirs
  <2>2. Sole'
    BY <1>1, <1>2, <1>3, SoleOfStep
  <2>3. \A T : OnWay(T)' <=> OnWay(T)
    BY <1>1, <1>3 DEF OnWay
  <2>4. Transition'
    BY <1>1, <2>1, <2>3 DEF Populated, Transition
  <2>5. LeavingKnown' /\ Full'
    BY <1>1, <2>1 DEF LeavingKnown, Full, Dirs
  <2>6. Ready'
    BY <1>1, <1>3, <1>4, <2>1 DEF Ready
  <2>7. QED
    BY <1>5, <2>2, <2>4, <2>5, <2>6 DEF Populated
<1>8. QED
  BY <1>6, <1>7 DEF Dirs

\* the way from Idle to Loaded
LEMMA UnloadPlace ==
  ASSUME IInv, Flow, Populated, main.task \in UnloadTasks, state = "Idle", main.pc # "switch"
  PROVE  main.pc \in {"check", "unpopulateIn", "unpopulateOut"}
<1>1. main.task \in CommandTasks /\ outstanding <= 1 /\ Leaving
  BY UnloadFacts DEF Populated, LeavingKnown, Sole, OnWay
<1>2. \A i \in DOMAIN mainQ : mainQ[i] \notin UnloadTasks
  BY <1>1, NoneBehind, UnloadFacts DEF Flow
<1>3. QED
  BY <1>1, <1>2 DEF Populated, LeavingKnown

LEMMA StartStopPopulated ==
  ASSUME IInv, Transit, Flow, Populated, MainStart \/ MainStop PROVE Populated'
<1>1. /\ UNCHANGED stillPorts /\ UNCHANGED <<toEnable, toDisable, portError>>
      /\ main.pc \in {"start", "stop"}
      /\ \/ Goto("switch") /\ UNCHANGED outstanding
         \/ Answer
  BY DEF MainStart, MainStop, stateVars, portVars, countVars, stillPorts
<1>2. state \in {"Idle", "Executing", "Pause"}
  BY <1>1 DEF Transit, Populated, LeavingKnown, Playing
<1>3. state = "Idle" => main.task \notin UnloadTasks
  BY <1>1, UnloadPlace
<1>4. CASE Goto("switch") /\ UNCHANGED outstanding
  <2>1. main'.task = main.task /\ main'.pc = "switch"
    BY <1>4, GotoType DEF IInv, TypeOK, MainPc
  <2>2. StepsOfPorts'
    BY <2>1 DEF StepsOfPorts
  <2>3. QED
    BY <1>1, <1>2, <1>4, <2>1, <2>2, GoesOnPopulated DEF Populated, Sole
<1>5. CASE Answer
  <2>1. main.task.cmd = "SetState"
    BY <1>1, TaskFacts DEF IInv, TaskOfPc, SetStatePc
  <2>2. \A d : main.task # Ask("EnablePort", d) /\ main.task # Ask("DisablePort", d)
    BY <2>1 DEF Ask
  <2>3. outstanding' \in {outstanding, outstanding - 1} /\ main' = [pc |-> "take", task |-> NoTask]
    BY <1>5 DEF Answer, IInv, TypeOK, ClientTypeOK
  <2>4. QED
    BY <1>1, <1>3, <2>2, <2>3, EndsPopulated DEF Populated, Sole
<1>6. QED
  BY <1>1, <1>4, <1>5

\* the state changes, when both ports are as the new one wants them
LEMMA SwitchPopulated ==
  ASSUME IInv, Transit, Flow, Populated, MainSwitch PROVE Populated'
<1>1. /\ UNCHANGED <<transientState, enable, toEnable, toDisable, playable, portError,
                     portBuffers, mainQ, half, misuse>>
      /\ main.pc = "switch" /\ state' = main.task.data
      /\ main' = [pc |-> "take", task |-> NoTask] /\ outstanding' \in {outstanding, outstanding - 1}
  BY DEF MainSwitch, Answer, portVars, countVars, IInv, TypeOK, ClientTypeOK
<1>2. /\ main.task \in StateTasks /\ CheckStateTransition(state, main.task.data) = "None"
      /\ main.task.data \in States /\ state \in States
  BY <1>1, TaskFacts DEF Transit, IInv, TaskOfPc, SetStatePc, TypeOK, StateTypeOK
<1>3. main.task \in ClientStates
  <2>1. main.task.data # "Invalid"
    BY <1>2 DEF CheckStateTransition
  <2>2. QED
    BY <1>2, <2>1 DEF ClientStates, Populated, Sole, OnWay, OwnStates
<1>4. outstanding <= 1 /\ half = NoTask /\ \A i \in DOMAIN mainQ : mainQ[i] \notin CommandTasks
  BY <1>3, TaskSets, NoneBehind DEF Populated, Sole, OnWay, Flow
<1>5. \A T : T \subseteq CommandTasks => ~OnWay(T)'
  BY <1>1, <1>4, UnloadFacts DEF OnWay
<1>6. Sole'
  BY <1>1, SoleOfStep DEF Populated, Sole
<1>7. StepsOfPorts'
  BY <1>1 DEF StepsOfPorts
<1>8. \A d \in Dirs : ~toEnable[d] /\ ~toDisable[d]
  <2>1. ASSUME NEW d \in Dirs, NEW cmd \in {"EnablePort", "DisablePort"}, OnWay({Ask(cmd, d)})
        PROVE  FALSE
    BY <1>2, <1>4, <2>1, UnloadFacts, TaskSets DEF OnWay
  <2>2. QED
    BY <2>1 DEF Populated, Transition
<1>9. Transition'
  BY <1>1, <1>8 DEF Transition
<1>10. ~Leaving \/ state = "Invalid"
  BY <1>1, <1>4, UnloadFacts DEF Populated, LeavingKnown
<1>11. ~Leaving /\ state # "Invalid"
  BY <1>2, <1>10 DEF CheckStateTransition
<1>12. LeavingKnown'
  BY <1>1, <1>5, <1>11, UnloadFacts DEF LeavingKnown, Leaving
<1>13. Full'
  BY <1>1, <1>8, <1>11 DEF Populated, Full, Leaving
<1>14. Ready'
  <2>1. ASSUME main.task.data \in {"Idle", "Executing", "Pause"} PROVE \A d \in Dirs : Served(d)
    <3>1. CASE state \in {"Idle", "Executing", "Pause"}
      BY <1>1, <1>11, <2>1, <3>1 DEF Populated, Ready
    <3>2. CASE state \in {"Loaded", "WaitForResources"}
      BY <1>1, <1>2, <2>1, <3>2 DEF Populated, Ready, CheckStateTransition, Incorrect
    <3>3. QED
      BY <1>2, <1>11, <3>1, <3>2 DEF States
  <2>2. \A d \in Dirs : Served(d) => Served(d)'
    BY <1>1 DEF Served
  <2>3. QED
    BY <1>1, <2>1, <2>2 DEF Ready
<1>15. QED
  BY <1>6, <1>7, <1>9, <1>12, <1>13, <1>14 DEF Populated

LEMMA InvalidPopulated ==
  ASSUME IInv, Populated, MainInvalid PROVE Populated'
<1>1. /\ UNCHANGED <<transientState, enable, toEnable, toDisable, playable, portError,
                     portBuffers, mainQ, half, misuse>>
      /\ main.pc = "invalid" /\ state' = "Invalid"
      /\ main' = [pc |-> "take", task |-> NoTask] /\ outstanding' \in {outstanding, outstanding - 1}
  BY DEF MainInvalid, Answer, portVars, countVars, stateVars, IInv, TypeOK, ClientTypeOK
<1>2. main.task.cmd = "SetState"
  BY <1>1, TaskFacts DEF IInv, TaskOfPc, SetStatePc
<1>3. Sole'
  BY <1>1, SoleOfStep DEF Populated, Sole
<1>4. StepsOfPorts'
  BY <1>1 DEF StepsOfPorts
<1>5. Transition'
  <2>1. \A T : main.task \notin T /\ OnWay(T) => OnWay(T)'
    BY <1>1 DEF OnWay
  <2>2. \A d : main.task # Ask("EnablePort", d) /\ main.task # Ask("DisablePort", d)
    BY <1>2 DEF Ask
  <2>3. QED
    BY <1>1, <2>1, <2>2 DEF Populated, Transition
<1>6. LeavingKnown' /\ Full' /\ Ready'
  BY <1>1 DEF LeavingKnown, Full, Ready
<1>7. QED
  BY <1>3, <1>4, <1>5, <1>6 DEF Populated

\* Flush, and the steps of a port command before it looks at its port
LEMMA RestartsPopulated ==
  ASSUME IInv, Populated, MainRestart \/ MainBlock \/ MainRestartPort \/ MainReopen
  PROVE  Populated'
<1>1. /\ UNCHANGED stillPorts /\ UNCHANGED <<toEnable, toDisable, outstanding, portError>>
      /\ \/ main.pc = "restart" /\ Goto("flushEos")
         \/ main.pc = "block" /\ \E pc \in {"restartPort", "waitEmpty"} : Goto(pc)
         \/ main.pc = "restartPort" /\ Goto("waitEmpty")
         \/ main.pc = "reopen" /\ Goto("enabled")
  BY DEF MainRestart, MainBlock, MainRestartPort, MainReopen, stateVars, portVars, countVars,
         stillPorts
<1>2. {"flushEos", "restartPort", "waitEmpty", "enabled"} \subseteq MainPc
  BY DEF MainPc
<1>3. /\ main'.task = main.task
      /\ \/ main.pc = "restart" /\ main'.pc = "flushEos"
         \/ main.pc \in {"block", "restartPort"} /\ main'.pc \in {"restartPort", "waitEmpty"}
         \/ main.pc = "reopen" /\ main'.pc = "enabled"
  BY <1>1, <1>2, GotoType DEF IInv, TypeOK
<1>4. StepsOfPorts'
  BY <1>3 DEF Populated, StepsOfPorts
<1>5. QED
  BY <1>1, <1>3, <1>4, GoesOnPopulated DEF Populated, Sole

\* a Flush or an EnablePort is answered
LEMMA AnswersPopulated ==
  ASSUME IInv, Populated, MainFlushEos \/ MainEnabled PROVE Populated'
<1>1. /\ UNCHANGED stillPorts /\ UNCHANGED <<toEnable, toDisable, portError>>
      /\ main.pc \in {"flushEos", "enabled"}
      /\ main' = [pc |-> "take", task |-> NoTask] /\ outstanding' \in {outstanding, outstanding - 1}
  BY DEF MainFlushEos, MainEnabled, Answer, stateVars, portVars, countVars, stillPorts,
         IInv, TypeOK, ClientTypeOK
<1>2. /\ main.task.cmd \in {"Flush", "EnablePort"}
      /\ main.task.cmd = "EnablePort" => main.pc = "enabled"
  BY <1>1 DEF Populated, StepsOfPorts
<1>3. main.task \notin UnloadTasks /\ \A d : main.task # Ask("DisablePort", d)
  BY <1>2, UnloadFacts DEF Ask
<1>4. ASSUME NEW d \in Dirs, main.task = Ask("EnablePort", d) PROVE ~toEnable[d]
  <2>1. main.task.cmd = "EnablePort" /\ main.task.data = d
    BY <1>4 DEF Ask
  <2>2. QED
    BY <1>2, <2>1 DEF Populated, Transition
<1>5. QED
  BY <1>1, <1>3, <1>4, EndsPopulated DEF Populated, Sole

\* Port::WaitEmpty of a DisablePort
LEMMA WaitEmptyPopulated ==
  ASSUME IInv, Populated, MainWaitEmpty PROVE Populated'
<1> DEFINE d == main.task.data
<1>1. main.pc = "waitEmpty" /\ main.task \in PortCommands /\ d \in Dirs
      /\ main.task.cmd = "DisablePort"
  BY TaskFacts DEF MainWaitEmpty, IInv, TaskOfPc, PortPc, Populated, StepsOfPorts
<1>2. /\ UNCHANGED stillPorts /\ UNCHANGED <<toEnable, portError>> /\ ~playable[d]
      /\ toDisable' = [toDisable EXCEPT ![d] = FALSE]
      /\ main' = [pc |-> "take", task |-> NoTask] /\ outstanding' \in {outstanding, outstanding - 1}
  BY <1>1 DEF MainWaitEmpty, Answer, Populated, Sole, stateVars, countVars, stillPorts,
     IInv, TypeOK, ClientTypeOK
<1>3. toDisable \in [Dirs -> BOOLEAN]
  BY DEF IInv, TypeOK, PortsTypeOK
<1>4. main.task \notin UnloadTasks /\ \A x : main.task # Ask("EnablePort", x)
  BY <1>1, UnloadFacts DEF Ask
<1>5. \A x \in Dirs : /\ toDisable'[x] => toDisable[x] /\ main.task # Ask("DisablePort", x)
                      /\ toDisable[x] => toDisable'[x] \/ ~playable[x]
  BY <1>1, <1>2, <1>3 DEF Ask
<1>6. QED
  BY <1>1, <1>2, <1>4, <1>5, EndsPopulated DEF Populated, Sole

\* Port::WaitFull of an EnablePort
LEMMA WaitFullPopulated ==
  ASSUME IInv, Populated, MainWaitFull PROVE Populated'
<1> DEFINE d == main.task.data
<1>1. main.pc = "waitFull" /\ main.task \in PortCommands /\ d \in Dirs
      /\ main.task.cmd = "EnablePort"
  BY TaskFacts DEF MainWaitFull, IInv, TaskOfPc, PortPc, Populated, StepsOfPorts
<1>2. /\ UNCHANGED stillPorts /\ UNCHANGED <<toDisable, portError, outstanding>>
      /\ state \in {"Loaded", "WaitForResources"} \/ playable[d]
      /\ toEnable' = [toEnable EXCEPT ![d] = FALSE]
      /\ \E pc \in {"reopen", "enabled"} : Goto(pc)
  BY <1>1 DEF MainWaitFull, Populated, Sole, stateVars, countVars, stillPorts
<1>3. main'.task = main.task /\ main'.pc \in {"reopen", "enabled"}
  BY <1>2, GotoType DEF IInv, TypeOK, MainPc
<1>4. /\ ~toEnable'[d]
      /\ \A x \in Dirs \ {d} : toEnable'[x] = toEnable[x]
      /\ \A x \in Dirs : toEnable'[x] => toEnable[x]
  BY <1>1, <1>2 DEF IInv, TypeOK, PortsTypeOK
<1>5. Sole'
  BY <1>2, <1>3, SoleOfStep DEF Populated, Sole, stillPorts
<1>6. StepsOfPorts'
  BY <1>1, <1>3 DEF StepsOfPorts
<1>7. \A T : OnWay(T)' <=> OnWay(T)
  BY <1>2, <1>3 DEF OnWay, stillPorts
<1>8. Transition'
  BY <1>2, <1>3, <1>4, <1>7 DEF Populated, Transition, stillPorts
<1>9. main.task \notin UnloadTasks
  BY <1>1, UnloadFacts
<1>10. LeavingKnown'
  BY <1>1, <1>2, <1>3, <1>7, <1>9 DEF Populated, LeavingKnown, Leaving, stillPorts
<1>11. Full'
  BY <1>2 DEF Populated, Full, Leaving, stillPorts
<1>12. Ready'
  <2>1. \A x \in Dirs : Served(x) /\ state \in {"Idle", "Executing", "Pause"} => Served(x)'
    BY <1>2, <1>4 DEF Served, stillPorts
  <2>2. QED
    BY <1>1, <1>2, <1>3, <2>1 DEF Populated, Ready, Leaving, stillPorts
<1>13. QED
  BY <1>5, <1>6, <1>8, <1>10, <1>11, <1>12 DEF Populated

LEMMA MainPopulated == ASSUME IInv, Transit, Flow, Populated, Main PROVE Populated'
BY DispatchPopulated, TakePopulated, FlushPopulated, CheckPopulated, PopulatePopulated,
   UnpopulatePopulated, StartStopPopulated, SwitchPopulated, InvalidPopulated,
   RestartsPopulated, AnswersPopulated, WaitEmptyPopulated, WaitFullPopulated DEF Main

LEMMA InitPopulated == Init => Populated
<1>1. ASSUME Init PROVE Populated
  <2>1. /\ state = "Loaded" /\ mainQ = <<>> /\ main.pc = "take" /\ main.task = NoTask
        /\ half = NoTask /\ misuse = 0 /\ transientState = MaxTransient
        /\ \A d \in Dirs : ~portError[d] /\ ~toEnable[d] /\ ~toDisable[d] /\ ~playable[d]
    BY <1>1 DEF Init
  <2>2. DOMAIN mainQ = {}
    BY <2>1
  <2>3. ~OnWay(ClientStates) /\ ~OnWay(OwnStates) /\ ~OnWay(UnloadTasks)
    BY <2>1, <2>2, UnloadFacts, TaskSets DEF OnWay
  <2>4. Sole /\ StepsOfPorts /\ Transition
    BY <2>1, <2>3 DEF Sole, StepsOfPorts, Transition
  <2>5. ~Leaving
    BY <2>1 DEF Leaving, MaxTransient
  <2>6. LeavingKnown /\ Full /\ Ready
    BY <2>1, <2>3, <2>5 DEF LeavingKnown, Full, Ready
  <2>7. QED
    BY <2>4, <2>6 DEF Populated
<1>2. QED
  BY <1>1

(* Between the commands of a client that waits for each of them, fails in no     *)
(* allocation and frees in turn, an enabled port has all its buffers in Idle,     *)
(* Executing and Pause, whatever port it closes and reopens and whatever error     *)
(* the codec reports.                                                         *)
THEOREM PortsPopulatedHolds == ASSUME OneAtATime PROVE Spec => []PortsPopulated
<1>1. BInv /\ Flow /\ Populated /\ [Next]_vars => Flow' /\ Populated'
  <2>1. MaxOutstanding <= 2
    BY BoundsAssumption DEF OneAtATime
  <2>2. QED
    BY <2>1, NextFlow, OthersPopulated, MainPopulated DEF BInv, Next
<1>2. BInv /\ Populated => PortsPopulated
  <2>1. ASSUME BInv, Populated, Settled, state \in {"Idle", "Executing", "Pause"},
               NEW d \in Dirs, enable[d]
        PROVE  Cardinality(portBuffers[d]) >= Expected[d]
    <3>1. \A t \in BufferTasks : t \notin UnloadTasks
      BY UnloadFacts
    <3>2. ~Leaving
      BY <2>1, <3>1 DEF Populated, LeavingKnown, Settled
    <3>3. playable[d]
      BY <2>1, <3>2 DEF Populated, Ready, Served, Settled
    <3>4. QED
      BY <2>1, <3>2, <3>3 DEF Populated, Full, Settled
  <2>2. QED
    BY <2>1 DEF PortsPopulated
<1>3. QED
  BY <1>1, <1>2, InitFlow, InitPopulated, BuffersInductive, PTL DEF Spec

-----------------------------------------------------------------------------
(* No buffer of a patient player is lost                                    *)

(* A decoder whose client submits in Executing and Pause only, once all its     *)
(* commands are answered, asks for Idle before it is in Pause if at all, and     *)
(* whose codec reports no error: the client of component_eos. It may end any      *)
(* number of streams, and disable and enable ports while it plays; a restart of   *)
(* the module is one step here.                                                *)
PatientPlayer ==
  /\ Decoder /\ Patient /\ MaxFaults = 0
  /\ SubmitStates \subseteq Playing
  /\ <<"Pause", [cmd |-> "SetState", data |-> "Idle"]>> \notin MaySend

IdleTasks == {t \in ClientStates : t.data = "Idle"}
OwnTasks  == {t \in StateTasks : t.opt}

(* The commands on their way are counted, whatever their number.               *)
Counted == Accounted /\ CommandOfPc

(* A buffer is submitted behind no command, and is dispatched before one.        *)
Unhindered ==
  /\ ~OnWay(OwnTasks)
  /\ \A j \in DOMAIN mainQ : mainQ[j] \in BufferTasks =>
       main.pc = "take" /\ \A i \in DOMAIN mainQ : i < j => mainQ[i] \in BufferTasks

(* The decoder is started before Executing or Pause and stopped after them.     *)
Started ==
  /\ state \in Playing => module = "started" \/ (main.pc = "switch" /\ main.task.data = "Idle")
  /\ main.pc = "switch" /\ state = "Idle" /\ main.task.data \in Playing => module = "started"
  /\ main.pc = "stop" => main.task.data = "Idle"
  /\ main.pc \in {"unpopulateIn", "unpopulateOut"} => main.task.data = "Loaded"

\* no buffer is on the way from the client to the module
Emptied ==
  /\ \A i \in DOMAIN mainQ : mainQ[i] \notin BufferTasks
  /\ \A d \in Dirs : Drained(d)

(* Buffers are on their way to a module that is there, or to Invalid.           *)
Expecting ==
  /\ Emptied \/ state \in Playing \cup {"Invalid"}
  /\ state = "Pause" /\ OnWay(IdleTasks) => Emptied

\* where an empty buffer that ends a stream can be
EosOf(b) == [cmd |-> "EmptyBuffer", data |-> b, kind |-> "emptyEos"]
EosAt(b) ==
  \/ \E i \in DOMAIN mainQ : mainQ[i] = EosOf(b)
  \/ \E i \in DOMAIN fifo["in"] : fifo["in"][i] = EosOf(b)
  \/ worker["in"].task = EosOf(b)
  \/ eosHandle["in"] = b
OneEos ==
  /\ \A a, b \in InBuffers : EosAt(a) /\ EosAt(b) => a = b
  /\ codecPc # "eosClear"

Lossless ==
  /\ Counted /\ Unhindered /\ ModulePlace /\ Started /\ Expecting /\ OneEos
  /\ NothingLost

\* a task of the scheduler's queue is a buffer, a client's command or the component's own
LEMMA TaskKinds ==
  /\ MainTasks = BufferTasks \cup CommandTasks \cup OwnTasks
  /\ \A t \in CommandTasks : t \notin BufferTasks /\ t \notin OwnTasks
  /\ \A t \in BufferTasks : t \notin OwnTasks /\ t \notin IdleTasks
  /\ IdleTasks \subseteq CommandTasks /\ OwnTasks \subseteq MainTasks
  /\ NoTask \notin CommandTasks /\ NoTask \notin OwnTasks /\ NoTask \notin IdleTasks
  /\ StateTasks \cup PortCommands = CommandTasks \cup OwnTasks
<1>1. \A t \in StateTasks : t.opt \in BOOLEAN
  BY DEF StateTasks
<1>2. StateTasks \cup PortCommands = CommandTasks \cup OwnTasks
  BY <1>1 DEF CommandTasks, OwnTasks
<1>3. OwnTasks \subseteq StateTasks /\ IdleTasks \subseteq CommandTasks
  BY TaskSets DEF OwnTasks, IdleTasks
<1>4. \A t \in CommandTasks : t \notin BufferTasks /\ t \notin OwnTasks
  BY CommandFacts, TaskSets DEF OwnTasks, CommandTasks
<1>5. QED
  BY <1>2, <1>3, <1>4, CommandFacts, TaskSets DEF MainTasks

\* what the client and the codec do to what the invariant reads
Sends ==
  \E e \in CommandTasks :
    /\ mainQ' = Append(mainQ, e) /\ outstanding' = outstanding + 1
    /\ e \in IdleTasks => state # "Pause"
Submits ==
  \E e \in BufferTasks :
    /\ mainQ' = Append(mainQ, e) /\ UNCHANGED outstanding
    /\ outstanding = 0 /\ state \in Playing

LEMMA PlayerSteps ==
  ASSUME IInv, PatientPlayer, Client \/ Codec \/ UNCHANGED vars
  PROVE  /\ UNCHANGED <<state, main, module, fifo, worker>>
         /\ UNCHANGED <<mainQ, outstanding>> \/ Sends \/ Submits
<1>1. UNCHANGED <<state, main, module>>
  BY OthersKeepPlace
<1>2. \A cmd \in {"Flush", "DisablePort", "EnablePort"} : \A d \in Dirs :
        QueuePortCommand(cmd, d) => Sends
  <2> SUFFICES ASSUME NEW cmd \in {"Flush", "DisablePort", "EnablePort"}, NEW d \in Dirs,
                      QueuePortCommand(cmd, d)
               PROVE  Sends
    OBVIOUS
  <2>1. Ask(cmd, d) \in CommandTasks /\ Ask(cmd, d) \notin IdleTasks
    BY UnloadFacts DEF IdleTasks
  <2>2. mainQ' = Append(mainQ, Ask(cmd, d)) /\ outstanding' = outstanding + 1
    BY DEF QueuePortCommand, Ask
  <2>3. QED
    BY <2>1, <2>2 DEF Sends
<1>3. ASSUME NEW c \in {m[2] : m \in {m \in MaySend : m[1] = state}}, SendCommand(c)
      PROVE  UNCHANGED <<fifo, worker>> /\ Sends
  <2>1. <<state, c>> \in MaySend /\ c \in StateCommands \cup PortCommands \cup AllCommands
    BY <1>3, ClientAssumption
  <2>2. UNCHANGED <<fifo, worker>>
    BY <1>3 DEF SendCommand, workerVars
  <2>3. CASE c \in StateCommands
    <3> DEFINE e == [cmd |-> "SetState", data |-> c.data, opt |-> FALSE]
    <3>1. e \in StateTasks /\ ~e.opt /\ e.data = c.data
          /\ c.cmd = "SetState" /\ c = [cmd |-> "SetState", data |-> c.data]
      BY <2>3 DEF StateCommands, StateTasks
    <3>2. e \in CommandTasks /\ (e \in IdleTasks => state # "Pause")
      BY <2>1, <3>1, CommandFacts DEF IdleTasks, PatientPlayer
    <3>3. mainQ' = Append(mainQ, e) /\ outstanding' = outstanding + 1
      BY <1>3, <3>1 DEF SendCommand, QueueStateCommand
    <3> HIDE DEF e
    <3>4. QED
      BY <2>2, <3>2, <3>3 DEF Sends
  <2>4. CASE c \notin StateCommands
    <3>1. /\ c.cmd \in {"Flush", "DisablePort", "EnablePort"}
          /\ c.data \in Dirs \/ (c.data = "all" /\ "in" \in Dirs)
          /\ c.data \in Dirs => c.data # "all"
      BY <2>1, <2>4, TaskFacts DEF AllCommands, Dirs
    <3>2. \E d \in Dirs : QueuePortCommand(c.cmd, d)
      BY <1>3, <3>1 DEF SendCommand
    <3>3. QED
      BY <1>2, <2>2, <3>1, <3>2
  <2>5. QED
    BY <2>3, <2>4
<1>4. CASE SendSecondHalf
  <2>1. half.cmd \in {"Flush", "DisablePort", "EnablePort"} /\ "out" \in Dirs
        /\ QueuePortCommand(half.cmd, "out") /\ UNCHANGED <<fifo, worker>>
    BY <1>4 DEF SendSecondHalf, IInv, TypeOK, ClientTypeOK, AllCommands, Dirs, workerVars
  <2>2. QED
    BY <1>1, <1>2, <2>1
<1>5. ASSUME NEW b, MaySubmit(b) PROVE outstanding = 0 /\ state \in Playing
  BY <1>5 DEF MaySubmit, PatientPlayer
<1>6. ASSUME NEW b \in InBuffers, NEW k \in Kinds, EmptyThisBuffer(b, k)
      PROVE  UNCHANGED <<fifo, worker>> /\ Submits
  <2>1. [cmd |-> "EmptyBuffer", data |-> b, kind |-> k] \in BufferTasks
    BY ClientAssumption DEF BufferTasks, EmptyTasks
  <2>2. QED
    BY <1>5, <1>6, <2>1 DEF EmptyThisBuffer, Submits, workerVars
<1>7. ASSUME NEW b \in Buffers, FillThisBuffer(b) PROVE UNCHANGED <<fifo, worker>> /\ Submits
  <2>1. [cmd |-> "FillBuffer", data |-> b] \in BufferTasks
    BY <1>7 DEF FillThisBuffer, BufferTasks, FillTasks
  <2>2. QED
    BY <1>5, <1>7, <2>1 DEF FillThisBuffer, Submits, workerVars
<1>8. ASSUME \/ \E b \in Buffers : UseBuffer(b) \/ FreeBuffer(b)
             \/ \E d \in Dirs : UseBufferFails(d)
      PROVE  UNCHANGED <<fifo, worker, mainQ, outstanding>>
  BY <1>8 DEF UseBuffer, FreeBuffer, UseBufferFails, workerVars
<1>9. ~CodecError
  BY DEF CodecError, PatientPlayer, IInv, TypeOK, ClientTypeOK
<1>10. CASE Codec \/ UNCHANGED vars
  <2>1. UNCHANGED <<fifo, worker, mainQ, outstanding>>
    BY <1>9, <1>10 DEF Codec, CodecReturns, CodecEos, CodecFinishesEos, CodecEosIn,
       CodecEosOut, CodecEosClear, vars, workerVars
  <2>2. QED
    BY <1>1, <2>1
<1>11. CASE Client
  BY <1>1, <1>3, <1>4, <1>6, <1>7, <1>8, <1>11 DEF Client
<1>12. QED
  BY <1>10, <1>11

\* a command goes on, or ends
LEMMA MainGoesOn ==
  ASSUME IInv, CommandOfPc, Main, ~MainDispatch, ~MainTake
  PROVE  /\ main.task \in StateTasks \cup PortCommands /\ main.pc # "take"
         /\ UNCHANGED mainQ /\ (Ends \/ GoesOn)
<1>1. main.pc \in FlushPc \cup SetStatePc \cup PortPc \cup {"restart", "flushEos"}
  BY DEF Main, MainUnblock, MainSwap, MainJoin, MainReblock, MainCheck, MainPopulate,
     MainUnpopulate, MainStart, MainStop, MainSwitch, MainInvalid, MainRestart, MainFlushEos,
     MainBlock, MainRestartPort, MainWaitEmpty, MainWaitFull, MainReopen, MainEnabled,
     FlushPc, SetStatePc, PortPc
<1>2. main.task \in StateTasks \cup PortCommands /\ main.pc # "take"
  BY <1>1 DEF IInv, TaskOfPc, CommandOfPc, FlushPc, SetStatePc, PortPc
<1>3. CASE MainReblock
  <2>1. GoesOn
    BY <1>2, <1>3, ReblockStep, TaskFacts DEF MainReblock, GoesOn
  <2>2. QED
    BY <1>2, <1>3, <2>1 DEF MainReblock
<1>4. CASE ~MainReblock
  <2>1. UNCHANGED mainQ
    BY <1>4 DEF Main, MainUnblock, MainSwap, MainJoin, MainCheck, MainPopulate,
       MainUnpopulate, MainStart, MainStop, MainSwitch, MainInvalid, MainRestart,
       MainFlushEos, MainBlock, MainRestartPort, MainWaitEmpty, MainWaitFull, MainReopen,
       MainEnabled
  <2>2. \/ Ends
        \/ /\ UNCHANGED outstanding
           /\ \E pc \in {"swap", "join", "reblock", "populateIn", "populateOut",
                         "unpopulateIn", "unpopulateOut", "start", "stop", "switch", "invalid",
                         "restartPort", "waitEmpty", "reopen", "enabled"} : Goto(pc)
        \/ UNCHANGED outstanding /\ main.pc = "restart" /\ Goto("flushEos")
    BY <1>4 DEF Ends, Main, MainUnblock, MainSwap, MainJoin, MainCheck, MainPopulate,
       MainUnpopulate, MainStart, MainStop, MainSwitch, MainInvalid, MainRestart,
       MainFlushEos, MainBlock, MainRestartPort, MainWaitEmpty, MainWaitFull, MainReopen,
       MainEnabled
  <2>3. QED
    BY <1>2, <2>1, <2>2, GoesOnTo DEF CommandOfPc, MainPc
<1>5. QED
  BY <1>3, <1>4

\* a command leaves the queue to be treated, or has nothing left to do
LEMMA TakesCounted ==
  ASSUME IInv, Counted, MainDispatch \/ MainTake
  PROVE  Counted'
<1>1. /\ mainQ # <<>> /\ mainQ' = Tail(mainQ) /\ main.pc = "take"
      /\ mainQ \in Seq(MainTasks) /\ outstanding \in Int
      /\ Head(mainQ) \in MainTasks
  BY SequenceFacts DEF MainDispatch, MainTake, IInv, TypeOK, MainTypeOK, ClientTypeOK
<1>2. /\ Commands(mainQ') \in Nat
      /\ Commands(mainQ) = Commands(mainQ') + One(Head(mainQ) \in CommandTasks)
  <2>1. Tail(mainQ) \in Seq(MainTasks)
    BY <1>1
  <2>2. QED
    BY <1>1, <2>1, CommandsTail, CommandsType
<1>3. \/ main' = main /\ outstanding' = outstanding - One(Head(mainQ) \in CommandTasks)
      \/ /\ main'.task = Head(mainQ) /\ outstanding' = outstanding
         /\ main'.pc \in {"unblock", "check", "waitFull"}
         /\ main'.pc = "waitFull" => main'.task.cmd = "EnablePort"
  <2>1. CASE MainDispatch
    BY <1>1, <2>1, TaskKinds DEF MainDispatch, mainVars, One
  <2>2. CASE MainTake /\ AlreadyDone(Head(mainQ))
    BY <1>1, <2>2, CommandFacts DEF MainTake, AlreadyDone, mainVars, One
  <2>3. CASE MainTake /\ ~AlreadyDone(Head(mainQ))
    <3>1. Head(mainQ) \in StateTasks \cup PortCommands
      BY <1>1, <2>3, MainTaskSplit DEF MainTake
    <3>2. main' = [pc |-> BeginsWith(Head(mainQ)), task |-> Head(mainQ)]
          /\ outstanding' = outstanding
      BY <2>3 DEF MainTake
    <3>3. /\ BeginsWith(Head(mainQ)) \in {"unblock", "check", "waitFull"}
          /\ BeginsWith(Head(mainQ)) = "waitFull" => Head(mainQ).cmd = "EnablePort"
      BY <3>1, TaskFacts DEF BeginsWith
    <3>4. QED
      BY <3>2, <3>3
  <2>4. QED
    BY <2>1, <2>2, <2>3
<1>4. QED
  BY <1>1, <1>2, <1>3 DEF Counted, Accounted, CommandOfPc, One

LEMMA NextCounted == ASSUME IInv, Counted, PatientPlayer, [Next]_vars PROVE Counted'
<1>1. outstanding \in Int /\ mainQ \in Seq(MainTasks)
  BY DEF IInv, TypeOK, ClientTypeOK, MainTypeOK
<1>2. CASE Client \/ Codec \/ UNCHANGED vars
  <2>1. UNCHANGED main
    BY <1>2, PlayerSteps
  <2>2. CASE UNCHANGED <<mainQ, outstanding>>
    BY <2>1, <2>2 DEF Counted, Accounted, CommandOfPc
  <2>3. ASSUME NEW e \in BufferTasks \cup CommandTasks, mainQ' = Append(mainQ, e),
               outstanding' = outstanding + One(e \in CommandTasks)
        PROVE  Counted'
    <3>1. e \in MainTasks
      BY TaskKinds
    <3>2. QED
      BY <2>1, <2>3, <3>1, SentAccounted DEF Counted, CommandOfPc
  <2>4. CASE Sends
    BY <2>3, <2>4 DEF Sends, One
  <2>5. CASE Submits
    BY <1>1, <2>3, <2>5, TaskKinds DEF Submits, One
  <2>6. QED
    BY <1>2, <2>2, <2>4, <2>5, PlayerSteps
<1>3. CASE Workers
  <2>1. UNCHANGED <<mainQ, main, outstanding>>
    BY <1>3 DEF Workers, Worker, WorkerPop, WorkerPassFence, WorkerReturn, WorkerKeep,
       WorkerFill, WorkerEmpty, WorkerEos, mainVars
  <2>2. QED
    BY <2>1 DEF Counted, Accounted, CommandOfPc
<1>4. CASE Main /\ ~MainDispatch /\ ~MainTake
  <2>1. /\ main.task \in StateTasks \cup PortCommands /\ UNCHANGED mainQ
        /\ Ends \/ GoesOn
    BY <1>4, MainGoesOn DEF Counted
  <2>2. Commands(mainQ') = Commands(mainQ) /\ Commands(mainQ) \in Nat
    BY <1>1, <2>1, CommandsType
  <2>3. CASE Ends
    <3>1. /\ main' = [pc |-> "take", task |-> NoTask]
          /\ outstanding' = outstanding - One(main.task \in CommandTasks)
             \/ outstanding' = outstanding
      BY <2>1, <2>3, TaskFacts, CommandFacts DEF Ends, Answer, GiveUp, One
    <3>2. QED
      BY <1>1, <2>2, <3>1, TaskKinds DEF Counted, Accounted, CommandOfPc, One
  <2>4. CASE GoesOn
    BY <2>2, <2>4 DEF Counted, Accounted, CommandOfPc, GoesOn
  <2>5. QED
    BY <2>1, <2>3, <2>4
<1>5. QED
  BY <1>2, <1>3, <1>4, TakesCounted DEF Next

\* nothing but buffers is on its way when one is submitted
LEMMA SubmitsAlone ==
  ASSUME IInv, Counted, Unhindered, Submits
  PROVE  /\ ~OnWay(CommandTasks) /\ main.pc = "take"
         /\ \A i \in DOMAIN mainQ : mainQ[i] \in BufferTasks
<1>1. ~OnWay(CommandTasks)
  BY NoneUnanswered DEF Counted, Submits
<1>2. \A i \in DOMAIN mainQ : mainQ[i] \in BufferTasks
  <2>1. \A i \in DOMAIN mainQ : mainQ[i] \in MainTasks
    BY DEF IInv, TypeOK, MainTypeOK
  <2>2. QED
    BY <1>1, <2>1, TaskKinds DEF Unhindered, OnWay
<1>3. main.pc = "take"
  <2>1. main.task \notin StateTasks \cup PortCommands
    BY <1>1, TaskKinds DEF Unhindered, OnWay
  <2>2. main.pc \in MainPc
    BY DEF IInv, TypeOK, MainTypeOK
  <2>3. QED
    BY <2>1, <2>2 DEF IInv, TaskOfPc, Counted, CommandOfPc, MainPc, FlushPc, SetStatePc, PortPc
<1>4. QED
  BY <1>1, <1>2, <1>3

LEMMA NextUnhindered ==
  ASSUME IInv, Counted, Unhindered, PatientPlayer, [Next]_vars PROVE Unhindered'
<1>1. CASE UNCHANGED <<mainQ, main>>
  BY <1>1 DEF Unhindered, OnWay
<1>2. CASE (Client \/ Codec \/ UNCHANGED vars) /\ Sends
  <2>1. PICK e \in CommandTasks : mainQ' = Append(mainQ, e)
    BY <1>2 DEF Sends
  <2>2. e \in MainTasks /\ e \notin OwnTasks /\ e \notin BufferTasks /\ UNCHANGED main
    BY <1>2, TaskKinds, PlayerSteps
  <2>3. ~OnWay(OwnTasks)'
    BY <2>1, <2>2, OnWayAppend DEF Unhindered
  <2>4. /\ mainQ \in Seq(MainTasks)
        /\ DOMAIN mainQ' = DOMAIN mainQ \cup {Len(mainQ) + 1} /\ mainQ'[Len(mainQ) + 1] = e
        /\ \A i \in DOMAIN mainQ : mainQ'[i] = mainQ[i] /\ i < Len(mainQ) + 1
    BY <2>1, <2>2, AheadAppend DEF IInv, TypeOK, MainTypeOK
  <2>5. \A j \in DOMAIN mainQ : \A i \in DOMAIN mainQ' : i < j => i \in DOMAIN mainQ
    BY <2>1, <2>4
  <2>6. QED
    BY <2>2, <2>3, <2>4, <2>5 DEF Unhindered
<1>3. CASE (Client \/ Codec \/ UNCHANGED vars) /\ Submits
  <2>1. PICK e \in BufferTasks : mainQ' = Append(mainQ, e)
    BY <1>3 DEF Submits
  <2>2. e \in MainTasks /\ e \notin OwnTasks /\ UNCHANGED main
    BY <1>3, TaskKinds, PlayerSteps
  <2>3. ~OnWay(OwnTasks)'
    BY <2>1, <2>2, OnWayAppend DEF Unhindered
  <2>4. /\ DOMAIN mainQ' = DOMAIN mainQ \cup {Len(mainQ) + 1} /\ mainQ'[Len(mainQ) + 1] = e
        /\ \A i \in DOMAIN mainQ : mainQ'[i] = mainQ[i]
    BY <2>1, <2>2, AheadAppend
  <2>5. QED
    BY <1>3, <2>2, <2>3, <2>4, SubmitsAlone DEF Unhindered
<1>4. CASE Workers
  <2>1. UNCHANGED <<mainQ, main>>
    BY <1>4 DEF Workers, Worker, WorkerPop, WorkerPassFence, WorkerReturn, WorkerKeep,
       WorkerFill, WorkerEmpty, WorkerEos, mainVars
  <2>2. QED
    BY <1>1, <2>1
<1>5. CASE MainDispatch \/ MainTake
  <2>1. /\ mainQ # <<>> /\ mainQ' = Tail(mainQ) /\ mainQ \in Seq(MainTasks)
        /\ main' = main \/ main'.task = Head(mainQ)
    BY <1>5 DEF MainDispatch, MainTake, mainVars, IInv, TypeOK, MainTypeOK
  <2>2. ~OnWay(OwnTasks)'
    BY <2>1, OnWayTail DEF Unhindered
  <2>3. /\ 1 \in DOMAIN mainQ /\ Head(mainQ) = mainQ[1]
        /\ \A i \in DOMAIN mainQ' : /\ i + 1 \in DOMAIN mainQ /\ mainQ'[i] = mainQ[i + 1]
                                    /\ 1 < i + 1
        /\ \A i, j \in DOMAIN mainQ' : i < j => i + 1 < j + 1
    BY <2>1
  <2>4. CASE MainDispatch
    BY <2>2, <2>3, <2>4 DEF MainDispatch, mainVars, Unhindered
  <2>5. CASE MainTake
    <3>1. Head(mainQ) \notin BufferTasks
      BY <2>5 DEF MainTake
    <3>2. \A i \in DOMAIN mainQ' : mainQ'[i] \notin BufferTasks
      BY <2>3, <3>1 DEF Unhindered
    <3>3. QED
      BY <2>2, <3>2 DEF Unhindered
  <2>6. QED
    BY <1>5, <2>4, <2>5
<1>6. CASE Main /\ ~MainDispatch /\ ~MainTake
  <2>1. UNCHANGED mainQ /\ main.pc # "take" /\ main'.task \in {main.task, NoTask}
    BY <1>6, MainGoesOn DEF Counted, Ends, Answer, GiveUp, GoesOn
  <2>2. QED
    BY <2>1, TaskKinds DEF Unhindered, OnWay
<1>7. QED
  BY <1>1, <1>2, <1>3, <1>4, <1>5, <1>6, PlayerSteps DEF Next

\* a step that leaves the module and the state alone, in another place of the command
LEMMA StartedFrame ==
  ASSUME Started, UNCHANGED <<state, module>>, main.pc # "switch",
         main'.pc \notin {"switch", "stop", "unpopulateIn", "unpopulateOut"}
  PROVE  Started'
BY DEF Started

\* a decoder that runs runs after a restart, when the codec reports no error
LEMMA RestartStarted ==
  ASSUME IInv, PatientPlayer, ModuleRestart, module = "started" PROVE module' = "started"
<1>1. ~(faults < MaxFaults)
  BY DEF PatientPlayer, IInv, TypeOK, ClientTypeOK
<1>2. QED
  BY <1>1 DEF ModuleRestart, Create

LEMMA CheckStarted == ASSUME IInv, Started, MainCheck PROVE Started'
<1> DEFINE new == main.task.data
<1>1. main.pc = "check" /\ UNCHANGED <<state, module>>
  BY DEF MainCheck, stateVars, moduleVars
<1>2. main.task \in StateTasks /\ new \in States /\ state \in States
  BY <1>1, TaskFacts DEF IInv, TypeOK, TaskOfPc, SetStatePc, StateTypeOK
<1>3. \/ Answer \/ Goto("invalid") \/ Goto("populateIn") \/ Goto("start")
      \/ ToLoaded(state, new) /\ Goto("unpopulateIn")
      \/ ToIdleFromExecutingOrPause(state, new) /\ Goto("stop")
      \/ ~ToExecutingOrPause(state, new) /\ Goto("switch")
  BY DEF MainCheck
<1>4. /\ \A pc \in MainPc : Goto(pc) => main'.pc = pc /\ main'.task = main.task
      /\ Answer => main'.pc = "take"
  BY GotoType, AnswerType DEF IInv, TypeOK, ClientTypeOK
<1>5. {"invalid", "populateIn", "unpopulateIn", "start", "stop", "switch"} \subseteq MainPc
  BY DEF MainPc
<1>6. CASE \/ Answer \/ Goto("invalid") \/ Goto("populateIn") \/ Goto("start")
  BY <1>1, <1>4, <1>5, <1>6, StartedFrame
<1>7. CASE ToLoaded(state, new) /\ Goto("unpopulateIn")
  <2>1. main'.pc = "unpopulateIn" /\ main'.task = main.task /\ new = "Loaded"
    BY <1>4, <1>5, <1>7 DEF ToLoaded
  <2>2. QED
    BY <1>1, <2>1 DEF Started
<1>8. CASE ToIdleFromExecutingOrPause(state, new) /\ Goto("stop")
  <2>1. main'.pc = "stop" /\ main'.task = main.task /\ new = "Idle"
    BY <1>4, <1>5, <1>8 DEF ToIdleFromExecutingOrPause
  <2>2. QED
    BY <1>1, <2>1 DEF Started
<1>9. CASE ~ToExecutingOrPause(state, new) /\ Goto("switch")
  <2>1. main'.pc = "switch" /\ main'.task = main.task /\ ~(state = "Idle" /\ new \in Playing)
    BY <1>4, <1>5, <1>9 DEF ToExecutingOrPause, Playing
  <2>2. QED
    BY <1>1, <2>1 DEF Started
<1>10. QED
  BY <1>3, <1>6, <1>7, <1>8, <1>9

LEMMA NextStarted ==
  ASSUME IInv, Transit, Started, PatientPlayer, [Next]_vars PROVE Started'
<1>1. CASE Client \/ Workers \/ Codec \/ MainDispatch \/ UNCHANGED vars
  BY <1>1, OthersKeepPlace DEF Started
<1>2. CASE MainTake
  <2>1. UNCHANGED <<state, module>> /\ main.pc = "take"
    BY <1>2 DEF MainTake, stateVars, moduleVars
  <2>2. main'.pc \in {"take", "unblock", "check", "waitFull"}
    BY <1>2, TakeStep
  <2>3. QED
    BY <2>1, <2>2, StartedFrame
<1>3. CASE MainUnblock \/ MainSwap \/ MainJoin
  <2>1. /\ UNCHANGED <<state, module>> /\ main.pc \in {"unblock", "swap", "join"}
        /\ \E pc \in {"swap", "join", "reblock"} : Goto(pc)
    BY <1>3 DEF MainUnblock, MainSwap, MainJoin, stateVars, moduleVars
  <2>2. main'.pc \in {"swap", "join", "reblock"}
    BY <2>1, GotoType DEF IInv, TypeOK, MainPc
  <2>3. QED
    BY <2>1, <2>2, StartedFrame
<1>4. CASE MainReblock
  <2>1. UNCHANGED <<state, module>> /\ main.pc = "reblock"
    BY <1>4 DEF MainReblock, stateVars, moduleVars
  <2>2. main'.pc \in {"check", "restart", "block"}
    BY <1>4, ReblockStep
  <2>3. QED
    BY <2>1, <2>2, StartedFrame
<1>5. CASE MainCheck
  BY <1>5, CheckStarted
<1>6. ASSUME NEW d \in Dirs, MainPopulate(d) PROVE Started'
  <2>1. /\ UNCHANGED <<state, module>> /\ main.pc \in {"populateIn", "populateOut"}
        /\ Answer \/ Goto("populateOut") \/ Goto("switch")
    BY <1>6 DEF MainPopulate, stateVars, moduleVars
  <2>2. main'.pc \in {"take", "populateOut", "switch"}
    BY <2>1, GotoType, AnswerType DEF IInv, TypeOK, ClientTypeOK, MainPc
  <2>3. state \in {"Loaded", "WaitForResources"}
    BY <2>1 DEF Transit
  <2>4. QED
    BY <2>1, <2>2, <2>3 DEF Started, Playing
<1>7. ASSUME NEW d \in Dirs, MainUnpopulate(d) PROVE Started'
  <2>1. /\ UNCHANGED <<state, module>> /\ main.pc \in {"unpopulateIn", "unpopulateOut"}
        /\ Answer \/ Goto("unpopulateOut") \/ Goto("switch")
    BY <1>7 DEF MainUnpopulate, moduleVars
  <2>2. \/ main'.pc = "take"
        \/ main'.pc \in {"unpopulateOut", "switch"} /\ main'.task = main.task
    BY <2>1, GotoType, AnswerType DEF IInv, TypeOK, ClientTypeOK, MainPc
  <2>3. state = "Idle" /\ main.task.data = "Loaded"
    BY <2>1 DEF Transit, Started
  <2>4. QED
    BY <2>1, <2>2, <2>3 DEF Started, Playing
<1>8. CASE MainStart
  <2>1. /\ main.pc = "start" /\ UNCHANGED state
        /\ \/ module' = "started" /\ Goto("switch")
           \/ Answer
    BY <1>8 DEF MainStart
  <2>2. state = "Idle" /\ (main'.pc = "take" \/ (main'.pc = "switch" /\ module' = "started"))
    BY <2>1, GotoType, AnswerType DEF IInv, TypeOK, ClientTypeOK, MainPc, Transit
  <2>3. QED
    BY <2>1, <2>2 DEF Started, Playing
<1>9. CASE MainStop
  <2>1. main.pc = "stop" /\ UNCHANGED state /\ Goto("switch")
    BY <1>9 DEF MainStop, stateVars
  <2>2. main'.pc = "switch" /\ main'.task = main.task /\ main.task.data = "Idle"
    BY <2>1, GotoType DEF IInv, TypeOK, MainPc, Started
  <2>3. QED
    BY <2>1, <2>2 DEF Started, Playing
<1>10. CASE MainSwitch
  <2>1. /\ main.pc = "switch" /\ state' = main.task.data /\ module' = module
        /\ main'.pc = "take"
    BY <1>10, AnswerType DEF MainSwitch, moduleVars, IInv, TypeOK, ClientTypeOK
  <2>2. CheckStateTransition(state, main.task.data) = "None" /\ state \in States
    BY <2>1 DEF Transit, SetStatePc, IInv, TypeOK, StateTypeOK
  <2>3. main.task.data \in Playing => state \in {"Idle", "Executing", "Pause"}
    BY <2>2 DEF CheckStateTransition, Incorrect, Playing, States
  <2>4. main.task.data \in Playing => module = "started"
    BY <2>1, <2>3 DEF Started, Playing
  <2>5. QED
    BY <2>1, <2>4 DEF Started
<1>11. CASE MainInvalid
  <2>1. main'.pc = "take" /\ state' = "Invalid"
    BY <1>11, AnswerType DEF MainInvalid, IInv, TypeOK, ClientTypeOK
  <2>2. QED
    BY <2>1 DEF Started, Playing
<1>12. CASE MainRestart \/ MainRestartPort \/ MainReopen
  <2>1. /\ UNCHANGED state /\ ModuleRestart
        /\ main.pc \in {"restart", "restartPort", "reopen"}
        /\ \E pc \in {"flushEos", "waitEmpty", "enabled"} : Goto(pc)
    BY <1>12 DEF MainRestart, MainRestartPort, MainReopen, stateVars
  <2>2. main'.pc \in {"flushEos", "waitEmpty", "enabled"}
    BY <2>1, GotoType DEF IInv, TypeOK, MainPc
  <2>3. QED
    BY <2>1, <2>2, RestartStarted DEF Started
<1>13. CASE MainFlushEos \/ MainBlock \/ MainWaitEmpty \/ MainWaitFull \/ MainEnabled
  <2>1. /\ UNCHANGED <<state, module>>
        /\ main.pc \in {"flushEos", "block", "waitEmpty", "waitFull", "enabled"}
    BY <1>13 DEF MainFlushEos, MainBlock, MainWaitEmpty, MainWaitFull, MainEnabled,
       stateVars, moduleVars
  <2>2. main'.pc \in {"take", "restartPort", "waitEmpty", "reopen", "enabled"}
    BY <1>13, <2>1, PortSteps
  <2>3. QED
    BY <2>1, <2>2, StartedFrame
<1>14. QED
  BY <1>1, <1>2, <1>3, <1>4, <1>5, <1>6, <1>7, <1>8, <1>9, <1>10, <1>11, <1>12, <1>13
     DEF Next, Main

-----------------------------------------------------------------------------
(* Buffers on their way                                                     *)

LEMMA UnblockDrained ==
  ASSUME IInv, Unblock PROVE \A d \in Dirs : Drained(d) => Drained(d)'
<1> SUFFICES ASSUME NEW d \in Dirs, Drained(d) PROVE Drained(d)'
  OBVIOUS
<1>1. \A t : Released(t).cmd = t.cmd
  BY DEF Released, OpenFence
<1>2. worker[d] \in Popped \/ worker[d] = Idling
  BY DEF IInv, TypeOK, WorkersTypeOK
<1>3. worker'[d].task = Released(worker[d].task)
  BY <1>2 DEF Unblock, Popped, Idling
<1>4. fifo'[d] = [i \in DOMAIN fifo[d] |-> Released(fifo[d][i])]
  BY DEF Unblock
<1>5. QED
  BY <1>1, <1>3, <1>4 DEF Drained, HasBuffer

\* no step but a submission puts a buffer on its way
LEMMA EmptiedKept ==
  ASSUME IInv, PatientPlayer, [Next]_vars, Emptied, ~Submits PROVE Emptied'
<1>1. mainQ \in Seq(MainTasks)
  BY DEF IInv, TypeOK, MainTypeOK
<1>2. CASE Client \/ Codec \/ UNCHANGED vars
  <2>1. \A d \in Dirs : Drained(d)'
    BY <1>2, OthersKeepDrained DEF Emptied
  <2>2. \A i \in DOMAIN mainQ' : mainQ'[i] \notin BufferTasks
    <3>1. CASE UNCHANGED mainQ
      BY <3>1 DEF Emptied
    <3>2. CASE Sends
      <4>1. PICK e \in CommandTasks : mainQ' = Append(mainQ, e)
        BY <3>2 DEF Sends
      <4>2. e \in MainTasks /\ e \notin BufferTasks
        BY TaskKinds
      <4>3. QED
        BY <1>1, <4>1, <4>2, SequenceFacts DEF Emptied
    <3>3. QED
      BY <1>2, <3>1, <3>2, PlayerSteps
  <2>3. QED
    BY <2>1, <2>2 DEF Emptied
<1>3. CASE Workers
  <2>1. UNCHANGED mainQ
    BY <1>3 DEF Workers, Worker, WorkerPop, WorkerPassFence, WorkerReturn, WorkerKeep,
       WorkerFill, WorkerEmpty, WorkerEos
  <2>2. QED
    BY <1>3, <2>1, OthersKeepDrained DEF Emptied
<1>4. CASE MainDispatch
  BY <1>1, <1>4, SequenceFacts DEF MainDispatch, Emptied
<1>5. CASE MainTake
  <2>1. mainQ # <<>> /\ mainQ' = Tail(mainQ) /\ UNCHANGED <<fifo, worker>>
    BY <1>5 DEF MainTake, workerVars
  <2>2. \A i \in DOMAIN mainQ' : mainQ'[i] \notin BufferTasks
    BY <1>1, <2>1, SequenceFacts DEF Emptied
  <2>3. QED
    BY <2>1, <2>2, DrainedFrame DEF Emptied
<1>6. CASE Main /\ ~MainDispatch /\ ~MainTake
  <2>1. UNCHANGED mainQ
    BY <1>6 DEF Main, MainUnblock, MainSwap, MainJoin, MainReblock, MainCheck, MainPopulate,
       MainUnpopulate, MainStart, MainStop, MainSwitch, MainInvalid, MainRestart,
       MainFlushEos, MainBlock, MainRestartPort, MainWaitEmpty, MainWaitFull, MainReopen,
       MainEnabled
  <2>2. UNCHANGED <<fifo, worker>> \/ Unblock \/ \E ds \in SUBSET Dirs : Block(ds)
    <3>1. \/ UNCHANGED <<fifo, worker>> \/ Unblock
          \/ Block(reblock) \/ Block(Dirs)
          \/ Block({"out"} \cup (IF ShouldPrealloc THEN {"in"} ELSE {}))
      BY <1>6 DEF Main, MainUnblock, MainSwap, MainJoin, MainReblock, MainCheck, MainPopulate,
         MainUnpopulate, MainStart, MainStop, MainSwitch, MainInvalid, MainRestart,
         MainFlushEos, MainBlock, MainRestartPort, MainWaitEmpty, MainWaitFull, MainReopen,
         MainEnabled, workerVars
    <3>2. reblock \in SUBSET Dirs /\ Dirs \in SUBSET Dirs
          /\ ({"out"} \cup (IF ShouldPrealloc THEN {"in"} ELSE {})) \in SUBSET Dirs
      BY DEF IInv, TypeOK, MainTypeOK, Dirs
    <3>3. QED
      BY <3>1, <3>2
  <2>3. \A d \in Dirs : Drained(d) => Drained(d)'
    BY <2>2, DrainedFrame, UnblockDrained, BlockDrained
  <2>4. QED
    BY <2>1, <2>3 DEF Emptied
<1>7. QED
  BY <1>2, <1>3, <1>4, <1>5, <1>6 DEF Next

\* the flush on the way out of Executing, the state before Pause: nothing is on its way
LEMMA SwitchEmptied ==
  ASSUME IInv, Transit, FlushKnown, Counted, Unhindered, Expecting, main.pc = "switch",
         ~Emptied
  PROVE  state = "Pause" /\ main.task.data = "Executing"
<1> DEFINE new == main.task.data
<1>1. /\ main.task \in StateTasks /\ new \in States /\ state \in States
      /\ CheckStateTransition(state, new) = "None"
  BY TaskFacts DEF IInv, TypeOK, StateTypeOK, TaskOfPc, SetStatePc, Transit
<1>2. \E d \in Dirs : ~Drained(d)
  BY DEF Emptied, Unhindered
<1>3. ~FlushingRequired(state, new)
  BY <1>2 DEF FlushKnown
<1>4. state \in Playing
  BY <1>1 DEF Expecting, CheckStateTransition
<1>5. new \in {"Executing", "Pause", "Idle"} /\ new # state
  BY <1>1, <1>4 DEF CheckStateTransition, Incorrect, States, Playing
<1>6. state # "Executing"
  BY <1>1, <1>3, <1>5 DEF FlushingRequired, GetTransientState, TransientStates
<1>7. state = "Pause" => new # "Idle"
  <2>1. ASSUME new = "Idle" PROVE main.task \in IdleTasks
    BY <1>1, <2>1, TaskSets DEF IdleTasks, Unhindered, OnWay, OwnTasks
  <2>2. QED
    BY <2>1 DEF Expecting, OnWay
<1>8. QED
  BY <1>4, <1>5, <1>6, <1>7 DEF Playing

LEMMA NextExpecting ==
  ASSUME IInv, Transit, FlushKnown, Counted, Unhindered, Expecting, PatientPlayer, [Next]_vars
  PROVE  Expecting'
<1>1. CASE (Client \/ Codec \/ UNCHANGED vars) /\ Submits
  <2>1. PICK e \in BufferTasks : mainQ' = Append(mainQ, e)
    BY <1>1 DEF Submits
  <2>2. UNCHANGED <<state, main>> /\ state \in Playing /\ e \in MainTasks /\ e \notin IdleTasks
    BY <1>1, PlayerSteps, TaskKinds DEF Submits
  <2>3. ~OnWay(IdleTasks)
    BY <1>1, SubmitsAlone, TaskKinds DEF OnWay
  <2>4. ~OnWay(IdleTasks)'
    BY <2>1, <2>2, <2>3, OnWayAppend
  <2>5. QED
    BY <2>2, <2>4 DEF Expecting
<1>2. CASE (Client \/ Codec \/ UNCHANGED vars) /\ ~Submits
  <2>1. UNCHANGED state /\ (Emptied => Emptied')
    BY <1>2, EmptiedKept, PlayerSteps DEF Next
  <2>2. state = "Pause" /\ OnWay(IdleTasks)' => OnWay(IdleTasks)
    <3>1. CASE UNCHANGED mainQ
      BY <1>2, <3>1, PlayerSteps DEF OnWay
    <3>2. CASE Sends
      <4>1. PICK e \in CommandTasks : mainQ' = Append(mainQ, e) /\ (e \in IdleTasks => state # "Pause")
        BY <3>2 DEF Sends
      <4>2. e \in MainTasks /\ UNCHANGED main
        BY <1>2, TaskKinds, PlayerSteps
      <4>3. QED
        BY <4>1, <4>2, OnWayAppend
    <3>3. QED
      BY <1>2, <3>1, <3>2, PlayerSteps
  <2>3. QED
    BY <2>1, <2>2 DEF Expecting
<1>3. CASE (Workers \/ Main) /\ ~MainSwitch /\ ~MainInvalid
  <2>1. ~Submits
    <3>1. mainQ \in Seq(MainTasks)
      BY DEF IInv, TypeOK, MainTypeOK
    <3>2. UNCHANGED mainQ \/ (mainQ # <<>> /\ mainQ' = Tail(mainQ))
      BY <1>3, MainGoesOn DEF Counted, MainDispatch, MainTake, Workers, Worker, WorkerPop,
         WorkerPassFence, WorkerReturn, WorkerKeep, WorkerFill, WorkerEmpty, WorkerEos
    <3>3. \A e : Append(mainQ, e) # mainQ /\ (mainQ # <<>> => Append(mainQ, e) # Tail(mainQ))
      BY <3>1
    <3>4. QED
      BY <3>2, <3>3 DEF Submits
  <2>2. Emptied => Emptied'
    BY <1>3, <2>1, EmptiedKept DEF Next
  <2>3. UNCHANGED state
    BY <1>3, WorkersDo DEF Main, MainDispatch, MainTake, MainUnblock, MainSwap, MainJoin,
       MainReblock, MainCheck, MainPopulate, MainUnpopulate, MainStart, MainStop, MainRestart,
       MainFlushEos, MainBlock, MainRestartPort, MainWaitEmpty, MainWaitFull, MainReopen,
       MainEnabled, stateVars
  <2>4. OnWay(IdleTasks)' => OnWay(IdleTasks)
    <3>1. CASE Workers
      <4>1. UNCHANGED <<mainQ, main>>
        BY <3>1 DEF Workers, Worker, WorkerPop, WorkerPassFence, WorkerReturn, WorkerKeep,
           WorkerFill, WorkerEmpty, WorkerEos, mainVars
      <4>2. QED
        BY <4>1 DEF OnWay
    <3>2. CASE MainDispatch \/ MainTake
      <4>1. /\ mainQ # <<>> /\ mainQ' = Tail(mainQ)
            /\ main' = main \/ main'.task = Head(mainQ)
        BY <3>2 DEF MainDispatch, MainTake, mainVars
      <4>2. QED
        BY <4>1, OnWayTail
    <3>3. CASE Main /\ ~MainDispatch /\ ~MainTake
      <4>1. UNCHANGED mainQ /\ main'.task \in {main.task, NoTask}
        BY <3>3, MainGoesOn DEF Counted, Ends, Answer, GiveUp, GoesOn
      <4>2. QED
        BY <4>1, TaskKinds DEF OnWay
    <3>4. QED
      BY <1>3, <3>1, <3>2, <3>3
  <2>5. QED
    BY <2>2, <2>3, <2>4 DEF Expecting
<1>4. CASE MainSwitch
  <2>1. main.pc = "switch" /\ state' = main.task.data /\ UNCHANGED mainQ
    BY <1>4 DEF MainSwitch
  <2>2. ~Submits
    <3>1. mainQ \in Seq(MainTasks)
      BY DEF IInv, TypeOK, MainTypeOK
    <3>2. QED
      BY <2>1, <3>1 DEF Submits
  <2>3. CASE Emptied
    <3>1. Emptied'
      BY <1>4, <2>2, <2>3, EmptiedKept DEF Next, Main
    <3>2. QED
      BY <3>1 DEF Expecting
  <2>4. CASE ~Emptied
    BY <2>1, <2>4, SwitchEmptied DEF Expecting, Playing
  <2>5. QED
    BY <2>3, <2>4
<1>5. CASE MainInvalid
  BY <1>5 DEF MainInvalid, Expecting, Playing
<1>6. QED
  BY <1>1, <1>2, <1>3, <1>4, <1>5 DEF Next

-----------------------------------------------------------------------------
(* The end of a stream                                                      *)

\* what is moved stays where it can be seen, and nothing else ends the stream
LEMMA EosFacts ==
  /\ \A b : EosOf(b) # NoTask
  /\ \A b : \A t \in Fences \cup CommandTasks : t # EosOf(b)
  /\ \A t \in EmptyTasks : t.kind = "emptyEos" => t = EosOf(t.data)
  /\ \A b : \A t : Released(t) = EosOf(b) => t = EosOf(b)
<1>1. \A b : EosOf(b).cmd = "EmptyBuffer"
  BY DEF EosOf
<1>2. \A b : EosOf(b) # NoTask
  BY <1>1, TaskFacts
<1>3. \A b : \A t \in Fences \cup CommandTasks : t # EosOf(b)
  BY <1>1, TaskFacts DEF CommandTasks
<1>4. \A t \in EmptyTasks : t.kind = "emptyEos" => t = EosOf(t.data)
  BY DEF EmptyTasks, EosOf
<1>5. \A b : OpenFence # EosOf(b)
  BY <1>1 DEF OpenFence
<1>6. QED
  BY <1>2, <1>3, <1>4, <1>5 DEF Released

\* the queues as they are, or shorter
LEMMA EosFewer ==
  ASSUME OneEos, codecPc' # "eosClear",
         \A b \in InBuffers : EosAt(b)' => EosAt(b)
  PROVE  OneEos'
BY DEF OneEos

LEMMA AppendEos ==
  ASSUME IInv, NEW e \in MainTasks, mainQ' = Append(mainQ, e),
         UNCHANGED <<fifo, worker, eosHandle>>, NEW b, EosAt(b)'
  PROVE  EosAt(b) \/ e = EosOf(b)
<1>1. mainQ \in Seq(MainTasks)
  BY DEF IInv, TypeOK, MainTypeOK
<1>2. \A i \in DOMAIN mainQ' : mainQ'[i] = e \/ \E j \in DOMAIN mainQ : mainQ'[i] = mainQ[j]
  BY <1>1, SequenceFacts
<1>3. QED
  BY <1>2 DEF EosAt

LEMMA TailEos ==
  ASSUME IInv, mainQ # <<>>, mainQ' = Tail(mainQ),
         UNCHANGED fifo \/ \E d \in Dirs : fifo' = [fifo EXCEPT ![d] = Append(@, Head(mainQ))],
         Head(mainQ) \in BufferTasks \/ UNCHANGED fifo,
         UNCHANGED <<worker, eosHandle>>, NEW b, EosAt(b)'
  PROVE  EosAt(b)
<1>1. mainQ \in Seq(MainTasks) /\ fifo["in"] \in Seq(Fences \cup BufferTasks) /\ "in" \in Dirs
  BY DEF IInv, TypeOK, MainTypeOK, WorkersTypeOK, Dirs
<1>2. /\ 1 \in DOMAIN mainQ /\ Head(mainQ) = mainQ[1]
      /\ \A i \in DOMAIN mainQ' : \E j \in DOMAIN mainQ : mainQ'[i] = mainQ[j]
  BY <1>1, SequenceFacts
<1>3. \A i \in DOMAIN fifo'["in"] :
        fifo'["in"][i] = Head(mainQ) \/ \E j \in DOMAIN fifo["in"] : fifo'["in"][i] = fifo["in"][j]
  <2>1. CASE UNCHANGED fifo
    BY <2>1
  <2>2. CASE Head(mainQ) \in BufferTasks /\ fifo'["in"] = Append(fifo["in"], Head(mainQ))
    BY <1>1, <2>2, SequenceFacts
  <2>3. UNCHANGED fifo \/ fifo'["in"] = fifo["in"] \/ fifo'["in"] = Append(fifo["in"], Head(mainQ))
    BY <1>1 DEF IInv, TypeOK, WorkersTypeOK
  <2>4. QED
    BY <2>1, <2>2, <2>3
<1>4. QED
  BY <1>2, <1>3 DEF EosAt

LEMMA ClientOneEos == ASSUME IInv, EosKnown, OneEos, PatientPlayer, Client PROVE OneEos'
<1>1. UNCHANGED <<fifo, worker, eosHandle, codecPc>>
  <2>1. \A c : SendCommand(c) => UNCHANGED <<fifo, worker, eosHandle, codecPc>>
    BY DEF SendCommand, workerVars, eosVars
  <2>2. QED
    BY <2>1 DEF Client, SendSecondHalf, UseBuffer, FreeBuffer, FillThisBuffer,
       EmptyThisBuffer, UseBufferFails, workerVars, eosVars
<1>2. ASSUME NEW e \in MainTasks, mainQ' = Append(mainQ, e),
             \A b \in InBuffers : e # EosOf(b)
      PROVE  OneEos'
  BY <1>1, <1>2, AppendEos, EosFewer DEF OneEos
<1>3. ASSUME NEW c \in {m[2] : m \in {m \in MaySend : m[1] = state}}, SendCommand(c)
      PROVE  OneEos'
  <2>1. \E e \in StateTasks \cup PortCommands : mainQ' = Append(mainQ, e)
    BY <1>3, ClientAssumption, SendQueues
  <2>2. \A e \in StateTasks \cup PortCommands : e \in MainTasks /\ \A b : e # EosOf(b)
    BY TaskFacts DEF MainTasks, EosOf
  <2>3. QED
    BY <1>2, <2>1, <2>2
<1>4. CASE SendSecondHalf
  <2>1. half.cmd \in {"Flush", "DisablePort", "EnablePort"} /\ "out" \in Dirs
        /\ QueuePortCommand(half.cmd, "out")
    BY <1>4 DEF SendSecondHalf, IInv, TypeOK, ClientTypeOK, AllCommands, Dirs
  <2>2. mainQ' = Append(mainQ, Ask(half.cmd, "out")) /\ Ask(half.cmd, "out") \in CommandTasks
    BY <2>1, UnloadFacts DEF QueuePortCommand, Ask
  <2>3. QED
    BY <1>2, <2>1, <2>2, EosFacts, TaskKinds
<1>5. ASSUME NEW b \in Buffers, FillThisBuffer(b) PROVE OneEos'
  <2> DEFINE e == [cmd |-> "FillBuffer", data |-> b]
  <2>1. e \in MainTasks /\ e.cmd = "FillBuffer"
    BY <1>5 DEF FillThisBuffer, FillTasks, BufferTasks, MainTasks
  <2>2. \A a \in InBuffers : e # EosOf(a)
    BY <2>1 DEF EosOf
  <2>3. mainQ' = Append(mainQ, e)
    BY <1>5 DEF FillThisBuffer
  <2> HIDE DEF e
  <2>4. QED
    BY <1>2, <2>1, <2>2, <2>3
<1>6. ASSUME NEW b \in InBuffers, NEW k \in Kinds, EmptyThisBuffer(b, k) PROVE OneEos'
  <2> DEFINE e == [cmd |-> "EmptyBuffer", data |-> b, kind |-> k]
  <2>1. e \in MainTasks /\ e.kind = k /\ e.data = b
    BY ClientAssumption DEF EmptyTasks, BufferTasks, MainTasks
  <2>2. mainQ' = Append(mainQ, e)
    BY <1>6 DEF EmptyThisBuffer
  <2>3. \A a : EosOf(a).kind = "emptyEos" /\ EosOf(a).data = a
    BY DEF EosOf
  <2>4. CASE k # "emptyEos"
    <3>1. \A a \in InBuffers : e # EosOf(a)
      BY <2>1, <2>3, <2>4
    <3>2. QED
      BY <1>2, <2>1, <2>2, <3>1
  <2>5. CASE k = "emptyEos"
    <3>1. dangling = {}
      BY DEF EosKnown, PatientPlayer
    <3>2. \A a \in InBuffers : ~EosAt(a)
      <4>1. \A a \in InBuffers : ~EndsStream(a)
        BY <1>6, <2>5 DEF EmptyThisBuffer, PatientPlayer
      <4>2. \A a \in InBuffers : EosAt(a) => EndsStream(a)
        BY <3>1 DEF EndsStream, EosAt, EosOf
      <4>3. QED
        BY <4>1, <4>2
    <3>3. \A a \in InBuffers : EosAt(a)' => a = b
      BY <1>1, <2>1, <2>2, <2>3, <3>2, AppendEos
    <3>4. QED
      BY <1>1, <3>3 DEF OneEos
  <2>6. QED
    BY <2>4, <2>5
<1>7. ASSUME \/ \E b \in Buffers : UseBuffer(b) \/ FreeBuffer(b)
             \/ \E d \in Dirs : UseBufferFails(d)
      PROVE  OneEos'
  <2>1. UNCHANGED mainQ
    BY <1>7 DEF UseBuffer, FreeBuffer, UseBufferFails
  <2>2. QED
    BY <1>1, <2>1 DEF OneEos, EosAt
<1>8. QED
  BY <1>3, <1>4, <1>5, <1>6, <1>7 DEF Client

LEMMA WorkersOneEos == ASSUME IInv, OneEos, Workers PROVE OneEos'
<1>1. UNCHANGED <<mainQ, codecPc>>
  BY DEF Workers, Worker, WorkerPop, WorkerPassFence, WorkerReturn, WorkerKeep, WorkerFill,
     WorkerEmpty, WorkerEos, eosVars
<1>2. "in" \in Dirs /\ "out" \in Dirs /\ "in" # "out"
  BY DEF Dirs
<1>3. ASSUME NEW d \in Dirs, Finish(d), eosHandle'["in"] = eosHandle["in"],
             NEW b, EosAt(b)'
      PROVE  EosAt(b)
  <2>1. UNCHANGED fifo /\ worker'["in"].task \in {worker["in"].task, NoTask}
    BY <1>2, <1>3 DEF Finish, Idling, IInv, TypeOK, WorkersTypeOK
  <2>2. QED
    BY <1>1, <1>3, <2>1, EosFacts DEF EosAt
<1>4. ASSUME NEW d \in Dirs, WorkerPop(d), NEW b, EosAt(b)' PROVE EosAt(b)
  <2>1. /\ fifo[d] # <<>> /\ fifo[d] \in Seq(Fences \cup BufferTasks)
        /\ \A f \in Dirs : f # d => fifo'[f] = fifo[f] /\ worker'[f] = worker[f]
        /\ fifo'[d] = Tail(fifo[d]) /\ worker'[d].task = Head(fifo[d])
        /\ UNCHANGED eosHandle
    BY <1>4 DEF WorkerPop, IInv, TypeOK, WorkersTypeOK, eosVars
  <2>2. /\ 1 \in DOMAIN fifo[d] /\ Head(fifo[d]) = fifo[d][1]
        /\ \A i \in DOMAIN fifo'[d] : \E j \in DOMAIN fifo[d] : fifo'[d][i] = fifo[d][j]
    BY <2>1, SequenceFacts
  <2>3. /\ \/ worker'["in"].task = worker["in"].task
           \/ \E j \in DOMAIN fifo["in"] : worker'["in"].task = fifo["in"][j]
        /\ \A i \in DOMAIN fifo'["in"] : \E j \in DOMAIN fifo["in"] :
             fifo'["in"][i] = fifo["in"][j]
    <3>1. CASE d = "in"
      BY <2>1, <2>2, <3>1
    <3>2. CASE d # "in"
      <4>1. worker'["in"] = worker["in"] /\ fifo'["in"] = fifo["in"]
        BY <1>2, <2>1, <3>2
      <4>2. QED
        BY <4>1
    <3>3. QED
      BY <3>1, <3>2
  <2>4. QED
    BY <1>1, <1>4, <2>1, <2>3 DEF EosAt
<1>5. CASE WorkerEos
  <2>1. /\ Finish("in") /\ HasBuffer("in") /\ worker["in"].task.kind = "emptyEos"
        /\ eosHandle' = [eosHandle EXCEPT !["in"] = worker["in"].task.data]
    BY <1>5 DEF WorkerEos, Processes
  <2>2. worker["in"].task = EosOf(worker["in"].task.data)
    BY <1>2, <2>1, HandFacts, EosFacts DEF IInv, TypeOK
  <2>3. eosHandle'["in"] = worker["in"].task.data
    BY <1>2, <2>1 DEF IInv, TypeOK, ModuleTypeOK
  <2>4. UNCHANGED fifo /\ worker'["in"].task = NoTask
    BY <1>2, <2>1 DEF Finish, Idling, IInv, TypeOK, WorkersTypeOK
  <2>5. \A b : EosAt(b)' => EosAt(b)
    BY <1>1, <2>2, <2>3, <2>4, EosFacts DEF EosAt
  <2>6. QED
    BY <1>1, <2>5, EosFewer DEF OneEos
<1>6. CASE ~WorkerEos
  <2>1. \E d \in Dirs :
          WorkerPop(d) \/ (Finish(d) /\ eosHandle'["in"] = eosHandle["in"])
    <3>1. \A d \in Dirs : Worker(d) =>
            WorkerPop(d) \/ (Finish(d) /\ eosHandle'["in"] = eosHandle["in"])
      BY DEF Worker, WorkerPassFence, WorkerReturn, eosVars
    <3>2. WorkerKeep \/ WorkerFill => Finish("out") /\ eosHandle'["in"] = eosHandle["in"]
      BY <1>2 DEF WorkerKeep, WorkerFill, eosVars, IInv, TypeOK, ModuleTypeOK
    <3>3. WorkerEmpty => Finish("in") /\ eosHandle'["in"] = eosHandle["in"]
      BY DEF WorkerEmpty, eosVars
    <3>4. QED
      BY <1>2, <1>6, <3>1, <3>2, <3>3 DEF Workers
  <2>2. \A b : EosAt(b)' => EosAt(b)
    BY <1>3, <1>4, <2>1
  <2>3. QED
    BY <1>1, <2>2, EosFewer DEF OneEos
<1>7. QED
  BY <1>5, <1>6

LEMMA CodecOneEos ==
  ASSUME IInv, OneEos, PatientPlayer, Codec \/ UNCHANGED vars PROVE OneEos'
<1>1. ~CodecError
  BY DEF CodecError, PatientPlayer, IInv, TypeOK, ClientTypeOK
<1>2. ~CodecEosClear
  BY DEF CodecEosClear, OneEos
<1>3. UNCHANGED <<mainQ, fifo, worker>>
  BY <1>1, <1>2 DEF Codec, CodecReturns, CodecEos, CodecFinishesEos, CodecEosIn, CodecEosOut,
     vars, workerVars
<1>4. codecPc' # "eosClear"
  BY <1>1, <1>2 DEF Codec, CodecReturns, CodecEos, CodecFinishesEos, CodecEosIn, CodecEosOut,
     vars, eosVars, OneEos, PatientPlayer
<1>5. eosHandle'["in"] \in {eosHandle["in"], None}
  <2>1. \A d \in Dirs : EosReturn(d) => eosHandle'["in"] \in {eosHandle["in"], None}
    BY DEF EosReturn, Dirs, IInv, TypeOK, ModuleTypeOK
  <2>2. QED
    BY <1>1, <1>2, <2>1 DEF Codec, CodecReturns, CodecEos, CodecFinishesEos, CodecEosIn,
       CodecEosOut, vars, eosVars, Dirs
<1>6. \A b \in InBuffers : EosAt(b)' => EosAt(b)
  BY <1>3, <1>5, BuffersAssumption DEF EosAt, Buffers
<1>7. QED
  BY <1>3, <1>4, <1>6, EosFewer

LEMMA MainOneEos == ASSUME IInv, Counted, OneEos, Main PROVE OneEos'
<1>1. UNCHANGED codecPc
  BY DEF Main, MainDispatch, MainTake, MainUnblock, MainSwap, MainJoin, MainReblock,
     MainCheck, MainPopulate, MainUnpopulate, MainStart, MainStop, MainSwitch, MainInvalid,
     MainRestart, MainFlushEos, MainBlock, MainRestartPort, MainWaitEmpty, MainWaitFull,
     MainReopen, MainEnabled, eosVars
<1>2. CASE MainDispatch \/ MainTake
  <2>1. /\ mainQ # <<>> /\ mainQ' = Tail(mainQ) /\ UNCHANGED <<worker, eosHandle>>
        /\ \/ UNCHANGED fifo
           \/ /\ Head(mainQ) \in BufferTasks
              /\ \E d \in Dirs : fifo' = [fifo EXCEPT ![d] = Append(@, Head(mainQ))]
    BY <1>2 DEF MainDispatch, MainTake, eosVars, workerVars, Dirs
  <2>2. \A b : EosAt(b)' => EosAt(b)
    BY <2>1, TailEos
  <2>3. QED
    BY <1>1, <2>2, EosFewer DEF OneEos
<1>3. CASE ~MainDispatch /\ ~MainTake
  <2>1. UNCHANGED mainQ
    BY <1>3, MainGoesOn DEF Counted
  <2>2. eosHandle'["in"] \in {eosHandle["in"], None}
    BY <1>3 DEF Main, MainUnblock, MainSwap, MainJoin, MainReblock, MainCheck, MainPopulate,
       MainUnpopulate, MainStart, MainStop, MainSwitch, MainInvalid, MainRestart,
       MainFlushEos, MainBlock, MainRestartPort, MainWaitEmpty, MainWaitFull, MainReopen,
       MainEnabled, eosVars, Dirs
  <2>3. \/ UNCHANGED <<fifo, worker>> \/ Unblock
        \/ Block(reblock) \/ Block(Dirs)
        \/ Block({"out"} \cup (IF ShouldPrealloc THEN {"in"} ELSE {}))
    BY <1>3 DEF Main, MainUnblock, MainSwap, MainJoin, MainReblock, MainCheck, MainPopulate,
       MainUnpopulate, MainStart, MainStop, MainSwitch, MainInvalid, MainRestart,
       MainFlushEos, MainBlock, MainRestartPort, MainWaitEmpty, MainWaitFull, MainReopen,
       MainEnabled, workerVars
  <2>4. /\ \A b : worker'["in"].task = EosOf(b) => worker["in"].task = EosOf(b)
        /\ \A b : \A i \in DOMAIN fifo'["in"] : fifo'["in"][i] = EosOf(b) =>
             \E j \in DOMAIN fifo["in"] : fifo["in"][j] = EosOf(b)
    <3>1. CASE UNCHANGED <<fifo, worker>>
      BY <3>1
    <3>2. CASE Unblock
      <4>1. worker["in"] \in Popped \/ worker["in"] = Idling
        BY DEF IInv, TypeOK, WorkersTypeOK, Dirs
      <4>2. worker'["in"].task = Released(worker["in"].task)
        BY <3>2, <4>1 DEF Unblock, Popped, Idling, Dirs
      <4>3. fifo'["in"] = [i \in DOMAIN fifo["in"] |-> Released(fifo["in"][i])]
        BY <3>2 DEF Unblock, Dirs
      <4>4. QED
        BY <4>2, <4>3, EosFacts
    <3>3. ASSUME NEW ds, Block(ds)
          PROVE  /\ UNCHANGED worker
                 /\ fifo'["in"] \in {fifo["in"], Append(fifo["in"], ClosedFence)}
      BY <3>3 DEF Block, Dirs
    <3>4. CASE /\ UNCHANGED worker
               /\ fifo'["in"] \in {fifo["in"], Append(fifo["in"], ClosedFence)}
      <4>1. fifo["in"] \in Seq(Fences \cup BufferTasks) /\ ClosedFence \in Fences
        BY FenceTypes DEF IInv, TypeOK, WorkersTypeOK, Dirs
      <4>2. \A i \in DOMAIN fifo'["in"] :
              fifo'["in"][i] = ClosedFence \/ \E j \in DOMAIN fifo["in"] : fifo'["in"][i] = fifo["in"][j]
        BY <3>4, <4>1, SequenceFacts
      <4>3. QED
        BY <3>4, <4>1, <4>2, EosFacts
    <3>5. QED
      BY <2>3, <3>1, <3>2, <3>3, <3>4
  <2>5. \A b \in InBuffers : EosAt(b)' => EosAt(b)
    BY <2>1, <2>2, <2>4, BuffersAssumption DEF EosAt, Buffers
  <2>6. QED
    BY <1>1, <2>5, EosFewer DEF OneEos
<1>4. QED
  BY <1>2, <1>3

LEMMA NextOneEos ==
  ASSUME IInv, EosKnown, Counted, OneEos, PatientPlayer, [Next]_vars PROVE OneEos'
BY ClientOneEos, WorkersOneEos, CodecOneEos, MainOneEos DEF Next

-----------------------------------------------------------------------------
(* Nothing is refused or forgotten                                          *)

\* what a worker hands over finds the decoder started
LEMMA HandsOver ==
  ASSUME BInv, Lossless, NEW d \in Dirs, Processes(d) PROVE module = "started"
<1>1. ~Emptied
  BY DEF Processes, Emptied, Drained
<1>2. state \in Playing
  BY <1>1 DEF Lossless, Expecting, Processes
<1>3. main.pc = "switch" => main.task.data = "Executing"
  BY <1>1, SwitchEmptied DEF BInv, Lossless
<1>4. QED
  BY <1>2, <1>3 DEF Lossless, Started

\* the empty buffer that ends the stream finds none kept
LEMMA NoneKept ==
  ASSUME BInv, Lossless, PatientPlayer, HasBuffer("in"),
         worker["in"].task.kind = "emptyEos"
  PROVE  eosHandle["in"] = None
<1> DEFINE x == worker["in"].task.data
           y == eosHandle["in"]
<1> SUFFICES ASSUME y # None PROVE FALSE
  OBVIOUS
<1>1. "in" \in Dirs /\ BuffersOf("in") = InBuffers
  BY DEF Dirs, BuffersOf
<1>2. worker["in"].task \in EmptyTasks /\ x \in InBuffers /\ y \in InBuffers
  BY <1>1, HandFacts, TaskFacts DEF BInv, IInv, TypeOK, Placed
<1>3. worker["in"].task = EosOf(x)
  BY <1>2, EosFacts
<1>4. x = y
  BY <1>2, <1>3 DEF Lossless, OneEos, EosAt
<1>5. y \in Buffers /\ DirOf(y) = "in" /\ dangling = {}
  BY <1>1, <1>2, DirFacts DEF BInv, EosKnown, PatientPlayer
<1>6. Kept(y) /\ Carries(worker["in"].task, y)
  BY <1>1, <1>4, <1>5 DEF Kept, Carries, HasBuffer
<1>7. Copies(y) = One(y \in portBuffers["in"])
  BY <1>5 DEF BInv, Conservation
<1>8. Queued(mainQ, y) \in Nat /\ Queued(fifo["in"], y) \in Nat
  BY <1>5, CountTypes DEF BInv
<1> HIDE DEF x, y
<1>9. QED
  BY <1>5, <1>6, <1>7, <1>8 DEF Copies, One

LEMMA NextNothingLost ==
  ASSUME BInv, Lossless, PatientPlayer, [Next]_vars PROVE NothingLost'
<1>1. CASE WorkerFill
  <2>1. Processes("out") /\ ModuleTakes(worker["out"].task.data) /\ "out" \in Dirs
    BY <1>1 DEF WorkerFill, Dirs
  <2>2. QED
    BY <2>1, HandsOver DEF ModuleTakes, Lossless, NothingLost
<1>2. CASE WorkerEmpty
  <2>1. Processes("in") /\ ModuleTakes(worker["in"].task.data) /\ "in" \in Dirs
    BY <1>2 DEF WorkerEmpty, Dirs
  <2>2. QED
    BY <2>1, HandsOver DEF ModuleTakes, Lossless, NothingLost
<1>3. CASE WorkerEos
  <2>1. HasBuffer("in") /\ worker["in"].task.kind = "emptyEos"
    BY <1>3 DEF WorkerEos, Processes
  <2>2. QED
    BY <1>3, <2>1, NoneKept DEF WorkerEos, Lossless, NothingLost
<1>4. CASE CodecEosClear
  BY <1>4 DEF CodecEosClear, Lossless, OneEos
<1>5. CASE ~(WorkerFill \/ WorkerEmpty \/ WorkerEos \/ CodecEosClear)
  <2>1. CASE Client
    <3>1. \A c : SendCommand(c) => UNCHANGED lost
      BY DEF SendCommand
    <3>2. UNCHANGED lost
      BY <2>1, <3>1 DEF Client, SendSecondHalf, UseBuffer, FreeBuffer, FillThisBuffer,
         EmptyThisBuffer, UseBufferFails
    <3>3. QED
      BY <3>2 DEF Lossless, NothingLost
  <2>2. CASE Workers \/ Codec \/ UNCHANGED vars
    <3>1. UNCHANGED lost
      BY <1>5, <2>2 DEF Workers, Worker, WorkerPop, WorkerPassFence, WorkerReturn, WorkerKeep,
         Codec, CodecReturns, CodecEos, CodecFinishesEos, CodecEosIn, CodecEosOut, CodecError,
         vars
    <3>2. QED
      BY <3>1 DEF Lossless, NothingLost
  <2>3. CASE Main
    <3>1. UNCHANGED lost
      BY <2>3 DEF Main, MainDispatch, MainTake, MainUnblock, MainSwap, MainJoin, MainReblock,
         MainCheck, MainPopulate, MainUnpopulate, MainStart, MainStop, MainSwitch,
         MainInvalid, MainRestart, MainFlushEos, MainBlock, MainRestartPort, MainWaitEmpty,
         MainWaitFull, MainReopen, MainEnabled
    <3>2. QED
      BY <3>1 DEF Lossless, NothingLost
  <2>4. QED
    BY <2>1, <2>2, <2>3 DEF Next
<1>6. QED
  BY <1>1, <1>2, <1>3, <1>4, <1>5

LEMMA InitLossless == Init => Lossless
<1>1. ASSUME Init PROVE Lossless
  <2>1. /\ mainQ = <<>> /\ main.pc = "take" /\ main.task = NoTask /\ outstanding = 0
        /\ state = "Loaded" /\ module = "stopped" /\ codecPc = "idle" /\ lost = {}
        /\ \A d \in Dirs : fifo[d] = <<>> /\ worker[d].task = NoTask /\ eosHandle[d] = None
    BY <1>1 DEF Init, Idling
  <2>2. DOMAIN mainQ = {} /\ "in" \in Dirs
    BY <2>1 DEF Dirs
  <2>3. Counted
    BY <1>1, InitFlow DEF Counted, Flow
  <2>4. Unhindered
    BY <2>1, <2>2, TaskKinds DEF Unhindered, OnWay
  <2>5. ModulePlace /\ Started
    BY <2>1 DEF ModulePlace, Started, Playing
  <2>6. Expecting
    <3>1. \A d \in Dirs : Drained(d)
      BY <2>1, TaskFacts DEF Drained, HasBuffer
    <3>2. QED
      BY <2>2, <3>1 DEF Expecting, Emptied
  <2>7. OneEos
    <3>1. DOMAIN fifo["in"] = {}
      BY <2>1, <2>2
    <3>2. \A b \in InBuffers : ~EosAt(b)
      BY <2>1, <2>2, <3>1, EosFacts, BuffersAssumption DEF EosAt, Buffers
    <3>3. QED
      BY <2>1, <3>2 DEF OneEos
  <2>8. QED
    BY <2>1, <2>3, <2>4, <2>5, <2>6, <2>7 DEF Lossless, NothingLost
<1>2. QED
  BY <1>1

LEMMA NextLossless ==
  ASSUME BInv, Lossless, PatientPlayer, [Next]_vars PROVE Lossless'
<1>1. IInv /\ Transit /\ FlushKnown /\ EosKnown /\ Counted /\ Unhindered /\ ModulePlace
      /\ Started /\ Expecting /\ OneEos /\ Decoder
  BY DEF BInv, Lossless, PatientPlayer
<1>2. ModulePlace'
  <2>1. CASE Main
    BY <1>1, <2>1, MainKeepsPlace
  <2>2. CASE Client \/ Workers \/ Codec \/ UNCHANGED vars
    BY <1>1, <2>2, OthersKeepPlace DEF ModulePlace, Streaming
  <2>3. QED
    BY <2>1, <2>2 DEF Next
<1>3. QED
  BY <1>1, <1>2, NextCounted, NextUnhindered, NextStarted, NextExpecting, NextOneEos,
     NextNothingLost DEF Lossless

(* No buffer a patient player submits is refused by the decoder or forgotten in  *)
(* eosHandles: it is handed over while the module is started, and an empty        *)
(* buffer that ends a stream finds none kept (TreatEmptyBufferCommand,            *)
(* TreatFillBufferCommand, TreatSetStateCommand), however many streams end.       *)
THEOREM NothingLostHolds == ASSUME PatientPlayer PROVE Spec => []NothingLost
<1>1. BInv /\ Lossless /\ [Next]_vars => Lossless'
  BY NextLossless
<1>2. Lossless => NothingLost
  BY DEF Lossless
<1>3. QED
  BY <1>1, <1>2, InitLossless, BuffersInductive, PTL DEF Spec
=============================================================================
