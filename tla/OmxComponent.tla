---------------------------- MODULE OmxComponent ----------------------------
(***************************************************************************)
(* The OpenMAX IL component: base/omx_component/omx_component.cpp with the   *)
(* parts of omx_component_enc.cpp and omx_component_dec.cpp that decide who   *)
(* owns a buffer.  Four kinds of thread meet here:                           *)
(*   - the client, which calls SendCommand, UseBuffer, FreeBuffer,            *)
(*     EmptyThisBuffer and FillThisBuffer;                                   *)
(*   - "OMX - Sched", the worker of processorMain, which treats commands and  *)
(*     hands buffers to the two other workers (MainX actions);               *)
(*   - "OMX - In" and "OMX - Out", the workers of processorEmpty and          *)
(*     processorFill, which hand buffers to the module (WorkerX actions);     *)
(*   - the threads of the codec library, which call the component back        *)
(*     (CodecX actions).                                                     *)
(* The FIFOs are atomic queues here; LockedQueue and ProcessorFifo justify    *)
(* that.  Ports are named by their direction.                                *)
(***************************************************************************)
EXTENDS OmxChecker, Integers, Sequences, FiniteSets

CONSTANTS
  InBuffers,      \* headers the client may allocate on the input port
  OutBuffers,     \* and on the output port
  None,           \* the null handle
  Expected,       \* [Dirs -> Nat]: nBufferCountActual of each port
  Decoder,        \* TRUE: DecComponent and DecModule, FALSE: the encoder's
  ShouldPrealloc, \* the member shouldPrealloc
  MaySend,        \* pairs <<state, command>>: what the client sends, and when
  SubmitStates,   \* the states in which the client submits buffers
  Kinds,          \* the kinds of input buffers the client submits
  Patient,        \* TRUE: the client waits, as the sample applications do, for
                  \* its commands to complete before it submits a buffer,
                  \* allocates and frees only when a command calls for it,
                  \* and ends a stream with an empty buffer only when it
                  \* has back the one that ended the stream before
  Tidy,           \* TRUE: it has all its headers back, by an end of stream or a
                  \* Flush, when it disables a port or leaves Executing or Pause
  MaxCommands,    \* bound: SendCommand calls
  MaxOutstanding, \* bound: commands sent and not yet answered
  MaxEos,         \* bound: input buffers with the EOS flag
  MaxFaults,      \* bound: errors of the codec library
  MaxMisuse       \* bound: failing allocations and frees out of turn

Dirs == {"in", "out"}
Buffers == InBuffers \cup OutBuffers
BuffersOf(d) == IF d = "in" THEN InBuffers ELSE OutBuffers
DirOf(b) == IF b \in InBuffers THEN "in" ELSE "out"

\* nFilledLen and the EOS flag of an input header
AllKinds == {"data", "dataEos", "emptyEos", "empty"}

StateCommands == [cmd : {"SetState"}, data : States]
PortCommands  == [cmd : {"Flush", "DisablePort", "EnablePort"}, data : Dirs]
AllCommands   == [cmd : {"Flush", "DisablePort", "EnablePort"}, data : {"all"}]

ASSUME BuffersAssumption ==
  /\ IsFiniteSet(InBuffers) /\ IsFiniteSet(OutBuffers)
  /\ InBuffers \cap OutBuffers = {} /\ None \notin Buffers
ASSUME ExpectedAssumption == Expected \in [Dirs -> Nat \ {0}]
ASSUME BooleansAssumption == {Decoder, ShouldPrealloc, Patient, Tidy} \subseteq BOOLEAN
ASSUME ClientAssumption ==
  /\ MaySend \subseteq States \X (StateCommands \cup PortCommands \cup AllCommands)
  /\ SubmitStates \subseteq States /\ Kinds \subseteq AllKinds
ASSUME BoundsAssumption ==
  {MaxCommands, MaxOutstanding, MaxEos, MaxFaults, MaxMisuse} \subseteq Nat

VARIABLES
  state, transientState, \* the members of the same names
  shouldFire,            \* shouldFireEventPortSettingsChanges
  enable, toEnable, toDisable, playable, portError, portBuffers, \* struct Port
  mainQ,                 \* the tasks of processorMain
  main,                  \* "OMX - Sched": [pc, task]
  todo, reblock,         \* FlushFillEmptyBuffers: ports still to flush, to block again
  fifo,                  \* the tasks of processorEmpty ("in") and processorFill ("out")
  worker,                \* what each worker has popped: [task, by] or Idling
  handler,               \* their process_: "process", or "delete" in the destructor
  pause,                 \* pauseEmptyPromise, pauseFillPromise are not null
  module,                \* the encoder or decoder: "stopped", "started" or "broken"
  held,                  \* the buffers the module has accepted and not given back
  eosAsked,              \* end-of-stream requests the module has not answered
  codecPc,               \* where the codec's end-of-stream callback is
  eosHandle, dangling,   \* eosHandles; the ones whose handle is already deleted
  client,                \* the allocated headers the client owns
  half,                  \* an OMX_ALL command whose second port is still to be queued
  outstanding,           \* number of the client's commands not yet answered
  sent, eosSent, faults, misuse, \* what the bounds count
  lost                   \* headers whose handle was refused or forgotten

stateVars  == <<state, transientState, shouldFire>>
portVars   == <<enable, toEnable, toDisable, playable, portError, portBuffers>>
mainVars   == <<main, todo, reblock>>
workerVars == <<fifo, worker, handler, pause>>
moduleVars == <<module, held, eosAsked>>
eosVars    == <<codecPc, eosHandle, dangling>>
countVars  == <<sent, eosSent, faults, misuse>>
vars == <<stateVars, portVars, mainQ, mainVars, workerVars, moduleVars, eosVars,
          client, half, outstanding, countVars, lost>>

NoTask == [cmd |-> "none"]
Idling == [task |-> NoTask, by |-> "none"]

Fences      == [cmd : {"SharedFence"}, open : BOOLEAN]
EmptyTasks  == [cmd : {"EmptyBuffer"}, data : InBuffers, kind : AllKinds]
FillTasks   == [cmd : {"FillBuffer"}, data : OutBuffers]
BufferTasks == EmptyTasks \cup FillTasks
StateTasks  == [cmd : {"SetState"}, data : States, opt : BOOLEAN]
MainTasks   == BufferTasks \cup StateTasks \cup PortCommands
WorkerTasks(d) == Fences \cup (IF d = "in" THEN EmptyTasks ELSE FillTasks)
Popped      == [task : Fences \cup BufferTasks, by : {"process", "delete"}]

MainPc == {"take", "unblock", "swap", "join", "reblock",          \* flushing
           "check", "populateIn", "populateOut", "unpopulateIn", "unpopulateOut",
           "start", "stop", "switch", "invalid",                  \* SetState
           "restart", "flushEos",                                 \* Flush
           "block", "restartPort", "waitEmpty",                   \* DisablePort
           "waitFull", "reopen", "enabled"}                       \* EnablePort

StateTypeOK ==
  /\ state \in States /\ transientState \in TransientStates \cup {MaxTransient}
  /\ shouldFire \in BOOLEAN

PortsTypeOK ==
  /\ enable \in [Dirs -> BOOLEAN] /\ toEnable \in [Dirs -> BOOLEAN]
  /\ toDisable \in [Dirs -> BOOLEAN] /\ playable \in [Dirs -> BOOLEAN]
  /\ portError \in [Dirs -> BOOLEAN]
  /\ portBuffers \in [Dirs -> SUBSET Buffers]

MainTypeOK ==
  /\ mainQ \in Seq(MainTasks)
  /\ main \in [pc : MainPc, task : MainTasks \cup {NoTask}]
  /\ todo \subseteq Dirs /\ reblock \subseteq Dirs

WorkersTypeOK ==
  /\ fifo \in [Dirs -> Seq(Fences \cup BufferTasks)]
  /\ \A d \in Dirs : fifo[d] \in Seq(WorkerTasks(d))
  /\ worker \in [Dirs -> Popped \cup {Idling}]
  /\ \A d \in Dirs : worker[d].task \in WorkerTasks(d) \cup {NoTask}
  /\ handler \in [Dirs -> {"process", "delete"}]
  /\ pause \in [Dirs -> BOOLEAN]

ModuleTypeOK ==
  /\ module \in {"stopped", "started", "broken"}
  /\ held \in [Dirs -> SUBSET Buffers] /\ eosAsked \in Nat
  /\ codecPc \in {"idle", "eosIn", "eosOut", "eosClear"}
  /\ eosHandle \in [Dirs -> Buffers \cup {None}] /\ dangling \subseteq Dirs

ClientTypeOK ==
  /\ client \subseteq Buffers /\ lost \subseteq Buffers
  /\ half \in AllCommands \cup {NoTask}
  /\ outstanding \in Int
  /\ sent \in Nat /\ eosSent \in Nat /\ faults \in Nat /\ misuse \in Nat

TypeOK ==
  /\ StateTypeOK /\ PortsTypeOK /\ MainTypeOK /\ WorkersTypeOK
  /\ ModuleTypeOK /\ ClientTypeOK

Init ==
  /\ state = "Loaded" /\ transientState = MaxTransient /\ shouldFire = TRUE
  /\ enable = [d \in Dirs |-> TRUE] /\ toEnable = [d \in Dirs |-> FALSE]
  /\ toDisable = [d \in Dirs |-> FALSE] /\ playable = [d \in Dirs |-> FALSE]
  /\ portError = [d \in Dirs |-> FALSE] /\ portBuffers = [d \in Dirs |-> {}]
  /\ mainQ = <<>> /\ main = [pc |-> "take", task |-> NoTask]
  /\ todo = {} /\ reblock = {}
  /\ fifo = [d \in Dirs |-> <<>>] /\ worker = [d \in Dirs |-> Idling]
  /\ handler = [d \in Dirs |-> "process"] /\ pause = [d \in Dirs |-> FALSE]
  /\ module = "stopped" /\ held = [d \in Dirs |-> {}] /\ eosAsked = 0
  /\ codecPc = "idle" /\ eosHandle = [d \in Dirs |-> None] /\ dangling = {}
  /\ client = {} /\ half = NoTask /\ outstanding = 0
  /\ sent = 0 /\ eosSent = 0 /\ faults = 0 /\ misuse = 0 /\ lost = {}

-----------------------------------------------------------------------------
(* The client                                                              *)

\* CreateCommand for one port: the flags are set in the client's thread, the
\* command is treated later
QueuePortCommand(cmd, d) ==
  /\ mainQ' = Append(mainQ, [cmd |-> cmd, data |-> d])
  /\ outstanding' = outstanding + 1
  /\ IF cmd = "Flush"
     THEN UNCHANGED <<enable, toEnable, toDisable, shouldFire>>
     ELSE /\ enable' = [enable EXCEPT ![d] = (cmd = "EnablePort")]
          /\ IF cmd = "EnablePort"
             THEN toEnable' = [toEnable EXCEPT ![d] = TRUE] /\ UNCHANGED toDisable
             ELSE toDisable' = [toDisable EXCEPT ![d] = TRUE] /\ UNCHANGED toEnable
          /\ shouldFire' = (cmd = "DisablePort")
  /\ UNCHANGED <<state, transientState, playable, portError, portBuffers>>

\* CreateCommand(OMX_CommandStateSet): the transient state is taken from the
\* state of the moment, whatever is queued
QueueStateCommand(s) ==
  /\ transientState' = GetTransientState(state, s)
  /\ mainQ' = Append(mainQ, [cmd |-> "SetState", data |-> s, opt |-> FALSE])
  /\ outstanding' = outstanding + 1
  /\ UNCHANGED <<state, shouldFire, portVars>>

SendCommand(c) ==
  /\ state \notin Refused("SendCommand")
  /\ half = NoTask
  /\ Tidy /\ (c.cmd = "DisablePort" \/ c.data \in {"Idle", "Loaded"}) =>
       client = portBuffers["in"] \cup portBuffers["out"]
  /\ sent < MaxCommands /\ outstanding < MaxOutstanding
  /\ sent' = sent + 1
  /\ IF c.cmd = "SetState" THEN QueueStateCommand(c.data) /\ UNCHANGED half
     ELSE IF c.data = "all" THEN QueuePortCommand(c.cmd, "in") /\ half' = c
     ELSE QueuePortCommand(c.cmd, c.data) /\ UNCHANGED half
  /\ UNCHANGED <<mainVars, workerVars, moduleVars, eosVars, client, eosSent,
                 faults, misuse, lost>>

\* the second turn of CreateCommand's loop for OMX_ALL
SendSecondHalf ==
  /\ half # NoTask
  /\ QueuePortCommand(half.cmd, "out")
  /\ half' = NoTask
  /\ UNCHANGED <<mainVars, workerVars, moduleVars, eosVars, client, countVars, lost>>

\* a command the client knows to be on its way: SetState and a state, or a port
\* command and a port
Awaited(cmd, data) ==
  \E t \in {main.task} \cup {mainQ[i] : i \in DOMAIN mainQ} : t.cmd = cmd /\ t.data = data

MayAllocate(d) == transientState = <<"Loaded", "Idle">> \/ toEnable[d]

NeedsBuffers(d) ==
  /\ Awaited("SetState", "Idle") \/ Awaited("EnablePort", d)
  /\ enable[d] /\ ~playable[d]

\* UseBuffer and AllocateBuffer, with Port::Add
UseBuffer(b) ==
  LET d == DirOf(b) IN
  /\ b \notin portBuffers[d]
  /\ MayAllocate(d)
  /\ Patient => NeedsBuffers(d)
  /\ portBuffers' = [portBuffers EXCEPT ![d] = @ \cup {b}]
  /\ playable' = [playable EXCEPT ![d] = @ \/ Cardinality(portBuffers'[d]) >= Expected[d]]
  /\ client' = client \cup {b}
  /\ UNCHANGED <<stateVars, enable, toEnable, toDisable, portError, mainQ, mainVars,
                 workerVars, moduleVars, eosVars, half, outstanding, countVars, lost>>

\* UseBuffer in the wrong state, or AllocateBuffer without memory: Port::ErrorOccurred
UseBufferFails(d) ==
  /\ misuse < MaxMisuse
  /\ misuse' = misuse + 1
  /\ Patient => NeedsBuffers(d)
  /\ portError' = [portError EXCEPT ![d] = TRUE]
  /\ UNCHANGED <<stateVars, enable, toEnable, toDisable, playable, portBuffers, mainQ,
                 mainVars, workerVars, moduleVars, eosVars, client, half, outstanding,
                 sent, eosSent, faults, lost>>

MayFree(d) == transientState = <<"Idle", "Loaded">> \/ toDisable[d]

\* slip: Port::Remove leaves playable as it is
FreeBufferStillPlayable(b) ==
  LET d == DirOf(b) IN
  /\ b \in client
  /\ IF MayFree(d) THEN UNCHANGED misuse ELSE misuse < MaxMisuse /\ misuse' = misuse + 1
  /\ Patient => Awaited("SetState", "Loaded") \/ Awaited("DisablePort", d)
  /\ portBuffers' = [portBuffers EXCEPT ![d] = @ \ {b}]
  /\ client' = client \ {b}
  /\ UNCHANGED <<stateVars, enable, toEnable, toDisable, playable, portError, mainQ,
                 mainVars, workerVars, moduleVars, eosVars, half, outstanding, sent,
                 eosSent, faults, lost>>

\* FreeBuffer, with Port::Remove: out of turn it is reported, and done all the same
FreeBuffer(b) ==
  LET d == DirOf(b) IN
  /\ b \in client
  /\ IF MayFree(d) THEN UNCHANGED misuse ELSE misuse < MaxMisuse /\ misuse' = misuse + 1
  /\ Patient => Awaited("SetState", "Loaded") \/ Awaited("DisablePort", d)
  /\ portBuffers' = [portBuffers EXCEPT ![d] = @ \ {b}]
  /\ playable' = [playable EXCEPT ![d] = @ /\ portBuffers'[d] # {}]
  /\ client' = client \ {b}
  /\ UNCHANGED <<stateVars, enable, toEnable, toDisable, portError, mainQ, mainVars,
                 workerVars, moduleVars, eosVars, half, outstanding, sent, eosSent,
                 faults, lost>>

MaySubmit(b) ==
  /\ b \in client
  /\ state \in SubmitStates
  /\ Patient => outstanding = 0 /\ half = NoTask /\ enable[DirOf(b)]

\* b was submitted empty and with the EOS flag, and is not back
EndsStream(b) ==
  LET eos == [cmd |-> "EmptyBuffer", data |-> b, kind |-> "emptyEos"]
  IN \/ \E i \in DOMAIN mainQ : mainQ[i] = eos
     \/ \E i \in DOMAIN fifo["in"] : fifo["in"][i] = eos
     \/ worker["in"].task = eos
     \/ "in" \notin dangling /\ eosHandle["in"] = b

EmptyThisBuffer(b, kind) ==
  /\ b \in InBuffers /\ MaySubmit(b)
  /\ Patient /\ kind = "emptyEos" => \A a \in InBuffers : ~EndsStream(a)
  /\ state \notin Refused("EmptyThisBuffer")
  /\ IF kind \in {"dataEos", "emptyEos"}
     THEN eosSent < MaxEos /\ eosSent' = eosSent + 1
     ELSE UNCHANGED eosSent
  /\ mainQ' = Append(mainQ, [cmd |-> "EmptyBuffer", data |-> b, kind |-> kind])
  /\ client' = client \ {b}
  /\ UNCHANGED <<stateVars, portVars, mainVars, workerVars, moduleVars, eosVars, half,
                 outstanding, sent, faults, misuse, lost>>

FillThisBuffer(b) ==
  /\ b \in OutBuffers /\ MaySubmit(b)
  /\ state \notin Refused("FillThisBuffer")
  /\ mainQ' = Append(mainQ, [cmd |-> "FillBuffer", data |-> b])
  /\ client' = client \ {b}
  /\ UNCHANGED <<stateVars, portVars, mainVars, workerVars, moduleVars, eosVars, half,
                 outstanding, countVars, lost>>

Client ==
  \/ \E c \in {m[2] : m \in {m \in MaySend : m[1] = state}} : SendCommand(c)
  \/ SendSecondHalf
  \/ \E b \in Buffers : UseBuffer(b) \/ FreeBuffer(b) \/ FillThisBuffer(b)
  \/ \E b \in InBuffers, k \in Kinds : EmptyThisBuffer(b, k)
  \/ \E d \in Dirs : UseBufferFails(d)

-----------------------------------------------------------------------------
(* What the workers and the module do to each other's state               *)

OpenFence   == [cmd |-> "SharedFence", open |-> TRUE]
ClosedFence == [cmd |-> "SharedFence", open |-> FALSE]

Released(t) == IF t.cmd = "SharedFence" THEN OpenFence ELSE t

\* BlockFillEmptyBuffers: a fence behind whatever is queued, unless there is one
Block(ds) ==
  LET new == {d \in ds : ~pause[d]} IN
  /\ pause' = [d \in Dirs |-> pause[d] \/ d \in new]
  /\ fifo' = [d \in Dirs |-> IF d \in new THEN Append(fifo[d], ClosedFence) ELSE fifo[d]]
  /\ UNCHANGED <<worker, handler>>

\* UnblockFillEmptyBuffers: the promise of each fence is fulfilled, wherever it is
Unblock ==
  /\ pause' = [d \in Dirs |-> FALSE]
  /\ fifo' = [d \in Dirs |-> [i \in DOMAIN fifo[d] |-> Released(fifo[d][i])]]
  /\ worker' = [d \in Dirs |-> [worker[d] EXCEPT !.task = Released(@)]]
  /\ UNCHANGED handler

BothPortsReady ==
  \A d \in Dirs : enable[d] /\ ~toEnable[d]

\* what creating the encoder or the decoder leaves behind when the library
\* reports an error: CreateEncoder has already filled `encoders' by then
FailedStart == IF Decoder THEN {"stopped"} ELSE {"stopped", "broken"}

Create ==
  \/ module' = "started" /\ UNCHANGED faults
  \/ /\ faults < MaxFaults /\ faults' = faults + 1
     /\ module' \in FailedStart

\* slip: destroying the encoder or decoder forgets the buffers it holds
DestroyedWithBuffers ==
  /\ codecPc = "idle"
  /\ held' = [d \in Dirs |-> {}]
  /\ eosAsked' = 0
  /\ UNCHANGED client

\* Destroying the encoder or the decoder waits for its callbacks and gives back
\* every buffer it holds
Destroyed ==
  /\ codecPc = "idle"
  /\ client' = client \cup held["in"] \cup held["out"]
  /\ held' = [d \in Dirs |-> {}]
  /\ eosAsked' = 0

\* ModuleInterface::Stop
ModuleStop ==
  IF module = "stopped" THEN UNCHANGED <<moduleVars, client>>
  ELSE Destroyed /\ module' = "stopped"

\* ModuleInterface::Restart, and EnablePort's Stop followed by Start
ModuleRestart ==
  IF module = "stopped" THEN UNCHANGED <<moduleVars, client, faults>>
  ELSE Destroyed /\ Create

-----------------------------------------------------------------------------
(* "OMX - Sched": _ProcessMain                                             *)

Goto(pc) == main' = [main EXCEPT !.pc = pc]

\* EventHandler with OMX_EventCmdComplete or OMX_EventError ends a command; the
\* codec's own SetState(Invalid) answers nobody
Answer ==
  /\ main' = [pc |-> "take", task |-> NoTask]
  /\ outstanding' = outstanding -
       (IF main.task.cmd = "SetState" /\ main.task.opt THEN 0 ELSE 1)

\* the early returns on port->error: the command ends without an event
GiveUp == main' = [pc |-> "take", task |-> NoTask] /\ UNCHANGED outstanding

\* slip: every buffer goes to processorEmpty
MainDispatchToEmpty ==
  /\ main.pc = "take" /\ mainQ # <<>> /\ Head(mainQ) \in BufferTasks
  /\ mainQ' = Tail(mainQ)
  /\ fifo' = [fifo EXCEPT !["in"] = Append(@, Head(mainQ))]
  /\ UNCHANGED <<stateVars, portVars, mainVars, worker, handler, pause, moduleVars,
                 eosVars, client, half, outstanding, countVars, lost>>

\* EmptyBuffer and FillBuffer are handed to the worker of their port
MainDispatch ==
  /\ main.pc = "take" /\ mainQ # <<>> /\ Head(mainQ) \in BufferTasks
  /\ mainQ' = Tail(mainQ)
  /\ LET d == IF Head(mainQ).cmd = "EmptyBuffer" THEN "in" ELSE "out"
     IN fifo' = [fifo EXCEPT ![d] = Append(@, Head(mainQ))]
  /\ UNCHANGED <<stateVars, portVars, mainVars, worker, handler, pause, moduleVars,
                 eosVars, client, half, outstanding, countVars, lost>>

BeginsWith(t) ==
  CASE t.cmd = "SetState" /\ FlushingRequired(state, t.data) -> "unblock"
    [] t.cmd = "SetState" /\ ~FlushingRequired(state, t.data) -> "check"
    [] t.cmd = "Flush" -> "unblock"
    [] t.cmd = "DisablePort" -> "unblock"
    [] t.cmd = "EnablePort" -> "waitFull"

\* a port that is not in transition has nothing left to do
AlreadyDone(t) ==
  \/ t.cmd = "DisablePort" /\ ~toDisable[t.data]
  \/ t.cmd = "EnablePort" /\ ~toEnable[t.data]

MainTake ==
  /\ main.pc = "take" /\ mainQ # <<>> /\ Head(mainQ) \notin BufferTasks
  /\ mainQ' = Tail(mainQ)
  /\ LET t == Head(mainQ) IN
     IF AlreadyDone(t)
     THEN outstanding' = outstanding - 1 /\ UNCHANGED mainVars
     ELSE /\ main' = [pc |-> BeginsWith(t), task |-> t]
          /\ todo' = IF BeginsWith(t) # "unblock" THEN {}
                     ELSE IF t.cmd = "DisablePort" THEN {t.data} ELSE Dirs
          /\ UNCHANGED <<reblock, outstanding>>
  /\ UNCHANGED <<stateVars, portVars, workerVars, moduleVars, eosVars, client, half,
                 countVars, lost>>

\* slip: FlushFillEmptyBuffers leaves the fences closed
MainUnblockNothing ==
  /\ main.pc = "unblock"
  /\ reblock' = {d \in Dirs : pause[d]}
  /\ Goto("swap")
  /\ UNCHANGED <<stateVars, portVars, mainQ, todo, workerVars, moduleVars, eosVars,
                 client, half, outstanding, countVars, lost>>

\* FlushFillEmptyBuffers opens the fences it will have to put back
MainUnblock ==
  /\ main.pc = "unblock"
  /\ reblock' = {d \in Dirs : pause[d]}
  /\ Unblock
  /\ Goto("swap")
  /\ UNCHANGED <<stateVars, portVars, mainQ, todo, moduleVars, eosVars, client, half,
                 outstanding, countVars, lost>>

\* processorFill.reset() comes before processorEmpty.reset()
Flushed == IF "out" \in todo THEN "out" ELSE "in"

\* ~ProcessorFifo: from here on its worker deletes what it pops
MainSwap ==
  /\ main.pc = "swap"
  /\ handler' = [handler EXCEPT ![Flushed] = "delete"]
  /\ Goto("join")
  /\ UNCHANGED <<stateVars, portVars, mainQ, todo, reblock, fifo, worker, pause,
                 moduleVars, eosVars, client, half, outstanding, countVars, lost>>

\* ~ProcessorFifo returns when its worker has drained it; the new FIFO is empty
MainJoin ==
  /\ main.pc = "join"
  /\ fifo[Flushed] = <<>> /\ worker[Flushed] = Idling
  /\ handler' = [handler EXCEPT ![Flushed] = "process"]
  /\ todo' = todo \ {Flushed}
  /\ Goto(IF todo' = {} THEN "reblock" ELSE "swap")
  /\ UNCHANGED <<stateVars, portVars, mainQ, reblock, fifo, worker, pause, moduleVars,
                 eosVars, client, half, outstanding, countVars, lost>>

MainReblock ==
  /\ main.pc = "reblock"
  /\ Block(reblock)
  /\ reblock' = {}
  /\ Goto(CASE main.task.cmd = "SetState" -> "check"
            [] main.task.cmd = "Flush" -> "restart"
            [] main.task.cmd = "DisablePort" -> "block")
  /\ UNCHANGED <<stateVars, portVars, mainQ, todo, moduleVars, eosVars, client, half,
                 outstanding, countVars, lost>>

\* slip: TreatSetStateCommand does not check the transition
MainCheckNothing ==
  LET new == main.task.data IN
  /\ main.pc = "check"
  /\ Goto(CASE ToIdleFromLoadedOrWait(state, new) -> "populateIn"
            [] ToLoaded(state, new) /\ state # "WaitForResources" -> "unpopulateIn"
            [] ToExecutingOrPause(state, new) -> "start"
            [] ToIdleFromExecutingOrPause(state, new) -> "stop"
            [] OTHER -> "switch")
  /\ UNCHANGED <<stateVars, portVars, mainQ, todo, reblock, workerVars, moduleVars,
                 eosVars, client, half, outstanding, countVars, lost>>

\* TreatSetStateCommand: OMXChecker::CheckStateTransition, then what the
\* transition calls for
MainCheck ==
  LET new == main.task.data
      error == CheckStateTransition(state, new) IN
  /\ main.pc = "check"
  /\ IF error = "None"
     THEN /\ Goto(CASE ToIdleFromLoadedOrWait(state, new) -> "populateIn"
                    [] ToLoaded(state, new) /\ state # "WaitForResources" -> "unpopulateIn"
                    [] ToExecutingOrPause(state, new) -> "start"
                    [] ToIdleFromExecutingOrPause(state, new) -> "stop"
                    [] OTHER -> "switch")
          /\ UNCHANGED outstanding
     ELSE IF error = "InvalidState" THEN Goto("invalid") /\ UNCHANGED outstanding
     ELSE Answer
  /\ UNCHANGED <<stateVars, portVars, mainQ, todo, reblock, workerVars, moduleVars,
                 eosVars, client, half, countVars, lost>>

\* slip: PopulatingPorts does not wait
MainPopulateAtOnce(d) ==
  /\ main.pc = IF d = "in" THEN "populateIn" ELSE "populateOut"
  /\ Goto(IF d = "in" THEN "populateOut" ELSE "switch")
  /\ UNCHANGED <<stateVars, portVars, mainQ, todo, reblock, workerVars, moduleVars,
                 eosVars, client, half, outstanding, countVars, lost>>

\* PopulatingPorts: Port::WaitFull on the enabled ports, input first
MainPopulate(d) ==
  /\ main.pc = IF d = "in" THEN "populateIn" ELSE "populateOut"
  /\ enable[d] => playable[d] \/ portError[d]
  /\ portError' = [portError EXCEPT ![d] = FALSE]
  /\ IF portError[d] THEN Answer
     ELSE Goto(IF d = "in" THEN "populateOut" ELSE "switch") /\ UNCHANGED outstanding
  /\ UNCHANGED <<stateVars, enable, toEnable, toDisable, playable, portBuffers, mainQ,
                 todo, reblock, workerVars, moduleVars, eosVars, client, half,
                 countVars, lost>>

\* UnpopulatingPorts: Port::WaitEmpty on both ports; transientState is cleared
MainUnpopulate(d) ==
  /\ main.pc = IF d = "in" THEN "unpopulateIn" ELSE "unpopulateOut"
  /\ ~playable[d] \/ portError[d]
  /\ portError' = [portError EXCEPT ![d] = FALSE]
  /\ IF portError[d] THEN Answer /\ UNCHANGED transientState
     ELSE /\ Goto(IF d = "in" THEN "unpopulateOut" ELSE "switch")
          /\ transientState' = IF d = "out" THEN MaxTransient ELSE transientState
          /\ UNCHANGED outstanding
  /\ UNCHANGED <<state, shouldFire, enable, toEnable, toDisable, playable, portBuffers,
                 mainQ, todo, reblock, workerVars, moduleVars, eosVars, client, half,
                 countVars, lost>>

\* module->Start: refused when the module is not stopped
MainStart ==
  /\ main.pc = "start"
  /\ IF module = "stopped" THEN Create ELSE UNCHANGED <<module, faults>>
  /\ IF module = "stopped" /\ module' = "started"
     THEN /\ Goto("switch")
          /\ shouldFire' = (shouldFire /\ ~ShouldPrealloc)
          /\ UNCHANGED outstanding
     ELSE Answer /\ UNCHANGED shouldFire
  /\ UNCHANGED <<state, transientState, portVars, mainQ, todo, reblock, workerVars, held,
                 eosAsked, eosVars, client, half, sent, eosSent, misuse, lost>>

MainStop ==
  /\ main.pc = "stop"
  /\ ModuleStop
  /\ Goto("switch")
  /\ UNCHANGED <<stateVars, portVars, mainQ, todo, reblock, workerVars, eosVars, half,
                 outstanding, countVars, lost>>

\* slip: the fences are opened on the way to Executing only
MainSwitchKeepsFences ==
  LET new == main.task.data IN
  /\ main.pc = "switch"
  /\ IF ToPause(state, new) THEN Block(Dirs)
     ELSE IF state = "Pause" /\ new = "Executing" /\ BothPortsReady THEN Unblock
     ELSE UNCHANGED workerVars
  /\ state' = new
  /\ Answer
  /\ UNCHANGED <<transientState, shouldFire, portVars, mainQ, todo, reblock, moduleVars,
                 eosVars, client, half, countVars, lost>>

\* the end of TreatSetStateCommand: fences, then the state, then the event
MainSwitch ==
  LET new == main.task.data IN
  /\ main.pc = "switch"
  /\ IF ToPause(state, new) THEN Block(Dirs)
     ELSE IF state = "Pause" /\ BothPortsReady THEN Unblock
     ELSE UNCHANGED workerVars
  /\ state' = new
  /\ Answer
  /\ UNCHANGED <<transientState, shouldFire, portVars, mainQ, todo, reblock, moduleVars,
                 eosVars, client, half, countVars, lost>>

\* slip: the way to Invalid does not stop the module
MainInvalidRunning ==
  /\ main.pc = "invalid"
  /\ state' = "Invalid"
  /\ Answer
  /\ UNCHANGED <<transientState, shouldFire, portVars, mainQ, todo, reblock, workerVars,
                 moduleVars, client, eosVars, half, countVars, lost>>

\* the handler of OMX_ErrorInvalidState
MainInvalid ==
  /\ main.pc = "invalid"
  /\ ModuleStop
  /\ state' = "Invalid"
  /\ Answer
  /\ UNCHANGED <<transientState, shouldFire, portVars, mainQ, todo, reblock, workerVars,
                 eosVars, half, countVars, lost>>

\* TreatFlushCommand: a restart that fails is only logged
MainRestart ==
  /\ main.pc = "restart"
  /\ ModuleRestart
  /\ Goto("flushEos")
  /\ UNCHANGED <<stateVars, portVars, mainQ, todo, reblock, workerVars, eosVars, half,
                 outstanding, sent, eosSent, misuse, lost>>

\* slip: FlushEosHandles gives back the input buffer only
MainFlushEosIn ==
  /\ main.pc = "flushEos"
  /\ client' = client \cup ({eosHandle["in"]} \ {None})
  /\ eosHandle' = [eosHandle EXCEPT !["in"] = None]
  /\ Answer
  /\ UNCHANGED <<stateVars, portVars, mainQ, todo, reblock, workerVars, moduleVars,
                 codecPc, dangling, half, countVars, lost>>

\* FlushEosHandles, then the event: whichever port was named, both are flushed
MainFlushEos ==
  /\ main.pc = "flushEos"
  /\ client' = client \cup ({eosHandle[d] : d \in Dirs} \ {None})
  /\ eosHandle' = [d \in Dirs |-> None]
  /\ Answer
  /\ UNCHANGED <<stateVars, portVars, mainQ, todo, reblock, workerVars, moduleVars,
                 codecPc, dangling, half, countVars, lost>>

Streaming == state \in {"Executing", "Pause"}

\* TreatDisablePortCommand, after the flush of the port
MainBlock ==
  /\ main.pc = "block"
  /\ Block({"out"} \cup (IF ShouldPrealloc THEN {"in"} ELSE {}))
  /\ Goto(IF ShouldPrealloc /\ shouldFire /\ Streaming THEN "restartPort" ELSE "waitEmpty")
  /\ UNCHANGED <<stateVars, portVars, mainQ, todo, reblock, moduleVars, eosVars, client,
                 half, outstanding, countVars, lost>>

MainRestartPort ==
  /\ main.pc = "restartPort"
  /\ ModuleRestart
  /\ shouldFire' = FALSE
  /\ Goto("waitEmpty")
  /\ UNCHANGED <<state, transientState, portVars, mainQ, todo, reblock, workerVars,
                 eosVars, half, outstanding, sent, eosSent, misuse, lost>>

\* Port::WaitEmpty; an error of the port ends the command without an event
MainWaitEmpty ==
  LET d == main.task.data IN
  /\ main.pc = "waitEmpty"
  /\ ~playable[d] \/ portError[d]
  /\ IF portError[d] THEN GiveUp /\ UNCHANGED toDisable
     ELSE Answer /\ toDisable' = [toDisable EXCEPT ![d] = FALSE]
  /\ UNCHANGED <<stateVars, enable, toEnable, playable, portError, portBuffers, mainQ,
                 todo, reblock, workerVars, moduleVars, eosVars, client, half,
                 countVars, lost>>

\* TreatEnablePortCommand: Port::WaitFull unless the component is not populated
MainWaitFull ==
  LET d == main.task.data IN
  /\ main.pc = "waitFull"
  /\ state \in {"Loaded", "WaitForResources"} \/ playable[d] \/ portError[d]
  /\ IF portError[d] THEN GiveUp /\ UNCHANGED toEnable
     ELSE /\ toEnable' = [toEnable EXCEPT ![d] = FALSE]
          /\ Goto(IF ShouldPrealloc /\ shouldFire /\ Streaming THEN "reopen" ELSE "enabled")
          /\ UNCHANGED outstanding
  /\ UNCHANGED <<stateVars, enable, toDisable, playable, portError, portBuffers, mainQ,
                 todo, reblock, workerVars, moduleVars, eosVars, client, half,
                 countVars, lost>>

\* reached when another DisablePort has been sent since: Stop, then Start
MainReopen ==
  /\ main.pc = "reopen"
  /\ ModuleRestart
  /\ shouldFire' = FALSE
  /\ Goto("enabled")
  /\ UNCHANGED <<state, transientState, portVars, mainQ, todo, reblock, workerVars,
                 eosVars, half, outstanding, sent, eosSent, misuse, lost>>

\* slip: TreatEnablePortCommand leaves the fences to the next state change
MainEnabledKeepsFences ==
  /\ main.pc = "enabled"
  /\ Answer
  /\ UNCHANGED <<stateVars, portVars, mainQ, todo, reblock, workerVars, moduleVars,
                 eosVars, client, half, countVars, lost>>

MainEnabled ==
  /\ main.pc = "enabled"
  /\ IF BothPortsReady /\ state # "Pause" THEN Unblock ELSE UNCHANGED workerVars
  /\ Answer
  /\ UNCHANGED <<stateVars, portVars, mainQ, todo, reblock, moduleVars, eosVars, client,
                 half, countVars, lost>>

Main ==
  \/ MainDispatch \/ MainTake
  \/ MainUnblock \/ MainSwap \/ MainJoin \/ MainReblock
  \/ MainCheck \/ MainStart \/ MainStop \/ MainSwitch \/ MainInvalid
  \/ (\E d \in Dirs : MainPopulate(d) \/ MainUnpopulate(d))
  \/ MainRestart \/ MainFlushEos
  \/ MainBlock \/ MainRestartPort \/ MainWaitEmpty
  \/ MainWaitFull \/ MainReopen \/ MainEnabled

-----------------------------------------------------------------------------
(* "OMX - In" and "OMX - Out"                                              *)

\* ProcessorFifo::Worker: the pop and the copy of process_ (their order with
\* the destructor's swap is the subject of ProcessorFifo)
WorkerPop(d) ==
  /\ worker[d] = Idling /\ fifo[d] # <<>>
  /\ worker' = [worker EXCEPT ![d] = [task |-> Head(fifo[d]), by |-> handler[d]]]
  /\ fifo' = [fifo EXCEPT ![d] = Tail(@)]
  /\ UNCHANGED <<stateVars, portVars, mainQ, mainVars, handler, pause, moduleVars,
                 eosVars, client, half, outstanding, countVars, lost>>

Finish(d) == worker' = [worker EXCEPT ![d] = Idling] /\ UNCHANGED <<fifo, handler, pause>>

HasBuffer(d) == worker[d].task.cmd \in {"EmptyBuffer", "FillBuffer"}

\* TreatSharedFenceCommand waits for the promise; _DeleteEmpty and _DeleteFill
\* ignore a fence
WorkerPassFence(d) ==
  /\ worker[d].task.cmd = "SharedFence"
  /\ worker[d].by = "process" => worker[d].task.open
  /\ Finish(d)
  /\ UNCHANGED <<stateVars, portVars, mainQ, mainVars, moduleVars, eosVars, client, half,
                 outstanding, countVars, lost>>

\* _DeleteEmpty, _DeleteFill, and every path of TreatEmptyBufferCommand and
\* TreatFillBufferCommand that calls EmptyBufferDone or FillBufferDone at once
WorkerReturn(d) ==
  /\ HasBuffer(d)
  /\ \/ worker[d].by = "delete"
     \/ state = "Invalid"
     \/ d = "in" /\ worker[d].task.kind = "empty"
  /\ client' = client \cup {worker[d].task.data}
  /\ Finish(d)
  /\ UNCHANGED <<stateVars, portVars, mainQ, mainVars, moduleVars, eosVars, half,
                 outstanding, countVars, lost>>

Processes(d) == HasBuffer(d) /\ worker[d].by = "process" /\ state # "Invalid"

\* module->Empty or module->Fill with a handle: a module that is not started
\* refuses it; the assert on the result is all that happens then
ModuleTakes(b) ==
  LET d == DirOf(b) IN
  IF module = "started"
  THEN held' = [held EXCEPT ![d] = @ \cup {b}] /\ UNCHANGED lost
  ELSE lost' = lost \cup {b} /\ UNCHANGED held

\* TreatFillBufferCommand: the first output buffer is kept for the end of stream
WorkerKeep ==
  /\ Processes("out") /\ eosHandle["out"] = None
  /\ eosHandle' = [eosHandle EXCEPT !["out"] = worker["out"].task.data]
  /\ dangling' = dangling \ {"out"}
  /\ Finish("out")
  /\ UNCHANGED <<stateVars, portVars, mainQ, mainVars, moduleVars, codecPc, client, half,
                 outstanding, countVars, lost>>

WorkerFill ==
  /\ Processes("out") /\ eosHandle["out"] # None
  /\ ModuleTakes(worker["out"].task.data)
  /\ Finish("out")
  /\ UNCHANGED <<stateVars, portVars, mainQ, mainVars, module, eosAsked, eosVars, client,
                 half, outstanding, countVars>>

\* TreatEmptyBufferCommand: data, followed by module->Empty(nullptr) at its end
WorkerEmpty ==
  /\ Processes("in") /\ worker["in"].task.kind \in {"data", "dataEos"}
  /\ ModuleTakes(worker["in"].task.data)
  /\ eosAsked' = IF worker["in"].task.kind = "dataEos" /\ module = "started"
                 THEN eosAsked + 1 ELSE eosAsked
  /\ Finish("in")
  /\ UNCHANGED <<stateVars, portVars, mainQ, mainVars, module, eosVars, client, half,
                 outstanding, countVars>>

\* TreatEmptyBufferCommand: an empty buffer with the EOS flag is kept until the
\* end of the stream; the one kept before it is forgotten
WorkerEos ==
  /\ Processes("in") /\ worker["in"].task.kind = "emptyEos"
  /\ eosHandle' = [eosHandle EXCEPT !["in"] = worker["in"].task.data]
  /\ dangling' = dangling \ {"in"}
  /\ lost' = IF eosHandle["in"] = None \/ "in" \in dangling THEN lost
             ELSE lost \cup {eosHandle["in"]}
  /\ eosAsked' = IF module = "started" THEN eosAsked + 1 ELSE eosAsked
  /\ Finish("in")
  /\ UNCHANGED <<stateVars, portVars, mainQ, mainVars, module, held, codecPc, client,
                 half, outstanding, countVars>>

Worker(d) == WorkerPop(d) \/ WorkerPassFence(d) \/ WorkerReturn(d)

Workers == (\E d \in Dirs : Worker(d)) \/ WorkerKeep \/ WorkerFill \/ WorkerEmpty \/ WorkerEos

-----------------------------------------------------------------------------
(* The codec library's threads.  The library is not part of this code: it    *)
(* may give a buffer back at any time, and answers an end of stream when it   *)
(* holds no input any more.                                                  *)

\* the emptied, filled and release callbacks
CodecReturns(b) ==
  /\ b \in held[DirOf(b)]
  /\ held' = [held EXCEPT ![DirOf(b)] = @ \ {b}]
  /\ client' = client \cup {b}
  /\ UNCHANGED <<stateVars, portVars, mainQ, mainVars, workerVars, module, eosAsked,
                 eosVars, half, outstanding, countVars, lost>>

\* the filled(nullptr) callback begins
CodecEos ==
  /\ codecPc = "idle" /\ module = "started" /\ eosAsked > 0 /\ held["in"] = {}
  /\ eosAsked' = eosAsked - 1
  /\ codecPc' = "eosIn"
  /\ UNCHANGED <<stateVars, portVars, mainQ, mainVars, workerVars, module, held,
                 eosHandle, dangling, client, half, outstanding, countVars, lost>>

\* FillThisBufferCallBack(nullptr) gives one kept buffer back: the decoder clears
\* the handle first, the encoder clears both when it has given both back
EosReturn(d) ==
  /\ client' = IF eosHandle[d] = None THEN client ELSE client \cup {eosHandle[d]}
  /\ IF eosHandle[d] = None THEN UNCHANGED <<eosHandle, dangling>>
     ELSE IF Decoder
     THEN eosHandle' = [eosHandle EXCEPT ![d] = None] /\ UNCHANGED dangling
     ELSE dangling' = dangling \cup {d} /\ UNCHANGED eosHandle

CodecEosIn ==
  /\ codecPc = "eosIn"
  /\ EosReturn("in")
  /\ codecPc' = "eosOut"
  /\ UNCHANGED <<stateVars, portVars, mainQ, mainVars, workerVars, moduleVars, half,
                 outstanding, countVars, lost>>

\* slip: the decoder, like the encoder, clears eosHandles after the callbacks
CodecEosOutThenClear ==
  /\ codecPc = "eosOut"
  /\ EosReturn("out")
  /\ codecPc' = "eosClear"
  /\ UNCHANGED <<stateVars, portVars, mainQ, mainVars, workerVars, moduleVars, half,
                 outstanding, countVars, lost>>

CodecEosOut ==
  /\ codecPc = "eosOut"
  /\ EosReturn("out")
  /\ codecPc' = IF Decoder THEN "idle" ELSE "eosClear"
  /\ UNCHANGED <<stateVars, portVars, mainQ, mainVars, workerVars, moduleVars, half,
                 outstanding, countVars, lost>>

\* EncComponent: whatever handle is there by now is forgotten
CodecEosClear ==
  /\ codecPc = "eosClear"
  /\ eosHandle' = [d \in Dirs |-> None]
  /\ dangling' = {}
  /\ lost' = lost \cup ({eosHandle[d] : d \in Dirs \ dangling} \ {None})
  /\ codecPc' = "idle"
  /\ UNCHANGED <<stateVars, portVars, mainQ, mainVars, workerVars, moduleVars, client,
                 half, outstanding, countVars>>

\* EventCallBack(ERROR): the component queues its own SetState(Invalid)
CodecError ==
  /\ module = "started" /\ faults < MaxFaults
  /\ faults' = faults + 1
  /\ mainQ' = Append(mainQ, [cmd |-> "SetState", data |-> "Invalid", opt |-> TRUE])
  /\ UNCHANGED <<stateVars, portVars, mainVars, workerVars, moduleVars, eosVars, client,
                 half, outstanding, sent, eosSent, misuse, lost>>

CodecFinishesEos == CodecEosIn \/ CodecEosOut \/ CodecEosClear

Codec == (\E b \in Buffers : CodecReturns(b)) \/ CodecEos \/ CodecFinishesEos \/ CodecError

Next == Client \/ Main \/ Workers \/ Codec

Spec == Init /\ [][Next]_vars

\* The codec finishes what it has begun and gives back what it holds; the
\* client answers the commands it has sent, by allocating what a port lacks and
\* by freeing what it must; the rest is threads of the component being scheduled
Cooperates ==
  SendSecondHalf \/ \E b \in Buffers : UseBuffer(b) \/ (MayFree(DirOf(b)) /\ FreeBuffer(b))

Fairness ==
  /\ WF_vars(Main)
  /\ \A d \in Dirs : WF_vars(Worker(d))
  /\ WF_vars(WorkerKeep \/ WorkerFill) /\ WF_vars(WorkerEmpty \/ WorkerEos)
  /\ \A b \in Buffers : WF_vars(CodecReturns(b))
  /\ WF_vars(CodecEos) /\ WF_vars(CodecFinishesEos)
  /\ WF_vars(Cooperates)

FairSpec == Spec /\ Fairness

-----------------------------------------------------------------------------
(* Where a header is                                                       *)

Carries(t, b) == t.cmd \in {"EmptyBuffer", "FillBuffer"} /\ t.data = b

\* kept in eosHandles by a handle that has not been deleted
Kept(b) == \E d \in Dirs \ dangling : eosHandle[d] = b

Queued(q, b) == Cardinality({i \in DOMAIN q : Carries(q[i], b)})
One(P) == IF P THEN 1 ELSE 0

Copies(b) ==
  LET d == DirOf(b) IN
  Queued(mainQ, b) + Queued(fifo[d], b) + One(Carries(worker[d].task, b))
  + One(b \in held[d]) + One(Kept(b)) + One(b \in client) + One(b \in lost)

(* Every header of a port is in exactly one place, the client's hands or one  *)
(* queue, worker or handle of the component: no callback returns it twice,    *)
(* and none returns one that was freed.                                      *)
Conservation ==
  \A b \in Buffers : Copies(b) = One(b \in portBuffers[DirOf(b)])

ClosedFences(d) ==
  {i \in DOMAIN fifo[d] : fifo[d][i] = ClosedFence}

(* The destructor of a FIFO never waits for a worker that waits on a fence:   *)
(* only this thread could open it (omx_component.cpp:1778-1802).              *)
JoinsTerminate ==
  main.pc \in {"swap", "join"} =>
    \A d \in Dirs : ClosedFences(d) = {} /\ worker[d].task # ClosedFence

\* no command is queued, in treatment or half sent, and no port is in transition
Settled ==
  /\ main.pc = "take" /\ half = NoTask
  /\ \A i \in DOMAIN mainQ : mainQ[i] \in BufferTasks
  /\ \A d \in Dirs : ~toEnable[d] /\ ~toDisable[d]

(* Once the commands are done, data flows in Executing: with both ports       *)
(* enabled no worker is left behind a fence, whatever mixture of Pause and     *)
(* port commands came before.                                                *)
DataFlows ==
  Settled /\ state = "Executing" /\ (\A d \in Dirs : enable[d]) =>
    \A d \in Dirs : ClosedFences(d) = {} /\ worker[d].task # ClosedFence

(* Flush gives everything back: when its completion is reported neither the   *)
(* module, nor a worker or its FIFO, nor eosHandles has a buffer any more.     *)
FlushEmpties ==
  [][MainFlushEos =>
       /\ \A d \in Dirs : held'[d] = {} /\ eosHandle'[d] = None /\ ~HasBuffer(d)'
       /\ \A d \in Dirs : \A i \in DOMAIN fifo'[d] : fifo'[d][i].cmd = "SharedFence"]_vars

(* The module is not destroyed under a worker that is inside module->Empty or  *)
(* module->Fill: by Flush, and by the way from Executing to Idle.             *)
QuietModule ==
  \/ main.pc = "restart"
  \/ main.pc = "stop" /\ state = "Executing"
  => \A d \in Dirs : ~Processes(d)

(* No decoder is left running outside Executing and Pause: every way out of    *)
(* these states, errors included, stops the module, and neither a Flush nor a   *)
(* port command starts it in Loaded, WaitForResources, Idle or Invalid          *)
(* (omx_component.cpp:1917-1945, 1947-1959, 1988-1998).  An encoder that a       *)
(* failed start has left broken is started by a Flush in Idle.                  *)
ModuleFollowsState ==
  main.pc = "take" /\ state \notin {"Executing", "Pause"} => module # "started"

(* A component in Idle can be sent to Executing: module->Start is called on a   *)
(* stopped module only, or it is refused with "You can't call Start twice"     *)
(* (module_enc.cpp:320-329).                                                  *)
IdleIsReadyToStart == main.pc = "start" => module = "stopped"

(* No buffer is refused by the module or forgotten in eosHandles: what the      *)
(* client submits it can get back.                                           *)
NothingLost == lost = {}

(* In Pause no worker hands anything to the module: the flush on the way from   *)
(* Executing and the fences stop both of them before the state changes         *)
(* (omx_component.cpp:2317-2318, 1920-1921).                                   *)
PausedIsStill == state = "Pause" => \A d \in Dirs : ~Processes(d)

(* Between commands an enabled port of a component in Idle, Executing or Pause  *)
(* has all its buffers: populating and enabling wait for the last UseBuffer,    *)
(* and FreeBuffer is in turn only while the port is emptied on purpose.         *)
PortsPopulated ==
  Settled /\ outstanding = 0 /\ state \in {"Idle", "Executing", "Pause"} =>
    \A d \in Dirs : enable[d] => Cardinality(portBuffers[d]) >= Expected[d]

(* Every command the client sends is answered by one event.                  *)
CommandsAnswered == outstanding > 0 ~> outstanding = 0

(* Every input buffer the client submits comes back, by EmptyBufferDone from    *)
(* the worker, the module, the end of the stream or a flush, unless the client  *)
(* pauses the component or has a port disabled.                                *)
InputsReturned ==
  \A b \in InBuffers :
    b \in portBuffers["in"] \ client
      ~> b \in client \/ state = "Pause" \/ \E d \in Dirs : ~enable[d]

(* Who has a header, as the client sees it.                                   *)
OwnerOf(b) ==
  IF b \in client THEN "client"
  ELSE IF b \in portBuffers[DirOf(b)] THEN "component" ELSE "nobody"

(* The component implements what the IL client relies on: legal transitions,    *)
(* and one owner of each header at a time.                                    *)
IL == INSTANCE ILComponent WITH owner <- [b \in Buffers |-> OwnerOf(b)]

ImplementsIL == IL!Spec
=============================================================================
