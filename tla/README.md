# vcu2-omx-il in TLA+

Models, model-checking runs and proofs for the OpenMAX IL components of this
repository: an encoder and a decoder component that sit between an IL client
(GStreamer, or the sample applications in `exe_omx/`) and the control software
library of the codec. Paths below are relative to `src/`.

## 1. Inventory

### 1.1 Components, their state and their operations

| component | state | operations | hard because |
|---|---|---|---|
| `utility/locked_queue.h`, `utility/semaphore.h` | a `std::queue` behind `m_Mutex`; a counter, a mutex and a condition variable | `push`, `pop`, `notify`, `wait`, `reset` | `push` notifies outside the queue's mutex and `pop` waits before taking it; `reset` takes no lock |
| `utility/processor_fifo.h` | a queue of tasks, the handlers `process_` and `delete_`, a thread | `queue`, the worker loop, the destructor | the destructor swaps the handler under a running worker, then queues a null task and joins |
| `base/omx_checker` | none (tables) | `CheckStateOperation`, `CheckStateTransition`, `CheckStateExistence` | its answers come as exceptions, `OMX_ErrorInvalidState` being the one that *does* change the state |
| `base/omx_component/omx_component.cpp` with `_structs.h` (`Port`, `TransientState`, `Command`) | `state`, `transientState`, the two ports, three `ProcessorFifo`s, the promises of two fences, `eosHandles`, `marks` | `SendCommand`, `UseBuffer`/`AllocateBuffer`/`FreeBuffer`, `EmptyThisBuffer`/`FillThisBuffer`, the treatment of every command on its own thread, the module's callbacks | four kinds of thread share this state, mostly without a lock |
| `omx_component_enc.cpp` | the pool of region-of-interest buffers, maps from headers to them, SEI messages that wait for a picture | overrides of the buffer calls, `SetDynamic` tasks, end of stream | what is set between two pictures must go with the second, over flushes |
| `omx_component_dec.cpp` | the time stamps that wait for a picture | `AssociateCallBack`, `TreatEmptyBufferCommand`, flush, end of stream | one queue and one flag decide which stamp a picture gets |
| `omx_component_getset.cpp`, `omx_expertise_*.cpp` | the expected number of buffers of a port | `GetParameter`, `SetParameter`, `SetConfig`, `GetConfig` | several parameters are windows on one setting; a refused write is rolled back by calling the same function |
| `module/settings_*.cpp` | one record of settings per codec | `Get`, `Set`, `Reset`, `Check` | checks and roundings that concern several settings |
| `base/omx_component/omx_convert_omx_media.cpp`, `module/convert_module_soft*.cpp` | none | conversions of every enumeration, twice, there and back | tables that must be each other's inverse |
| `module/module_enc.cpp` | `encoders` (one per pass, with a look-ahead FIFO each), `handles`, `pool`, `configHandle`, a semaphore | `Start`, `Stop`, `Restart`, `Empty`, `Fill`, `SetDynamic`, the library's callbacks | a callback waits, under a mutex, for a buffer that arrives through a method that takes the mutex |
| `module/module_dec.cpp` | `decoder`, `handles`, `dpb`, `shouldBeCopied`, `displaySeis` | the same, with `Display`, `ResolutionFound`, `EndDecoding` | release, display and end of stream come from the library's threads in any order |
| `module/TwoPassMngr.cpp` | the pictures of a sequence, a log file; a window of pictures | `AddFrame`, `Flush`, `GetFrame`, `ProcessLookAheadParams` | written in one run of the program and read in another, in batches; integer arithmetic |
| `module/ROIMngr.cpp` | a list of regions | add, clear, compute the map | overlapping regions, transitions at borders |
| `exe_omx/encoder` | frames read, events received, flags; the command file | the IL client: command, wait, submit, resubmit; send the commands of a frame | waits on events that other threads signal; a file read ahead |
| `exe_omx/decoder` | an event bus, a queue of free buffers, three semaphores | the IL client, with a pipeline built when the resolution is known | five threads that end each other |
| `core/omx_core.cpp` | a table of library handles | `OMX_Init`, `GetHandle`, `FreeHandle`, `Deinit` | |

### 1.2 How they interact

    client --SendCommand, Empty/FillThisBuffer--> processorMain --"OMX - Sched"--+
      ^                                              ^                          |
      | callbacks                                    | SetState(Invalid)        | buffers, fences,
      |                                              |                          | rebuilding the FIFOs
      +---- module callbacks <--- codec threads      |                          v
      |                              ^               |      processorEmpty "OMX - In"
      |                              |  Empty, Fill  |      processorFill  "OMX - Out"
      +------------------------------+------ module <+--------------------------+

Every buffer and every command goes through `processorMain`. Its thread hands
buffers to the worker of their port, so that it may itself *block*: in
`PopulatingPorts` and the port commands it waits for the client to allocate or
free buffers. It stops a worker by queueing a *fence*, a `shared_future` the
worker waits on, and opens it by fulfilling the promise. It empties a worker by
destroying and rebuilding its FIFO, whose destructor joins the worker. The
module calls back from the threads of the library; the end of stream is
answered with buffers the component has set aside in `eosHandles`. A `SetConfig`
becomes a task of the input FIFO and so is treated between the pictures it was
sent between; a `SetParameter` changes the settings at once.

### 1.3 What makes each part correct

* queue: no element is lost or read from an empty queue; whoever waits is woken.
* worker: tasks in order, once; the destructor returns, and with the queue drained.
* component: a header has one owner at a time; a flush gives everything back and
  leaves no fence behind; a wait of the scheduler thread never is for itself; the
  module runs exactly where the state says so; every command is answered.
* encoder and decoder component: SEI messages, regions and time stamps go with their picture.
* encoder module: every buffer is in one place; the callback finds the configuration
  buffer it waited for; the look-ahead keeps pictures in order and moving; a table is used once.
* decoder module: every frame is in one place; SEI messages and resolution are reported
  with and before their picture.
* parameters: what is set is read back, a refused call changes nothing and returns,
  strides fit the picture, a port does not expect too few buffers.
* two passes: the second one plans with what the first one saw of the same pictures.
* region map: each unit of the picture gets what the regions on it ask for.
* applications: the stream goes through, the component is taken down, `main` returns;
  the commands of a file reach the frame they are for.

`PROJECT.json` lists the hazards line by line.

## 2. The modules

| module | models | uses |
|---|---|---|
| `LockedQueue` | `locked_queue`, `semaphore`: one action per critical section | |
| `ProcessorFifo` | `ProcessorFifo`, over an atomic queue | |
| `Queues_proofs` | proofs about the two | `LockedQueue`, `ProcessorFifo` |
| `OmxChecker` | the state tables, as constant operators | |
| `ILComponent` | abstract: what a client may rely on | `OmxChecker` |
| `OmxComponent`, `OmxComponent_proofs`, `OmxBuffers_proofs` | the component with its workers, module and client | `OmxChecker`, `ILComponent` |
| `EncComponent` | the messages, regions and map buffers of the encoder component | |
| `DecComponent` | the time stamps and flags of the decoder component | |
| `EncModule` | the encoder module against the library's callbacks | |
| `Encoder_proofs` | proofs about the encoder's module and component | `EncModule`, `EncComponent` |
| `DecModule` | the decoder module, likewise | |
| `Decoder_proofs` | proofs about the decoder's module and component | `DecModule`, `DecComponent` |
| `SequenceLemmas` | lemmas: what the operators on sequences do, for the proofs of `EncModule`, `DecModule`, `EncComponent` | |
| `RatesAndGops` | frame rates and groups of pictures, OpenMAX IL and settings | |
| `Settings` | the settings of the six codecs: defaults, checks, updates | |
| `Parameters`, `Parameters_proofs` | `SetParameter`, `GetParameter` | `Settings`, `RatesAndGops` |
| `DynamicConfig` | `SetConfig`, `GetConfig`, the dynamic settings of the encoder | `RatesAndGops` |
| `EncCommands` | the command file of the encoder application | `DynamicConfig` |
| `Conversions` | the enumerations of three interfaces | |
| `TwoPass` | two-pass manager, scene changes of the look-ahead | |
| `RoiMap` | the region-of-interest map | |
| `Parts_proofs` | proofs about the two | `RoiMap`, `TwoPass` |
| `ServedComponent` | the component as a client sees it that keeps the rules | |
| `EncoderApp`, `DecoderApp` | the two applications | `ServedComponent` |
| `MCOmxComponent`, `MCEncoder`, `MCDecoder`, `MCParameters`, `MCParts` | instances for TLC | |

### 2.1 LockedQueue

`push` is `Enqueue` (under `m_Mutex`) and then `Notify` (under the semaphore's
mutex); `pop` is `Wait` and then `Take`. `SpuriousWakeUp` is the freedom
`std::condition_variable::wait` has. The semaphore of the code counts upwards from
zero and waits while the counter is zero. `reset` has no caller in the queue; it is
part of `EncModule`.

### 2.2 ProcessorFifo

`Queue`, `Pop`, `CopyHandler`, `CallHandler` are the worker's loop broken where another
thread can come between; `Swap`, `PushQuit`, `Join` are the destructor. A worker
without `delete_` keeps its handler, as in the code.

### 2.3 OmxComponent

One action per step of a thread that another thread can observe.

* The *client* sets the flags of a port and queues the command in `SendCommand`;
  `OMX_ALL` takes a second step, `SendSecondHalf`, for the second port.
* *OMX - Sched* has a program counter `main.pc`. `MainTake` pops a command and
  decides where it begins. `FlushFillEmptyBuffers` is `unblock`, `swap`, `join`
  (once or twice), `reblock`; `TreatSetStateCommand` is `check`, then one of
  `populateIn`/`populateOut`, `unpopulateIn`/`unpopulateOut`, `start`, `stop`, and
  `switch`, or `invalid`; `TreatFlushCommand` is `restart`, `flushEos`;
  `TreatDisablePortCommand` is `block`, `restartPort`, `waitEmpty`;
  `TreatEnablePortCommand` is `waitFull`, `reopen`, `enabled`.
* The *workers* pop with the handler of the moment (`worker[d].by`) and finish in
  a second step, so that a command can come between the two.
* The *codec* returns any buffer it holds at any time, answers an end of stream when
  it holds no input, and may report an error. The three steps `CodecEosIn`,
  `CodecEosOut`, `CodecEosClear` are the end-of-stream callback, which runs without
  a lock in the code; the decoder clears each handle before its callback, the encoder
  both at the end.

Data is reduced to what the properties tell apart: a header is a model value, an
input buffer has one of four kinds (with data, empty, with the EOS flag or not).
A fence is the queue element `SharedFence` with its promise; `pause[d]` says
that the pointer to the promise is set. `lost` collects headers whose handle the
module refused (an `assert` in the code) or which were overwritten in
`eosHandles`; `dangling` marks handles in `eosHandles` whose object has been deleted
by the callback that gave the header back.

Steps that are atomic here and are not in the code: the flags of one port command
are written in one step; `module->Empty` and `module->Fill` are one step each;
`GetTransientState` and the queueing in `SendCommand` are one step; unblocking both
fences is one step. FIFOs are atomic queues, which `LockedQueue` and
`ProcessorFifo` justify.

### 2.4 ILComponent and the refinement

`ILComponent` has two variables, the state and the owner of each header. Its
steps: allocate, free, submit, return (any number of headers at once), and a legal
transition. `OmxComponent!ImplementsIL` is `IL!Spec` with `owner` defined from
`client` and `portBuffers`; the run `component_any` checks it, and `ImplementsILHolds`
proves it (section 4).

### 2.5 EncModule and DecModule

A library buffer is named by the handle the component passed for it, so the maps
`handles` and `pool` are sets. The component's workers (`Empty`, `Fill`), its main
thread (`Start`, `Stop`, `Restart`, step by step: destroy, reset, create) and the
library's callback threads each take steps of their own; the component calls `Stop` and
`Restart` only while its workers are out of the module, which `QuietModule` checks. The
library may refuse `MaxFailures` calls.

`EncModule` has three settings. With the configuration *apart*, the callback of the
first stream passes the semaphore, then takes `configHandle`; `back.pc` is where it stands,
and `mutex` who holds the module's mutex. With *look-ahead* there are two encoders, the
callback of the first one pushes the picture and queues a task, and a worker of its own feeds
the second. *Tables* of quantisation parameters are counted references: `refs` is the
library's count, `tables[k]` is `nextQPBuffer` of an encoder.

`DecModule` has the parser (which associates input and output, or not, by `parsed`), the
display queue, releases and the end of stream. `use` counts how often a frame was filled, so
that a SEI message can be held against the picture it was parsed for.

### 2.6 EncComponent and DecComponent

`EncComponent` follows what a client asks for with `SetConfig` through the two FIFOs to
the picture that is submitted next: SEI messages through `tmpSeis` and `seisMap`, regions through
`shouldPushROI`/`shouldClearROI` and a buffer of the pool. Addresses are used again once
freed (`Handles`, `RoiBuffers`), because the maps are keyed by them. `DecComponent` is
`transmit`, `oldTimeStamp` and `dataHasBeenPropagated`; frames come in one buffer or in two.

### 2.7 Settings, Parameters, DynamicConfig

A settings record has one field per index with storage in the class. `Settings` has the
checks and adjustments (`UpdateFormat`, `UpdateResolution`, bit rates against the clock, groups of
pictures, slices, quantisation). In `Parameters` a parameter is a *window* on some fields
of one index (`WindowOf`), or several windows written one after the other (`PortDefinition`,
`Expertise`, `PortFormat`). `SetAndRestore` is the form every `Set...` of
`omx_component_getset.cpp` has: read, write, and when the write is refused call itself
with what was read. The inner call does the same; the model follows three of them: `recursing` is the
answer of a call whose rollbacks are refused and read the same values again, `unsettled` that of one whose third rollback
is refused with other values. No call of the run gives `unsettled`, and the client of the model stops after one.
Frame rates in `xFramerate` are fixed-point numbers in units of `Q16`; the model uses 2^14 for 2^16
because TLC's integers have 32 bits.

`DynamicConfig` is the queue of dynamic settings between pictures. `EncCommands` puts
`CEncCmdMngr` and `CommandsSender` on top of it: a file of commands is read `LookAhead` frames
ahead, the commands of a frame are sent before it, and `encoded` collects what the library
knew when each picture came.

### 2.8 Conversions, RoiMap, TwoPass

Pure algorithms. `Conversions` has each enumeration as names, or as pairs where the layers
number differently, and `ReadsBack` runs all of them there and back. `RoiMap` has the node
list (`AL_RoiMngr_AddROI` with the order of arrival, which is what `module_enc.cpp:182` asks for)
and `ComputeROI` with its transitions. `TwoPass` has the log (`AddFrame`, `Flush`, a restart that
opens it anew), the second pass (`GetFrame`, `EmptyLog`, `ComputeTwoPass`, `ComputeComplexity`), and
the look-ahead's own functions on the same pictures.

### 2.9 ServedComponent, EncoderApp, DecoderApp

`ServedComponent` is the abstraction of `OmxComponent` that a client which keeps the rules
relies on: commands one by one, answers, buffers that come back. The two applications are
written over it thread by thread: `safeMain` and the callbacks of the encoder; main, event bus,
`Worker`, `DeletePipeline` and the callbacks of the decoder.

### 2.10 Slips

Operators commented `slip:` are the mutants of `PROJECT.json`: one plausible error
of the code each, placed before the operator it replaces. No specification uses them.

## 3. Runs

| run | configuration | shows |
|---|---|---|
| `parts` | `MCParts`: one part after the other, see 3.1 | `Accounting`, `Drains` (queue); `InOrder`, `DrainedAtJoin`, `AtMostOneLate`, `DestroyReturns` (worker); `SizesFit`, `SetIsRead`, `FailedSetKeeps`, `CoherentCallsReturn`, `EnoughUntilMoreNeeded` (parameters: six codecs, any two calls; longer sequences on coupled settings); `ReadsBack`; `AppliedWhereAsked`; `RegionsHonoured`; `GuidedByFirstPass`; `ApplicationEnds` |
| `encoder` | `MCEncoder`: encoder module, or pictures of the encoder component | `Ownership`, `ConfigThere`, `LookAheadInOrder`, `TablesUsedOnce`, `StoppedKnowsNothing`; `RoiAccounted`, `ConfigWithItsPicture` |
| `decoder` | `MCDecoder`: decoder module, or time stamps of the decoder component | `Ownership`, `SeisWithTheirPicture`, `ResolutionAnnounced`; `OwnTimeStamp` |
| `component_any` | any 3 commands, legal or not, 2 overlapping, 1 codec error, 1 misuse | `Conservation`, `JoinsTerminate`, `ModuleFollowsState`, `ImplementsIL`, `TypeOK` |
| `component_streams` | an encoder, 4 commands of a playing client, 2 overlapping, 2 output buffers, buffers at any time, 1 end of stream | `DataFlows`, `QuietModule`, `FlushEmpties` |
| `component_eos` | a patient client, 2 buffers a port, 2 ends of stream, decoder | `NothingLost`, `PausedIsStill` |
| `component_answers` | a decoder, a patient and tidy client, fair threads | `PortsPopulated`, `CommandsAnswered`, `InputsReturned` |
| `parameters_recursion` | an encoder, 3 calls on rate control and clock | violation of `EveryCallReturns` |
| `kept_buffer` | as `component_answers`, the client not tidy | violation of `CommandsAnswered` |
| `encoder_eos` | the encoder, 1 end of stream | violation of `NothingLost` |
| `overlapping_enables` | 3 commands overlapping | violation of `DataFlows` |
| `two_ends` | a decoder, 2 input buffers, both sent empty with the end of the stream | violation of `NothingLost` |

### 3.1 Bounds

*Component.* One buffer a port is enough for everything that concerns one header; two output
buffers are used where the first one is kept in `eosHandles` and the second goes on
to the codec, in `component_streams` and `component_eos`. `component_eos` has two input buffers as well: with
`MaxEos = 2` they are the least for an end of stream to overwrite another. Its client waits for the first empty
end-of-stream buffer, as the applications do by sending one only; `two_ends` has the client that does not. Four commands are
`Loaded -> Idle -> Executing`, one more state or port command, its undoing; the runs with
five go on for one more. `MaxOutstanding = 2` lets a command be sent while another is treated; `DataFlows`
holds up to two such commands and fails with three (`overlapping_enables`). A bound only
stops the client or the faults: `CHECK_DEADLOCK FALSE` is there because a client that
has sent all it may send stops, rightly.

*Parts.* `subject` picks the part; the variables of the others are constant. Two
producers and two consumers are the least for a notify to have a choice; two callers and four
tasks put the destructor before, between and after the tasks. The application of the command file has two frames
in flight, so that the commands of a frame are queued behind a picture not yet treated. The files have several
lines of a frame, commands closer than the look-ahead of three and farther, an unsupported one, one
that throws, a blank line first; commands on the group of pictures come nearer than the frames in flight and
as far. The picture of the region map is 5 by 4 units, the last column
a partial one; three regions at a time out of six at corners, borders, inside, overlapping and
beyond. The two passes have five pictures in sequences of four (the code has 1000), so that
the log is read in two batches, with one restart. The applications have three frames for one or two input
and two output buffers. Conversions are checked for every value of the enumerations. Two calls of `SetParameter` show
what one parameter does to another, as each window touches one index; the clients `rates` (four calls) and `gops`
(three) go deeper where indices are coupled through the clock and the group of pictures. Values are a legal one,
another, the boundary and an illegal one.

*Encoder and decoder.* As in `parts`, `subject` picks what is checked. Encoder: three sources, three
streams and two tables, so that one stream can be kept as configuration, and a look-ahead of two is
full with one picture to come; one refused call and one `Stop` or `Restart`. Three pictures, but two
where there is a flush or a freed header (`FewWithFlush`). Decoder: two inputs and two frames of two
uses each, one refused call, one `Stop` or `Restart`. Five frames and two resets for the time
stamps, from two stamps, since only equal and different neighbours matter. Buffers are symmetric
where that pays: the modules only compare them.

### 3.2 Clients

`MaySend` says in which state which command is sent. `Patient` is the client of
`exe_omx`: it waits for its commands, allocates when populating or enabling
calls for it (`exe_omx/decoder/main.cpp`, `exe_omx/encoder/main.cpp`), and sends no second empty end-of-stream
buffer while one is out (`EndsStream`). `Tidy` is
what the decoder application does when it stops its pipeline
(`exe_omx/decoder/main.cpp:876-888`): it has an end of stream or a flush give all
buffers back first. Safety properties are checked for clients that are neither, where
they hold. That the two applications are such clients, and end, is `ApplicationEnds`.

### 3.3 Fairness

`FairSpec` of `OmxComponent` assumes weak fairness of each thread of the component (a thread that
can step is scheduled), of the codec's return of each buffer and of its answer to an end
of stream (the library promises both), and of the client's answers to a command
under way: it allocates what an enabled port lacks, frees what a disabled port
holds. Nothing is assumed of submissions, of new commands, of faults or of misuse.

`PartsSpec` assumes weak fairness of the threads inside `push` and `pop` and of the worker and
its destructor (`QueuesFairness`), and of each thread of the applications and of the component
behind them (`EncoderFairness`, `DecoderFairness`), each only where it is the subject. No strong fairness is
assumed anywhere: a notify is counted, not lost.

### 3.4 Findings

* `kept_buffer`: disabling the output port never completes for a client that waits
  for its buffers, because one of them is kept in `eosHandles`. The decoder
  application avoids it by stopping its pipeline first.
* `encoder_eos`: the encoder's end-of-stream callback clears `eosHandles` after its
  callbacks. A buffer the fill worker stores in between is forgotten.
* `overlapping_enables`: enable, disable and enable again, without waiting: the
  second enable is answered at once and the port stays behind its fence.
* `two_ends`: an empty end-of-stream buffer is stored over one that the library has not answered yet
  (`omx_component_dec.cpp:309`, `omx_component.cpp:2084`), and the first header is never returned.
* `parameters_recursion`: a coded picture buffer that was set for one frame rate and is refused
  for another makes the next refused call restore it, be refused, and call itself for ever.

Met while modelling, and without a run of their own:

*Component*
* An allocation that fails while a port is being enabled ends the command without any
  event (`omx_component.cpp:2028-2029`), and the client waits.
* `EncModule::CreateEncoder` leaves `encoders` filled when the library refuses to create one
  (`module_enc.cpp:223-226`). The component says Idle and refuses every later start (`module_enc.cpp:322-326`);
  a Flush in Idle starts such an encoder, and the component still says Idle.
* A restart that fails in a Flush or a `DisablePort` is only logged (`omx_component.cpp:1957`): the state stays
  Executing and the module has no codec.
* A Flush of one port restarts the module and rebuilds both FIFOs
  (`omx_component.cpp:1847-1850`, `2325`), where `omx_header/OMX_Core.h:710-711` says
  that only the named port is flushed.
* Buffers accepted in Idle are processed in Pause (`omx_component.cpp:1920-1921`), as
  the fence is queued behind them, where `OMX_Core.h:81-83` says that nothing is
  processed. `PausedIsStill` is therefore checked, and proved, for a client that
  pauses from Executing only.
* A buffer submitted between `SetState(Idle)` and its completion reaches a stopped
  module and fails `assert(success)` (`omx_component.cpp:2095-2096`, `2126`). It is the
  reason why `NothingLost` is checked for a patient client.

*Pictures*
* A flush drops the `SetDynamic` tasks it finds and leaves SEI messages already treated to a
  later picture; `ReleaseCallBack` does not give a region buffer back, and `FreeBuffer` frees one that is still in
  the pool. `RoiAccounted` and `ConfigWithItsPicture` are stated for runs without a flush.
* Two neighbouring frames with one time stamp count as one, a picture the decoder drops shifts
  the stamps of those behind it, and the way to Idle that does not flush keeps them.
  `OwnTimeStamp` names these cases in `clean`.

*Modules*
* `Stop` and `Flush` do not return while a callback waits for a configuration buffer with
  the mutex held, and `Fill` blocks when two streams come before a refill.
* With look-ahead, pictures waiting at `Stop` are dropped without a callback (`forgotten`), a table is used
  for later pictures too, and two pictures that arrive before the worker's first task stall it (`overtaken`).
* A refused `AL_Encoder_Process` or push returns the buffer and keeps its entry in the map (`refused`).
* `DecModule::Restart` keeps `resolutionFoundHasBeenCalled`: the resolution of what follows is not
  announced (`restarted`). A released frame keeps its SEI messages for its next use (`stale`).

*Parameters and settings*
* A frame rate below one frame a second is a division by zero, `convert` functions throw
  `std::invalid_argument` out of the component, and the JPEG decoder has no expertise to ask;
  `CoherentCallsReturn` is stated for calls that are neither (`Known`).
* Rollbacks are not neutral: what they lose is `LostByRollback`. And when the stored rate control does not fit
  the clock (a coded picture buffer set at one frame rate, then another rate set by a `PortFormat`), the rollback of a definition is
  refused at its bit rate, and its own rollback leaves the clock and the format of the refused definition.
  `FailedSetKeeps` is stated for settings that are `Coherent`; the run has this case.
* `SetPortExpectedBuffer` is applied before the rest of the definition may be refused.
* `SetRole` resets the settings, but the name of the two-pass log stays
  (`settings_enc_avc.cpp:50-95`): `ResetInUse`.
* A `SetConfig` before Executing is accepted and lost: `SetDynamic` is refused without an encoder and
  `TreatDynamicCommand` ignores the answer. `GetConfig` does not see what is queued.
* Packed 10-bit formats are read back unpacked, `MAIN_444_16_STILL` as `MAIN_444_STILL`.

*Two passes, regions, commands, applications*
* A restart in the first pass loses what is not logged and empties the log, so the second pass is
  out of step; more pictures than logged end the worker by an exception. With a pattern of two frames the
  target level is whatever the memory held.
* A transition lowers the quality of units that belong to other regions.
* In a command file that begins with a blank line nothing is read; a bit rate of 0 throws, in a callback
  thread, as many frames early as the look-ahead has; commands closer than the look-ahead lose
  the notification of a scene change.
* `GopLen` and `NumB` read the group of pictures with `GetConfig`, write all of it back
  (`CommandsSender.cpp:84-91`, `100-105`), and what is queued is not read. One undoes another of its own frame, or of a
  frame whose picture is not treated yet. `AppliedWhereAsked` speaks of the group only where such
  commands are as far apart as there are frames in flight (`GroupsApart`).
* `GopLen` of a length that is not a multiple of its B frames and one gives a group one picture shorter
  (`CommandsSender.cpp:90-91`, and `104-105` for `NumB`); `AppliedWhereAsked` is checked with files that ask for none.
* The decoder application with `--max-frames` may raise its end twice or wait for ever; one
  whose stream has no resolution waits for ever without `--prealloc-args`.
  The encoder application's `app->read = true` in a wait predicate is an assignment
  (`exe_omx/encoder/main.cpp:583`), so the callback does not wait.

## 4. Proofs

The proof modules hold for every value of the constants that the named `ASSUME`s
admit, so for any number of buffers, threads, tasks and commands and for every bound.
In each, one inductive invariant carries everything; there is one lemma per action, and under
it one step per conjunct the action can disturb.

**`Queues_proofs`** (479 obligations), the locked queue. `AccountingHolds` is `[]Accounting`,
`NoEmptyFrontHolds` says that `front()` is never called on an empty queue. The invariant
`QInv` adds to `Accounting` the type of the variables and the finiteness of the two sets of threads; the
second theorem follows because a consumer past the semaphore makes the right side of `Accounting`
positive. The cardinalities of the two sets are moved by one element at a time, in one lemma each.

The worker. `TasksInOrder`, `DestructorDrains` and
`OneLateTask` are `[]InOrder`, `[]DrainedAtJoin` and `[]AtMostOneLate`. None of the three is
inductive. The invariant `IInv` adds `QuitLast` (until the worker has popped it the
quit task is the last of the queue, and only the destructor puts it there), `InHand` (the
worker holds a task exactly between its pop and its return) and `HandlerOnce` (the
handler moves away from "process" once, and the worker's copy lags only while it is
about to be called).

**`OmxComponent_proofs`** (1308 obligations).

* `TypeCorrect` is `[]TypeOK`. It needs `TaskOfPc`, which ties each step of the
  scheduler thread to the kind of command it treats: without it the new state of
  `MainSwitch` could be anything, and the `CASE` of `MainReblock` undefined.
* `NoSelfJoin` is `[]JoinsTerminate`: the destructor of a FIFO is never entered while
  a closed fence is in it or in its worker's hands. The argument: a closed fence
  implies a pending promise (`FencesKnown`), since a fence is queued together with its
  promise and all fences are released together; and no promise is pending from
  `unblock` to `reblock` (`OpenWhileFlushing`), since the only thread that closes
  fences is the one that flushes. No assumption about the client is used.
* `DecoderFollowsState` is `[](ModuleFollowsState /\ IdleIsReadyToStart)` under the
  assumption `Decoder`. `ModulePlace` says where in a command the module can have been
  started. The assumption is needed: an encoder that could not be created violates the second
  conjunct, and after a Flush in Idle the first (3.4).

`NextIInv` has one lemma per action; `Frame` and `FrameInv` dispose of what an action
leaves alone.

**`OmxBuffers_proofs`** (5074 obligations) continues with the buffers. `BInv` adds to that invariant
`Transit` (the step of the scheduler thread tells the state the command came from and what the
checker answered), `FlushKnown`, `EosKnown`, `Placed` and `Conservation`.

* `ConservationHolds`: `Copies` counts a header over the client, the two queues, the workers, the module,
  `eosHandles` and what was lost. Each action moves one term of the sum to another.
* `FlushEmptiesHolds`: what `FlushFillEmptyBuffers` has emptied stays empty until the command
  ends, although the client goes on submitting (`FlushKnown`). The reason is the same as for
  `NoSelfJoin`: a submitted buffer reaches a FIFO through the scheduler thread, which is
  busy flushing.
* `QuietModuleHolds` follows from `FlushKnown`, without any assumption on the client: the workers
  of two drained FIFOs cannot be inside the module.
* `ImplementsILHolds` is the refinement of `ILComponent`, step by step. A header's abstract owner is
  computed from `client` and `portBuffers`, so the only steps that do not stutter are those of the
  client, the callbacks and the changes of state. `Transit` is what
  makes a change of state one that the abstract component allows.

* `DataFlowsHolds` is `[]DataFlows` for any client, under `MaxOutstanding <= 2`; with three
  commands outstanding it is false, as `overlapping_enables` shows. The invariant `Flow` says why a fence
  that is not one of Pause is there: some port is disabled, or has an `EnablePort` still to look at
  `toEnable` (`FencesExplained`). The step that puts such a fence, `MainBlock`, knows it from
  `DisableKnown`: of the two commands on their way one is this `DisablePort`, so no `EnablePort` in front
  of it can have opened the port in the meantime. `Accounted` bounds the commands on their way by those
  not answered. TLC checked `Flow` on the instances first.
* `PausedIsStillHolds` is `[]PausedIsStill` under `PausesOnlyWhatRuns`, which the client of `component_eos`
  satisfies: one command at a time, no Pause from Idle, only changes of state sent in Pause. It says nothing
  of when buffers are submitted. The invariant `Still` says that the closed fence of a paused component
  is there (`FenceThere`) and has no buffer in front of it (`HeldBack`): the flush has left nothing but
  fences, and the buffers of the client queue behind. TLC finds the property violated without any one of
  the three assumptions: with two commands outstanding a change of state may be treated in another state
  than the one it was sent in (`SentHere`); a Pause from Idle puts the fence behind the buffers accepted in
  Idle (3.4); a Flush sent in Pause opens the fences before it destroys the FIFOs, and what had
  queued behind them is processed (`omx_component.cpp:1783-1789`).
* `PortsPopulatedHolds` is `[]PortsPopulated` under `OneAtATime`: one `SendCommand` outstanding, no failing
  allocation, no `FreeBuffer` out of turn. The property reads what the client holds, the invariant
  `Populated` what the commands on their way will do: a port in transition has its command on the way
  (`Transition`), `FreeBuffer` is open only while the way to Loaded lasts (`LeavingKnown`), an enabled
  port is full outside of both (`Full`), and `EnablePort` ends only when the port is (`Ready`). `Sole` is where
  the client's patience enters. TLC finds the property violated with two commands outstanding, and
  with one `FreeBuffer` out of turn.
* `NothingLostHolds` is `[]NothingLost` under `PatientPlayer`, which the client of `component_eos` satisfies;
  neither the number of commands outstanding nor that of streams that end is bounded. A buffer is lost when the module refuses it or when the end of the
  stream overwrites one in `eosHandles`. Against the first, `Unhindered` says that a buffer is submitted
  behind no command and dispatched before one; `Started` and `Expecting` that a buffer under way finds the module
  started or the component in Invalid. Against the second, `OneEos` says that at most one
  empty end-of-stream buffer is between the client and the library: the client waits for the last one (`EndsStream`). TLC
  finds the property violated without any of the assumptions: with a second such buffer sent before the first is back
  (`two_ends`), with `SetState(Idle)` sent in Pause (3.4), with buffers submitted in Idle, with a codec error, with an
  impatient client. The client
  may disable and enable ports meanwhile: their restart of the module is one step of the model, so the
  theorem says nothing of a worker caught inside the module by it (`omx_component.cpp:1991`).

**`Decoder_proofs`** (1598 obligations), the module. `IInv` adds to the type and to `Ownership`: without a decoder
nothing waits (`DecoderThere`), `resolutionFoundHasBeenCalled` stands for the announcement but for the
decoder of a `Restart` (`Announced`), and, without the early callback, what the parser holds and the
messages kept are of a picture the library still has (`SeisKnown`). Hence `OwnershipHolds`,
`SeisWithTheirPictureHolds`, `ResolutionAnnouncedHolds`, and `NeverNull`: without the early callback the
parser is never given a null handle.

The time stamps. `OwnTimeStampHolds`: `transmit` has, entry by entry, the frames
that the module still has, and the one of which only the first buffer has come (`OneEach`). This needs what
`oldTimeStamp` and `dataHasBeenPropagated` remember between two buffers (`Remembered`), that the end of
the stream is the last entry, and that nothing is remembered between a flush and its restart.

**`Encoder_proofs`** (5234 obligations), the module.

* `OwnershipHolds` needs `Phase` (what `Stop`, the worker and the callback can be doing together),
  `Hands` (what each of them holds) and `Owned`, which is `Ownership` carried through the moment at which
  `Stop` has taken the configuration buffer out of the maps and has not forgotten it.
* `ConfigThereHolds` needs `Config`: the semaphore counts 1 exactly while a configuration buffer is kept.
* `LookAheadInOrderHolds`: with a look-ahead the history of accepted pictures is at every moment what the
  second queue, the worker, the FIFO and the first queue hold, in that order (`Ordered`); the end of
  the stream is behind all of them (`EosLast`); each task that waits answers for one picture (`Waiting`).
* `TablesUsedOnceHolds`: `TablesHeld` is an account of the references. `StoppedKnowsNothingHolds`
  follows from `Owned`.

The messages, regions and map buffers of the component. Both properties speak of runs without a flush, so `PInv` is
`Types`, `Apart` (a header is in one place) and, until there is a flush, `Orderly`.

* `RoiAccountedHolds`: `Placed` puts each map buffer once in the pool or with one header whose
  picture is in the module. `Counted` adds that there are as many as headers; a picture about to be given one finds the pool
  filled, since its own header has none (`PoolHasOne`, a counting argument on the finite sets).
* `ConfigWithItsPictureHolds` compares what the worker collects with what the client asked for any number
  of tasks earlier. In place of a recursive replay of the FIFO, `Leads` says that there is a
  chain of states, one per task, that leads from what the worker has to what the client has asked for, and that each
  queued picture finds on it what was asked with it. A new task prolongs the chain
  (`ChainGrows`), a treated one shortens it (`ChainShrinks`).

**`Parts_proofs`** (2282 obligations), the region map and the two passes. `RegionsHonouredHolds` is `[]RegionsHonoured` for any size of picture, any
rectangles, either order and any qualities within the range of an entry (`RoiAssumption`). The table is the result
of a loop over the regions, so the proof is an induction on the number of regions that are in it. The theorems of
the library that take the property as an operator cannot be used; `Induction` is stated of the set of numbers a
property holds for, and rests on `Least`, the least number of such a set, which `WFMin` of the library gives.
`Recursion` proves with it that the table exists for every list. What a region adds to the sets of regions on and
around a unit is in `SetsGrow`; the step of the induction is `IntraStep`, `QualityStep` and `BetweenStep`, one per
kind of conjunct. The last rests on `MeanBetween`: the mean rounds towards zero, and still stays between the two
qualities whatever their signs.

`GuidedByFirstPassHolds` is `[]GuidedByFirstPass` for any pictures of at least one byte, any rate control whose
initial delay fits its buffer, any length of a sequence and any sizes of the look-ahead (`PassAssumption`). `PassInv`
says of the second pass that what it has read is a piece of the log with its plan, and that the count of the
pictures it was told goes with the place in the log; without a restart the log is a beginning of what was seen.
That gives the first part, and that a plan always belongs to a piece of the log; the rest is about `ComputeTwoPass`:

* The sums are folds that take the elements in an order of their own. `SumsExist` makes a table of the
  sums over all sets of indices, `FoldIsSum` shows by induction on the number of elements that a fold agrees with it.
  With it no group is empty and no mean is zero (`RelativeIsInt`, which needs `FirstStarts`: the first
  picture begins a group).
* The levels are rounded picture by picture, and the complexities again after they are damped. `SpentFollowsLevel`
  is the inductive bound: after `k` pictures a thousand times what is spent is within `k` times
  `q * (rate - 1) + 999` of the damped level, times the rate. `DampingFits` bounds that level by the buffer, and
  `BoundsOfSpent` draws the two into one unit a picture.
* `LooksAsFar` says how far the look-ahead looks, and `LookAheadSays` that this is as far as the log's ratio goes when
  the window has four pictures and no scene change comes next.

**`Parameters_proofs`** (4698 obligations) holds for any number of clients, of calls and of values, for all six codecs.
The assumption on the clients (`ClientsAssumption`) is that a structure has the fields of its parameter, and a number
where the code counts or computes with one. The invariant `SInv` has three parts: each index
has the fields of its setting (`Shaped`), the picture fits in its strides (`Fits`), and the numbers that others are divided
by or read from a table with are in the range of their check (`Counted`).

* `SizesFitHolds`: each write of a parameter keeps `SInv`, refused or not, because `UpdateFormat` and
  `UpdateResolution` round again after every write; so do sequences of writes, by an induction on
  their number (`ApplyKeeps`), and the writes that take a refused call back (`RestoreKeeps`).
* `TypeOKHolds` adds what the component keeps beside the settings.
* `EnoughUntilMoreNeededHolds`: every step that sets the expected number of a port looks at the need after it.
* `SetIsReadHolds` is `[]SetIsRead` under `ExactRates`: each frame rate a client asks for is that of some clock.
  It is what a client of the code must know: the settings keep a rate in thousandths, and one that they cannot
  express is read back as another (`convert_omx_media.cpp`). All rates of the run are exact. Most parameters
  are windows of one write, and what was written is read in place (`WindowIsRead`). A frame rate and a
  format are two writes, and what the second one rounds must leave the first alone (`PortFormatIsRead`).
* `FailedSetKeepsHolds` is `FailedSetKeeps` under `SteadyRates`. `SInv` is not enough for it: a rollback writes
  what was read, and what was read must be accepted again and stored as it was. `KInv` adds that (`Restorable`): each
  index has just the fields of its setting, its clock and its group of pictures come back from the conversion to
  OpenMAX IL and from there, and every index but the rate control and its plugin would be accepted if it were set now. The
  rate control is left out because its check reads the clock, which may have changed since; that it fits is `Coherent`. The
  plugin is left out because one that nobody has set is refused (`settings_enc_avc.cpp:965`); no rollback writes it, as
  `SetVideoRateControlPlugin` has none (`omx_component_getset.cpp:2129-2138`). The defaults are restorable (`ResetRestorable`) and each write keeps them so (`WriteRestorable`).
  `BackRestores` then takes the parameters: one write changes nothing when it is refused; the format, the definition and the
  expertise may have made some of their writes, and each is undone in the order of the code, whichever they were
  (`PortFormatBack`, `DefinitionBack`, `ExpertiseBack`). The first inner call is accepted, so there is no second.
* `CoherentCallsReturnHolds` is `CoherentCallsReturn` under `SteadyRates`. A call that is refused returns by the same
  argument (`CallRestores`). What is left are the writes of the call itself (`CallSoft`): a definition sets the target
  bit rate after the clock, so it is the new clock that must have a frame a second (`FramesOfClock`).

`SteadyRates` says that the clock of a frame rate the client asks for, converted to a frame rate and back, is the same
clock. It is so for whole rates (`WholeRatesSteady`) and for those of the run, 29.97 frames a second among them; not for all: a
rate just above one frame a second is the clock 2/2000, which is read back as 1/1000
(`ConvertMediaToOMXFramerate` and `ConvertOMXToMediaClock` of `convert_omx_media.cpp` round twice). A rollback then
writes another clock of the same rate.

**`SequenceLemmas`** (424 obligations) has what these share: membership, order and disjointness under `Append`,
`Tail`, concatenation and filters. Its names for concatenations (`Joined`, `Single`, `Vacant`) are cited, not
expanded, in the proofs: provers lose themselves in nested concatenations.

The type invariants of the two modules, of `Parameters` and of the two parts of the components (`TypeOK`, `PicturesTypeOK`,
`StampsTypeOK`) are proved and not checked in a run.

The proofs found one fault of a model: the worker of `EncModule` had a `CASE` whose arms overlapped. It
is nested conditionals now, in the order of the code. And they found that `FailedSetKeeps`, stated of
every call at first, is not true of the code: hence `Coherent` (section 3.4).

### 4.1 Only model-checked

* `Drains`, `DestroyReturns`, `CommandsAnswered`, `InputsReturned`, `ApplicationEnds`: liveness is out of
  the prover's reach.
* `ReadsBack` is a finite property of the tables of enumerations and TLC goes through every value of
  them; only the messages and numbers it carries along are an instance.
* `AppliedWhereAsked` is about what a command file gives through nested folds and recursive functions, and does
  not hold of every file: `GopOf` shortens some groups
  (section 3.4), so there is no theorem for any `Files`.
* `NothingLost` for the encoder, whose end of stream the run `encoder_eos` shows lost.
* Theorems under a named assumption: `ModuleFollowsState` (`Decoder`), `DataFlows` (two commands outstanding),
  `PausedIsStill` (`PausesOnlyWhatRuns`), `PortsPopulated` (`OneAtATime`), `NothingLost` (`PatientPlayer`),
  `SetIsRead` (`ExactRates`), `FailedSetKeeps` and `CoherentCallsReturn` (`SteadyRates`).

## 5. Not modelled

* OMX core, entry points and wrappers, logging, command lines, YUV files, device and memory layers,
  the dummy module and third-party code keep no state that the component depends on.
* The codec library is not part of the repository and is modelled from its use, its defaults and
  pitches as constants.
* `marks`, the destruction of a component, extension names and fixed answers of `GetParameter`.
* The width of integers in conversions, the bytes of pictures and of the region table.
* The five crops and the window complexity of the look-ahead (`TwoPassMngr.cpp`), the resolution and HDR
  file of the command file, the errors on which the applications exit.
* The monitor of `struct Port` is atomic in `OmxComponent`.

## 6. Plan

1. done: queue, worker, checker, component, modules, pictures, parameters, settings, conversions,
   command file, regions, two passes, applications.
2. done: theorems about the queues, the component's buffers and its refinement, both modules, both components, parameters, regions and passes.
3. The monitor of `struct Port` (`WaitFull`, `WaitEmpty`, `Add`, `Remove`, `setExpected` without a
   notification, `ErrorOccurred`) against the atomic port of `OmxComponent`.
4. `ServedComponent` as an abstraction of `OmxComponent` with a patient, tidy client.
5. `ModuleFollowsState` without the assumption `Decoder`, as far as the encoder's failing start allows.
