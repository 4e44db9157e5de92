----------------------------- MODULE DecoderApp -----------------------------
(***************************************************************************)
(* The decoder application: the main thread, which waits for the events of *)
(* its bus and treats them, the worker, which configures the component and *)
(* reads the stream, the thread that takes the pipeline down, and the      *)
(* callbacks on the threads of the component.                              *)
(***************************************************************************)
EXTENDS ServedComponent

CONSTANTS
  Streams \* [frames, prealloc]: buffers the file fills, --prealloc-args

VARIABLES
  stream, readFrames,
  eventQueue,                               \* of the event bus
  quit, pipelineEnded,
  decoderEventState, disableEvent, flushEvent, \* the semaphores
  inputBuffers,                             \* the queue of free buffers
  main, omxWorker, deletePipeline,          \* where the threads are
  refilling, ended,                         \* of onOutputBufferAvailable
  announced                                 \* the component found the resolution

appVars == <<stream, readFrames, eventQueue, quit, pipelineEnded, decoderEventState, disableEvent, flushEvent,
             inputBuffers, main, omxWorker, deletePipeline, refilling, ended, announced>>
vars == <<componentVars, appVars>>

Threads == [omxWorker |-> omxWorker, deletePipeline |-> deletePipeline]

Event(type) == [type |-> type]
CommandComplete(c) == [type |-> "omx", command |-> c]
SettingsChanged == [type |-> "settings"]

(***************************************************************************)
(* Callbacks: onComponentEvent only puts the event on the bus.             *)
(***************************************************************************)
Complete ==
  /\ treating # None /\ End(treating)
  /\ eventQueue' = Append(eventQueue, CommandComplete(treating))
  /\ UNCHANGED <<stream, readFrames, quit, pipelineEnded, decoderEventState, disableEvent, flushEvent, inputBuffers,
                 main, omxWorker, deletePipeline, refilling, ended, announced>>

\* the first picture tells the resolution
Announce ==
  /\ Runs /\ ~announced /\ coding # <<>> /\ Head(coding) = "frame"
  /\ announced' = TRUE /\ eventQueue' = Append(eventQueue, SettingsChanged)
  /\ UNCHANGED <<componentVars, stream, readFrames, quit, pipelineEnded, decoderEventState, disableEvent, flushEvent,
                 inputBuffers, main, omxWorker, deletePipeline, refilling, ended>>

onInputBufferAvailable ==
  /\ returning["input"] # <<>> /\ Returned("input")
  /\ inputBuffers' = Append(inputBuffers, Head(returning["input"]).buffer)
  /\ UNCHANGED <<state, commands, treating, enabled, allocated, inside, coding, stream, readFrames, eventQueue, quit,
                 pipelineEnded, decoderEventState, disableEvent, flushEvent, main, omxWorker, deletePipeline,
                 refilling, ended, announced>>

\* the buffer goes back before the end is told; after the end none goes back
onOutputBufferAvailable ==
  /\ returning["output"] # <<>> /\ ~refilling
  /\ IF ended THEN Returned("output") /\ UNCHANGED <<refilling, commands>>
     ELSE /\ refilling' = TRUE
          /\ Submit("output", <<Buffer(Head(returning["output"]).buffer, <<>>)>>)
          /\ UNCHANGED returning
  /\ UNCHANGED <<state, treating, enabled, allocated, inside, coding, stream, readFrames, eventQueue, quit,
                 pipelineEnded, decoderEventState, disableEvent, flushEvent, inputBuffers, main, omxWorker,
                 deletePipeline, ended, announced>>

TellEnd ==
  /\ refilling /\ refilling' = FALSE /\ Returned("output")
  /\ LET wasEos == Head(returning["output"]).what = "eos"
     IN /\ ended' = wasEos
        /\ eventQueue' = IF wasEos THEN Append(eventQueue, Event("eos")) ELSE eventQueue
  /\ UNCHANGED <<state, commands, treating, enabled, allocated, inside, coding, stream, readFrames, quit,
                 pipelineEnded, decoderEventState, disableEvent, flushEvent, inputBuffers, main, omxWorker,
                 deletePipeline, announced>>

(***************************************************************************)
(* The main thread: tick, for one event after the other.                   *)
(***************************************************************************)
\* handleEvent, of the completion of a command
Completion(c) ==
  /\ decoderEventState' = decoderEventState + (IF c.cmd = "StateSet" THEN 1 ELSE 0)
  /\ disableEvent' = disableEvent + (IF c.cmd = "PortDisable" THEN 1 ELSE 0)
  /\ flushEvent' = flushEvent + (IF c.cmd = "Flush" THEN 1 ELSE 0)
  /\ IF c = Enable("output")
     THEN Submit("output", SetToSeq({Buffer(b, <<>>) : b \in Buffers["output"]}))
     ELSE UNCHANGED commands
  /\ UNCHANGED <<allocated, quit, pipelineEnded, deletePipeline>>

\* handleEvent, of OMX_EventPortSettingsChanged
PortSettingsChanged ==
  /\ IF stream.prealloc THEN UNCHANGED <<commands, allocated>>
     ELSE SendCommand(Enable("output")) /\ UseBuffers("output")
  /\ UNCHANGED <<decoderEventState, disableEvent, flushEvent, quit, pipelineEnded, deletePipeline>>

\* the listener of eosEvent
EndOfStream ==
  /\ quit' = TRUE
  /\ deletePipeline' = IF quit THEN deletePipeline ELSE "flush input"
  /\ UNCHANGED <<commands, allocated, decoderEventState, disableEvent, flushEvent, pipelineEnded>>

PipelineEnd ==
  /\ pipelineEnded' = TRUE
  /\ UNCHANGED <<commands, allocated, decoderEventState, disableEvent, flushEvent, quit, deletePipeline>>

Tick ==
  /\ main = "events" /\ eventQueue # <<>> /\ eventQueue' = Tail(eventQueue)
  /\ LET event == Head(eventQueue)
     IN \/ event.type = "omx" /\ Completion(event.command)
        \/ event = SettingsChanged /\ PortSettingsChanged
        \/ event = Event("eos") /\ EndOfStream
        \/ event = Event("pipeline end") /\ PipelineEnd
  /\ UNCHANGED <<state, treating, enabled, inside, returning, coding, stream, readFrames, inputBuffers, main,
                 omxWorker, refilling, ended, announced>>

Join ==
  /\ main = "events" /\ eventQueue = <<>> /\ pipelineEnded
  /\ omxWorker = "end" /\ deletePipeline = "end"
  /\ main' = "end"
  /\ UNCHANGED <<componentVars, stream, readFrames, eventQueue, quit, pipelineEnded, decoderEventState, disableEvent,
                 flushEvent, inputBuffers, omxWorker, deletePipeline, refilling, ended, announced>>

(***************************************************************************)
(* The worker and the thread that ends the pipeline.                       *)
(***************************************************************************)
Goto(thread, from, to) ==
  /\ Threads[thread] = from
  /\ IF thread = "omxWorker" THEN omxWorker' = to /\ UNCHANGED deletePipeline
     ELSE deletePipeline' = to /\ UNCHANGED omxWorker

Send(thread, from, c, to) ==
  /\ Goto(thread, from, to) /\ SendCommand(c)
  /\ UNCHANGED <<state, treating, enabled, allocated, inside, returning, coding, stream, readFrames, eventQueue, quit,
                 pipelineEnded, decoderEventState, disableEvent, flushEvent, inputBuffers, main, refilling, ended,
                 announced>>

\* wait, on one of the three semaphores
WaitFor(thread, from, command, to) ==
  LET Taken(type) == IF command = type THEN 1 ELSE 0
  IN /\ Goto(thread, from, to)
     /\ decoderEventState >= Taken("StateSet") /\ decoderEventState' = decoderEventState - Taken("StateSet")
     /\ disableEvent >= Taken("PortDisable") /\ disableEvent' = disableEvent - Taken("PortDisable")
     /\ flushEvent >= Taken("Flush") /\ flushEvent' = flushEvent - Taken("Flush")
     /\ UNCHANGED <<componentVars, stream, readFrames, eventQueue, quit, pipelineEnded, inputBuffers, main, refilling,
                    ended, announced>>

\* allocBuffers of a port; the headers of the input port are free buffers
allocBuffers(from, p, to) ==
  /\ Goto("omxWorker", from, to) /\ UseBuffers(p)
  /\ inputBuffers' = IF p = "input" THEN inputBuffers \o SetToSeq(Buffers[p]) ELSE inputBuffers
  /\ UNCHANGED <<state, commands, treating, enabled, inside, returning, coding, stream, readFrames, eventQueue, quit,
                 pipelineEnded, decoderEventState, disableEvent, flushEvent, main, refilling, ended, announced>>

\* configureComponent and the start: without --prealloc-args the output port
\* is disabled until the resolution is known
Configure ==
  \/ Send("omxWorker", "disable", Disable("output"), "wait disable")
  \/ WaitFor("omxWorker", "wait disable", "PortDisable", "idle")
  \/ Send("omxWorker", "idle", State("Idle"), "alloc input")
  \/ stream.prealloc /\ allocBuffers("alloc input", "input", "alloc output")
  \/ ~stream.prealloc /\ allocBuffers("alloc input", "input", "wait idle")
  \/ allocBuffers("alloc output", "output", "wait idle")
  \/ WaitFor("omxWorker", "wait idle", "StateSet", "execute")
  \/ Send("omxWorker", "execute", State("Executing"), "wait executing")
  \/ WaitFor("omxWorker", "wait executing", "StateSet", IF stream.prealloc THEN "fill" ELSE "read")

FillAll ==
  /\ Goto("omxWorker", "fill", "read")
  /\ Submit("output", SetToSeq({Buffer(b, <<>>) : b \in Buffers["output"]}))
  /\ UNCHANGED <<state, treating, enabled, allocated, inside, returning, coding, stream, readFrames, eventQueue, quit,
                 pipelineEnded, decoderEventState, disableEvent, flushEvent, inputBuffers, main, refilling, ended,
                 announced>>

\* the loop of the worker: the last buffer of the file is followed by an
\* empty one that carries the end
ReadFrame ==
  /\ inputBuffers # <<>> /\ inputBuffers' = Tail(inputBuffers)
  /\ \/ /\ Goto("omxWorker", "read", IF readFrames + 1 = stream.frames THEN "eos" ELSE "test")
        /\ Submit("input", <<Buffer(Head(inputBuffers), <<"frame">>)>>) /\ readFrames' = readFrames + 1
     \/ /\ Goto("omxWorker", "eos", "end")
        /\ Submit("input", <<Buffer(Head(inputBuffers), <<"eos">>)>>) /\ UNCHANGED readFrames
  /\ UNCHANGED <<state, treating, enabled, allocated, inside, returning, coding, stream, eventQueue, quit,
                 pipelineEnded, decoderEventState, disableEvent, flushEvent, main, refilling, ended, announced>>

TestQuit ==
  /\ Goto("omxWorker", "test", IF quit THEN "end" ELSE "read")
  /\ UNCHANGED <<componentVars, stream, readFrames, eventQueue, quit, pipelineEnded, decoderEventState, disableEvent,
                 flushEvent, inputBuffers, main, refilling, ended, announced>>

Worker == Configure \/ FillAll \/ ReadFrame \/ TestQuit

\* freeBuffers of the input port waits for every buffer in the queue
FreeInput ==
  /\ Goto("deletePipeline", "free input", IF allocated["input"] = {} THEN "free output" ELSE "free input")
  /\ IF allocated["input"] = {} THEN UNCHANGED <<allocated, inputBuffers>>
     ELSE /\ inputBuffers # <<>> /\ inputBuffers' = Tail(inputBuffers)
          /\ FreeBuffers("input", {Head(inputBuffers)})
  /\ UNCHANGED <<state, commands, treating, enabled, inside, returning, coding, stream, readFrames, eventQueue, quit,
                 pipelineEnded, decoderEventState, disableEvent, flushEvent, main, refilling, ended, announced>>

FreeOutput ==
  /\ Goto("deletePipeline", "free output", "wait loaded") /\ FreeBuffers("output", Buffers["output"])
  /\ UNCHANGED <<state, commands, treating, enabled, inside, returning, coding, stream, readFrames, eventQueue, quit,
                 pipelineEnded, decoderEventState, disableEvent, flushEvent, inputBuffers, main, refilling, ended,
                 announced>>

QueuePipelineEnd ==
  /\ Goto("deletePipeline", "tell", "end") /\ eventQueue' = Append(eventQueue, Event("pipeline end"))
  /\ UNCHANGED <<componentVars, stream, readFrames, quit, pipelineEnded, decoderEventState, disableEvent,
                 flushEvent, inputBuffers, main, refilling, ended, announced>>

DeletePipeline ==
  \/ Send("deletePipeline", "flush input", Flush("input"), "wait input")
  \/ WaitFor("deletePipeline", "wait input", "Flush", "flush output")
  \/ Send("deletePipeline", "flush output", Flush("output"), "wait output")
  \/ WaitFor("deletePipeline", "wait output", "Flush", "stop")
  \/ Send("deletePipeline", "stop", State("Idle"), "wait stop")
  \/ WaitFor("deletePipeline", "wait stop", "StateSet", "unload")
  \/ Send("deletePipeline", "unload", State("Loaded"), "free input")
  \/ FreeInput \/ FreeOutput
  \/ WaitFor("deletePipeline", "wait loaded", "StateSet", "tell")
  \/ QueuePipelineEnd

\* the threads of the component
Scheduler    == (TakeBuffers \/ Begin) /\ UNCHANGED appVars
InputWorker  == Consume /\ UNCHANGED appVars
OutputWorker == announced /\ Produce /\ UNCHANGED appVars

Init ==
  /\ InitComponent
  /\ stream \in Streams /\ readFrames = 0
  /\ eventQueue = <<>> /\ quit = FALSE /\ pipelineEnded = FALSE
  /\ decoderEventState = 0 /\ disableEvent = 0 /\ flushEvent = 0
  /\ inputBuffers = <<>> /\ main = "events" /\ deletePipeline = "none"
  /\ omxWorker = IF stream.prealloc THEN "idle" ELSE "disable"
  /\ refilling = FALSE /\ ended = FALSE /\ announced = FALSE

Output == onOutputBufferAvailable \/ TellEnd
Main   == Tick \/ Join

Next ==
  \/ Scheduler \/ InputWorker \/ OutputWorker \/ Complete \/ Announce
  \/ onInputBufferAvailable \/ Output
  \/ Main \/ Worker \/ DeletePipeline

\* the threads, each for itself
Fairness ==
  /\ WF_vars(Scheduler) /\ WF_vars(InputWorker) /\ WF_vars(OutputWorker) /\ WF_vars(Complete) /\ WF_vars(Announce)
  /\ WF_vars(onInputBufferAvailable) /\ WF_vars(Output) /\ WF_vars(Main)
  /\ WF_vars(Worker) /\ WF_vars(DeletePipeline)
Spec == Init /\ [][Next]_vars /\ Fairness

Ended == main = "end" /\ state = "Loaded" /\ \A p \in Ports : allocated[p] = {}
=============================================================================
