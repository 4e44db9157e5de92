------------------------------ MODULE EncModule ------------------------------
(***************************************************************************)
(* module/module_enc.cpp: what stands between the encoder component and the *)
(* control software's encoder.  Two FIFO workers hand buffers in (Empty,    *)
(* Fill), the component's main thread starts and stops, the library's       *)
(* callback threads hand buffers back (EndEncoding), and with a look-ahead   *)
(* a worker of its own carries pictures from the first encoder to the       *)
(* second (AddFifo, EmptyFifo).  A buffer is named by its handle: `handles'  *)
(* and `pool' are the sets of handles the two maps know.                    *)
(* The component calls Stop and Restart while neither of its workers is in   *)
(* the module (OmxComponent, QuietModule); the callbacks know no such rule.  *)
(***************************************************************************)
EXTENDS Integers, Sequences, FiniteSets, SequencesExt

CONSTANTS Sources,      \* the input handles
          Streams,      \* the output handles
          Tables,       \* the quantisation tables the client sends
          None, Eos,    \* no handle; the end of the stream
          Settings,     \* what the media may hold: [la, separate]
          MaxFailures,  \* bound: calls the library refuses
          MaxStops      \* bound: calls of Stop and Restart

HandlesAssumption ==
  Sources \cap Streams = {} /\ {None, Eos} \cap (Sources \cup Streams) = {} /\ None # Eos
TablesAssumption == None \notin Tables
SettingsAssumption == Settings \subseteq [la : Nat, separate : BOOLEAN]
BoundsAssumption == MaxFailures \in Nat /\ MaxStops \in Nat
ASSUME ConstantsAssumption ==
  HandlesAssumption /\ TablesAssumption /\ SettingsAssumption /\ BoundsAssumption

VARIABLES
  media,        \* the settings read: lookAhead and separateConfigurationFromData
  encoders,     \* encoders.size()
  alive,        \* the encoders the library has created and not destroyed
  queue,        \* pictures in each encoder, oldest first, Eos behind the last
  put,          \* stream buffers in the last encoder
  handles, pool,
  configHandle, sem,
  mutex,        \* held by the callback thread across its steps
  back,         \* the callback of the last encoder in progress
  m_fifo,       \* pictures between the two encoders
  tasks,        \* threadFifo: TRUE for an end of stream
  worker,       \* threadFifo's thread: [pc, hand]
  nextQPBuffer, \* of the module
  tables,       \* nextQPBuffer of each encoder
  refs,         \* references the module holds of each table
  main,         \* the main thread: [pc, pass, again]
  order,        \* history: pictures accepted and not yet emptied, until Stop
  uses,         \* history: pictures each table was given with
  forgotten,    \* history: pictures DestroyEncoder drops from m_fifo
  overtaken,    \* history: two pictures came before one task was treated
  refused,      \* history: handles whose Empty failed
  failures, stops

maps == <<handles, pool>>
library == <<alive, queue, put>>
config == <<configHandle, sem, mutex>>
lookAhead == <<m_fifo, tasks, worker>>
qp == <<nextQPBuffer, tables, refs, uses>>
counters == <<failures, stops>>
history == <<order, forgotten, overtaken, refused>>
vars == <<media, encoders, library, maps, config, back, lookAhead, qp, main, history, counters>>

Passes == IF media.la > 0 THEN 2 ELSE 1
LastPass == Passes
NoCallback == [pc |-> "out", source |-> None, stream |-> None, config |-> None, end |-> FALSE]

\* nobody of the component's threads is inside Start, Stop or Restart
Open == main.pc = "out"
Working == Open /\ alive = 1..Passes
\* the client sends nothing behind its end of stream
Ended == \/ \E k \in 1..2 : Eos \in ToSet(queue[k])
         \/ TRUE \in ToSet(tasks)
         \/ worker.pc \in {"eos", "processAgain"} \/ worker.hand = Eos

Init ==
  /\ media \in Settings
  /\ encoders = 0 /\ alive = {} /\ queue = [k \in 1..2 |-> <<>>] /\ put = <<>>
  /\ handles = {} /\ pool = {}
  /\ configHandle = None /\ sem = 0 /\ mutex = FALSE
  /\ back = NoCallback
  /\ m_fifo = <<>> /\ tasks = <<>> /\ worker = [pc |-> "idle", hand |-> None]
  /\ nextQPBuffer = None /\ tables = [k \in 1..2 |-> None]
  /\ refs = [t \in Tables |-> 0] /\ uses = [t \in Tables |-> 0]
  /\ main = [pc |-> "out", pass |-> 0, again |-> FALSE]
  /\ order = <<>> /\ forgotten = {} /\ overtaken = FALSE /\ refused = {}
  /\ failures = 0 /\ stops = 0

-----------------------------------------------------------------------------
(* The two maps.                                                            *)

\* Use() and UseDMA(), with the Add that goes with them
Use(h) == handles' = handles \cup {h} /\ pool' = pool \cup {h}
\* Unuse() and UnuseDMA()
Unuse(done) == pool' = pool \ done
\* ReleaseBuf()
ReleaseBuf(h) == handles' = handles \ {h} /\ pool' = pool \ {h}

-----------------------------------------------------------------------------
(* Tables of quantisation parameters.                                       *)

\* AL_Buffer_Unref; -1 stands for every release of a table already released
Unref(r, t) == IF t = None THEN r ELSE [r EXCEPT ![t] = IF @ > 0 THEN @ - 1 ELSE -1]

\* slip: the table that is replaced is not released
SetTableLeaking(t) ==
  /\ Open /\ refs[t] = 0 /\ uses[t] = 0
  /\ refs' = [refs EXCEPT ![t] = 1]
  /\ IF encoders = 0
     THEN nextQPBuffer' = t /\ UNCHANGED tables
     ELSE tables' = [tables EXCEPT ![1] = t] /\ UNCHANGED nextQPBuffer
  /\ UNCHANGED <<media, encoders, library, maps, config, back, lookAhead, uses, main, history, counters>>

\* SetDynamic(REGION_OF_INTEREST_QUALITY_BUFFER_EMPTY and
\* INSERT_QUANTIZATION_PARAMETER_BUFFER), called by the input worker
SetTable(t) ==
  /\ Open /\ refs[t] = 0 /\ uses[t] = 0
  /\ IF encoders = 0
     THEN /\ refs' = [Unref(refs, nextQPBuffer) EXCEPT ![t] = 1]
          /\ nextQPBuffer' = t
          /\ UNCHANGED tables
     ELSE /\ refs' = [Unref(refs, tables[1]) EXCEPT ![t] = 1]
          /\ tables' = [tables EXCEPT ![1] = t]
          /\ UNCHANGED nextQPBuffer
  /\ UNCHANGED <<media, encoders, library, maps, config, back, lookAhead, uses, main, history, counters>>

-----------------------------------------------------------------------------
(* The workers of the component.                                            *)

\* Empty(): Use, handles.Add, AL_Encoder_Process with the table if there is
\* one.  The table goes on to the next encoder, or is released.
EmptyTable ==
  LET t == tables[1]
  IN IF t = None THEN UNCHANGED qp
     ELSE /\ uses' = [uses EXCEPT ![t] = IF @ < 2 THEN @ + 1 ELSE 2]
          /\ IF LastPass = 1
             THEN refs' = Unref(refs, t) /\ tables' = [tables EXCEPT ![1] = None]
             ELSE tables' = [tables EXCEPT ![2] = t] /\ UNCHANGED refs
          /\ UNCHANGED nextQPBuffer

Empty(h) ==
  /\ Working /\ ~Ended
  /\ h \notin pool
  /\ Use(h)
  /\ EmptyTable
  /\ \/ /\ queue' = [queue EXCEPT ![1] = Append(@, h)]
        /\ order' = Append(order, h)
        /\ UNCHANGED <<refused, failures>>
     \* AL_Encoder_Process refuses the picture: the maps keep it
     \/ /\ failures < MaxFailures
        /\ failures' = failures + 1
        /\ refused' = refused \cup {h}
        /\ UNCHANGED <<queue, order>>
  /\ UNCHANGED <<media, encoders, alive, put, config, back, lookAhead, main, forgotten, overtaken, stops>>

\* Empty() of a null handle or of a handle without payload
EmptyEos ==
  /\ Working /\ ~Ended
  /\ queue' = [queue EXCEPT ![1] = Append(@, Eos)]
  /\ UNCHANGED <<media, encoders, alive, put, maps, config, back, lookAhead, qp, main, history, counters>>

\* slip: a refused stream buffer stays in the maps
FillKeeping(h) ==
  /\ Working /\ h \notin pool
  /\ media.separate => ~mutex
  /\ Use(h)
  /\ IF media.separate /\ configHandle = None
     THEN /\ configHandle' = h /\ sem' = sem + 1
          /\ UNCHANGED <<put, failures>>
     ELSE /\ \/ put' = Append(put, h) /\ UNCHANGED failures
             \/ failures < MaxFailures /\ failures' = failures + 1 /\ UNCHANGED put
          /\ UNCHANGED <<configHandle, sem>>
  /\ UNCHANGED <<media, encoders, alive, queue, mutex, back, lookAhead, qp, main, history, stops>>

\* Fill(): with the configuration apart, the first free stream buffer is kept
\* for it, under the mutex; the others go to the library
Fill(h) ==
  /\ Working /\ h \notin pool
  /\ media.separate => ~mutex
  /\ IF media.separate /\ configHandle = None
     THEN /\ configHandle' = h /\ sem' = sem + 1
          /\ Use(h)
          /\ UNCHANGED <<put, failures>>
     ELSE /\ \/ /\ put' = Append(put, h)
                /\ Use(h)
                /\ UNCHANGED failures
             \* refused: handles.Remove and Unuse undo the two Adds
             \/ failures < MaxFailures /\ failures' = failures + 1 /\ UNCHANGED <<put, maps>>
          /\ UNCHANGED <<configHandle, sem>>
  /\ UNCHANGED <<media, encoders, alive, queue, mutex, back, lookAhead, qp, main, history, stops>>

-----------------------------------------------------------------------------
(* The callback thread of the last encoder: EndEncoding.                    *)

\* a stream is finished: it may carry the configuration, and it may be the
\* last one of its picture
Finish(hasConfig, end) ==
  /\ back.pc = "out" /\ LastPass \in alive
  /\ queue[LastPass] # <<>> /\ Head(queue[LastPass]) # Eos /\ put # <<>>
  /\ back' = [pc |-> IF hasConfig /\ media.separate THEN "lock" ELSE "data",
              source |-> Head(queue[LastPass]), stream |-> Head(put), config |-> None, end |-> end]
  /\ put' = Tail(put)
  /\ queue' = IF end THEN [queue EXCEPT ![LastPass] = Tail(@)] ELSE queue
  /\ UNCHANGED <<media, encoders, alive, maps, config, lookAhead, qp, main, history, counters>>

\* the end of the stream: filled(nullptr)
FinishEos ==
  /\ back.pc = "out" /\ LastPass \in alive
  /\ queue[LastPass] # <<>> /\ Head(queue[LastPass]) = Eos
  /\ queue' = [queue EXCEPT ![LastPass] = Tail(@)]
  /\ UNCHANGED <<media, encoders, alive, put, maps, config, back, lookAhead, qp, main, history, counters>>

LockConfig ==
  /\ back.pc = "lock" /\ ~mutex
  /\ mutex' = TRUE
  /\ back' = [back EXCEPT !.pc = "wait"]
  /\ UNCHANGED <<media, encoders, library, maps, configHandle, sem, lookAhead, qp, main, history, counters>>

\* slip: the handle is taken without the wait
TakeConfigAtOnce ==
  /\ back.pc = "wait"
  /\ mutex' = FALSE
  /\ sem' = IF sem > 0 THEN sem - 1 ELSE 0
  /\ configHandle' = None
  /\ handles' = handles \ {configHandle}
  /\ back' = [back EXCEPT !.pc = IF configHandle \in handles THEN "config" ELSE "null", !.config = configHandle]
  /\ UNCHANGED <<media, encoders, library, pool, lookAhead, qp, main, history, counters>>

\* sem.wait() with the mutex held; the handle is popped from the map, where a
\* missing one is read as null
TakeConfig ==
  /\ back.pc = "wait" /\ sem > 0
  /\ mutex' = FALSE
  /\ sem' = sem - 1
  /\ configHandle' = None
  /\ handles' = handles \ {configHandle}
  /\ back' = [back EXCEPT !.pc = IF configHandle \in handles THEN "config" ELSE "null", !.config = configHandle]
  /\ UNCHANGED <<media, encoders, library, pool, lookAhead, qp, main, history, counters>>

\* the configuration goes out before the data: Unuse, filled
GiveConfig ==
  /\ back.pc = "config"
  /\ Unuse({back.config})
  /\ back' = [back EXCEPT !.pc = "data", !.config = None]
  /\ UNCHANGED <<media, encoders, library, handles, config, lookAhead, qp, main, history, counters>>

\* the data: the source goes back with the last stream of its picture
GiveData ==
  /\ back.pc = "data"
  /\ LET done == {back.stream} \cup (IF back.end THEN {back.source} ELSE {})
     IN handles' = handles \ done /\ Unuse(done)
  /\ order' = IF back.end /\ order # <<>> THEN Tail(order) ELSE order
  /\ back' = NoCallback
  /\ UNCHANGED <<media, encoders, library, config, lookAhead, qp, main, forgotten, overtaken, refused, counters>>

EndEncoding ==
  \/ \E hasConfig, end \in BOOLEAN : Finish(hasConfig, end)
  \/ FinishEos \/ LockConfig \/ TakeConfig \/ GiveConfig \/ GiveData

-----------------------------------------------------------------------------
(* The look-ahead: the first encoder's callback and the worker behind it.   *)

\* EndEncodingLookAhead() and AddFifo(): Ref, push_back, one task
EndEncodingLookAhead ==
  /\ media.la > 0 /\ 1 \in alive /\ queue[1] # <<>>
  /\ queue' = [queue EXCEPT ![1] = Tail(@)]
  /\ LET isEOS == Head(queue[1]) = Eos
     IN /\ m_fifo' = IF isEOS THEN m_fifo ELSE Append(m_fifo, Head(queue[1]))
        /\ tasks' = Append(tasks, isEOS)
  /\ UNCHANGED <<media, encoders, alive, put, maps, config, back, worker, qp, main, history, counters>>

\* slip: the end of the stream overtakes the pictures that wait
EmptyFifoEosFirst(isEOS) ==
  IF isEOS
  THEN worker' = [pc |-> "process", hand |-> Eos] /\ UNCHANGED m_fifo
  ELSE IF Len(m_fifo) = media.la
       THEN worker' = [pc |-> "process", hand |-> Head(m_fifo)] /\ m_fifo' = Tail(m_fifo)
       ELSE worker' = [pc |-> "idle", hand |-> None] /\ UNCHANGED m_fifo

\* EmptyFifo(isEOS), up to the pop: the end of the stream takes whatever is
\* there, a picture only when exactly uLookAheadSize of them are there
EmptyFifoFrom(isEOS) ==
  CASE isEOS /\ m_fifo = <<>> ->
         worker' = [pc |-> "process", hand |-> Eos] /\ UNCHANGED m_fifo
    [] isEOS /\ m_fifo # <<>> ->
         worker' = [pc |-> "processAgain", hand |-> Head(m_fifo)] /\ m_fifo' = Tail(m_fifo)
    [] ~isEOS /\ Len(m_fifo) = media.la ->
         worker' = [pc |-> "process", hand |-> Head(m_fifo)] /\ m_fifo' = Tail(m_fifo)
    [] OTHER -> worker' = [pc |-> "idle", hand |-> None] /\ UNCHANGED m_fifo

\* the worker takes the next task, or calls EmptyFifo again for its Eos
WorkerTake ==
  /\ \/ /\ worker.pc = "idle" /\ tasks # <<>> /\ main.pc # "joining"
        /\ tasks' = Tail(tasks)
        /\ EmptyFifoFrom(Head(tasks))
        /\ overtaken' = (overtaken \/ (~Head(tasks) /\ Len(m_fifo) > media.la))
     \/ /\ worker.pc = "eos"
        /\ EmptyFifoFrom(TRUE)
        /\ UNCHANGED <<tasks, overtaken>>
  /\ UNCHANGED <<media, encoders, library, maps, config, back, qp, main, order, forgotten, refused, counters>>

\* the second half: AL_Encoder_Process on the next encoder, with a copy of its
\* table; nextEnc is a copy too, so the encoder keeps the table it was given
WorkerProcess ==
  /\ worker.pc \in {"process", "processAgain"}
  /\ queue' = [queue EXCEPT ![2] = IF 2 \in alive THEN Append(@, worker.hand) ELSE @]
  /\ LET t == tables[2]
     IN IF worker.hand = Eos \/ t = None THEN UNCHANGED qp
        ELSE /\ refs' = Unref(refs, t)
             /\ uses' = [uses EXCEPT ![t] = IF @ < 2 THEN @ + 1 ELSE 2]
             /\ UNCHANGED <<nextQPBuffer, tables>>
  /\ worker' = [pc |-> IF 2 \notin alive THEN "late" ELSE IF worker.pc = "processAgain" THEN "eos" ELSE "idle",
                hand |-> None]
  /\ UNCHANGED <<media, encoders, alive, put, maps, config, back, m_fifo, tasks, main, history, counters>>

LookAheadWorker == EndEncodingLookAhead \/ WorkerTake \/ WorkerProcess

-----------------------------------------------------------------------------
(* The main thread: Start, Stop, Restart.                                   *)

\* CreateEncoder(): of the passes `created' succeed; the table that waited in
\* the module goes to the first encoder
CreateEncoder(created) ==
  /\ encoders' = Passes
  /\ alive' = 1..created
  /\ IF created = Passes
     THEN /\ tables' = [tables EXCEPT ![1] = nextQPBuffer]
          /\ nextQPBuffer' = None
          /\ UNCHANGED failures
     ELSE /\ failures < MaxFailures /\ failures' = failures + 1
          /\ UNCHANGED <<tables, nextQPBuffer>>
  /\ UNCHANGED <<media, queue, put, maps, config, back, lookAhead, refs, uses, history, stops>>

Start(created) ==
  /\ main.pc = "out" /\ encoders = 0
  /\ CreateEncoder(created)
  /\ UNCHANGED main

\* Restart(), once DestroyEncoder() has returned
StartAgain(created) ==
  /\ main.pc = "create"
  /\ CreateEncoder(created)
  /\ main' = [main EXCEPT !.pc = "out"]

\* Stop() and Restart() release the table of the module first; without an
\* encoder that is all they do
Stop(again) ==
  /\ main.pc = "out" /\ stops < MaxStops
  /\ stops' = stops + 1
  /\ refs' = Unref(refs, nextQPBuffer) /\ nextQPBuffer' = None
  /\ main' = IF encoders = 0 THEN main ELSE [pc |-> "release", pass |-> 1, again |-> again]
  /\ order' = <<>>
  /\ UNCHANGED <<media, encoders, library, maps, config, back, lookAhead, tables, uses, forgotten,
                 overtaken, refused, failures>>

\* slip: the stream buffer kept for the configuration is forgotten
ReleaseNoConfig ==
  /\ main.pc = "release"
  /\ main' = [main EXCEPT !.pc = IF configHandle = None THEN "destroy" ELSE "reset"]
  /\ UNCHANGED <<media, encoders, library, maps, config, back, lookAhead, qp, history, counters>>

\* DestroyEncoder(): ReleaseBuf(configHandle), without the mutex
ReleaseConfig ==
  /\ main.pc = "release"
  /\ main' = [main EXCEPT !.pc = IF configHandle = None THEN "destroy" ELSE "reset"]
  /\ ReleaseBuf(configHandle)
  /\ UNCHANGED <<media, encoders, library, config, back, lookAhead, qp, history, counters>>

\* configHandle = nullptr; sem.reset()
ResetConfig ==
  /\ main.pc = "reset"
  /\ configHandle' = None /\ sem' = 0
  /\ main' = [main EXCEPT !.pc = "destroy"]
  /\ UNCHANGED <<media, encoders, library, maps, mutex, back, lookAhead, qp, history, counters>>

\* the encoder that AL_Encoder_Destroy is called on
Dying(k) == main.pc = "destroy" /\ k = main.pass /\ k <= Passes

\* AL_Encoder_Destroy releases a picture or a stream buffer: ReleaseBuf
ReleaseSource(k) ==
  /\ Dying(k)
  /\ back.pc = "out" \/ k # LastPass
  /\ \E i \in DOMAIN queue[k] :
       /\ queue[k][i] # Eos
       /\ queue' = [queue EXCEPT ![k] = RemoveAt(@, i)]
       /\ ReleaseBuf(queue[k][i])
  /\ UNCHANGED <<media, encoders, alive, put, config, back, lookAhead, qp, main, history, counters>>

ReleaseStream ==
  /\ Dying(LastPass) /\ back.pc = "out" /\ put # <<>>
  /\ put' = Tail(put)
  /\ ReleaseBuf(Head(put))
  /\ UNCHANGED <<media, encoders, alive, queue, config, back, lookAhead, qp, main, history, counters>>

\* AL_Encoder_Destroy returns once its callbacks have; the table is released,
\* and of the pictures that wait for the second encoder only the reference
DestroyPass(k) ==
  /\ Dying(k)
  /\ main' = [main EXCEPT !.pass = k + 1]
  /\ ToSet(queue[k]) \subseteq {Eos}
  /\ k = LastPass => back.pc = "out" /\ put = <<>>
  /\ alive' = alive \ {k}
  /\ queue' = [queue EXCEPT ![k] = <<>>]
  /\ refs' = Unref(refs, tables[k]) /\ tables' = [tables EXCEPT ![k] = None]
  /\ IF k < LastPass
     THEN m_fifo' = <<>> /\ forgotten' = forgotten \cup ToSet(m_fifo)
     ELSE UNCHANGED <<m_fifo, forgotten>>
  /\ UNCHANGED <<media, encoders, put, maps, config, back, tasks, worker, nextQPBuffer, uses,
                 order, overtaken, refused, counters>>

\* encoders.clear() joins the look-ahead worker, whose tasks are dropped
Clear ==
  /\ main.pc \in {"destroy", "joining"} /\ main.pass > Passes
  /\ IF worker.pc = "idle"
     THEN /\ encoders' = 0 /\ tasks' = <<>>
          /\ main' = [main EXCEPT !.pc = IF main.again THEN "create" ELSE "out", !.pass = 0]
     ELSE main.pc = "destroy" /\ main' = [main EXCEPT !.pc = "joining"] /\ UNCHANGED <<encoders, tasks>>
  /\ UNCHANGED <<media, library, maps, config, back, m_fifo, worker, qp, history, counters>>

StopSteps ==
  \/ ReleaseConfig \/ ResetConfig \/ ReleaseStream \/ Clear
  \/ \E k \in 1..2 : ReleaseSource(k) \/ DestroyPass(k)
  \/ \E created \in 0..Passes : StartAgain(created)

Main ==
  \/ \E created \in 0..Passes : Start(created)
  \/ \E again \in BOOLEAN : Stop(again)
  \/ StopSteps

Workers ==
  \/ \E h \in Sources : Empty(h)
  \/ EmptyEos
  \/ \E h \in Streams : Fill(h)
  \/ \E t \in Tables : SetTable(t)

Next == Workers \/ EndEncoding \/ LookAheadWorker \/ Main

Spec == Init /\ [][Next]_vars

-----------------------------------------------------------------------------
CallbackSteps ==
  [pc : {"out", "lock", "wait", "config", "data", "null"}, source : Sources \cup {None},
   stream : Streams \cup {None}, config : Streams \cup {None}, end : BOOLEAN]
WorkerSteps ==
  [pc : {"idle", "process", "processAgain", "eos", "late"}, hand : Sources \cup {None, Eos}]
MainSteps ==
  [pc : {"out", "release", "reset", "destroy", "joining", "create"}, pass : 0..3, again : BOOLEAN]

TypeOK ==
  /\ media \in Settings /\ encoders \in 0..2 /\ alive \subseteq 1..2
  /\ queue \in [1..2 -> Seq(Sources \cup {Eos})] /\ put \in Seq(Streams)
  /\ handles \subseteq Sources \cup Streams /\ pool \subseteq Sources \cup Streams
  /\ configHandle \in Streams \cup {None} /\ sem \in 0..1 /\ mutex \in BOOLEAN
  /\ back \in CallbackSteps
  /\ m_fifo \in Seq(Sources) /\ tasks \in Seq(BOOLEAN)
  /\ worker \in WorkerSteps
  /\ nextQPBuffer \in Tables \cup {None} /\ tables \in [1..2 -> Tables \cup {None}]
  /\ refs \in [Tables -> -1..1] /\ uses \in [Tables -> 0..2]
  /\ main \in MainSteps
  /\ order \in Seq(Sources) /\ refused \subseteq Sources /\ forgotten \subseteq Sources

\* where the handles the module knows can be
InQueue(k) == ToSet(queue[k]) \ {Eos}
InHand == {worker.hand} \ {None, Eos}
InBack == {back.stream, IF back.end THEN back.source ELSE None} \ {None}
InConfig == {configHandle} \ {None}
Inside ==
  InQueue(1) \cup InQueue(2) \cup ToSet(m_fifo) \cup InHand
  \cup ToSet(put) \cup InConfig \cup InBack

OncePlaced ==
  /\ IsInjective(queue[1]) /\ IsInjective(queue[2]) /\ IsInjective(m_fifo) /\ IsInjective(put)
  /\ InQueue(1) \cap (InQueue(2) \cup ToSet(m_fifo) \cup InHand \cup InBack) = {}
  /\ InQueue(2) \cap (ToSet(m_fifo) \cup InHand \cup InBack) = {}
  /\ ToSet(m_fifo) \cap (InHand \cup InBack) = {}
  /\ InHand \cap InBack = {}
  /\ ToSet(put) \cap (InConfig \cup InBack) = {}
  /\ InConfig \cap InBack = {}
  /\ Inside \cap (refused \cup forgotten) = {}

(* Every handle the maps know is in exactly one place, with the library, in   *)
(* the look-ahead FIFO, kept for a configuration or in a callback, and every  *)
(* such handle is in both maps: none is given back twice and none, a refused  *)
(* stream buffer included, stays known with nobody to give it back (in a       *)
(* program that has not crashed: module_enc.cpp:583-745, 847-1073).           *)
Ownership ==
  main.pc # "reset" /\ back.pc # "null" /\ worker.pc # "late" =>
    /\ OncePlaced
    /\ handles = Inside \cup refused \cup forgotten
    /\ pool = handles \cup ({back.config} \ {None})

(* The callback that passed the semaphore finds a stream buffer for the      *)
(* configuration, known to the map, unless Stop has taken it meanwhile: the   *)
(* semaphore stands for configHandle (module_enc.cpp:720-728, 964-972).       *)
ConfigThere == back.pc = "null" => main.pc # "out"

\* the pictures of a queue: the client sends nothing behind its end of stream
Pictures(s) == IF s # <<>> /\ s[Len(s)] = Eos THEN Front(s) ELSE s
\* the pictures on their way, the one the client gets back first first
Line ==
  (IF back.end THEN <<back.source>> ELSE <<>>) \o Pictures(queue[2])
  \o (IF worker.hand \in {None, Eos} THEN <<>> ELSE <<worker.hand>>) \o m_fifo \o Pictures(queue[1])

(* Pictures reach the last encoder in the order in which they came to the    *)
(* first, each once, and all of them before the end of the stream            *)
(* (module_enc.cpp:1115-1168).                                                *)
InOrder ==
  media.la > 0 /\ main.pc = "out" =>
    /\ order = Line
    /\ Eos \in ToSet(queue[2]) => queue[2][Len(queue[2])] = Eos /\ m_fifo = <<>>

(* Between two tasks fewer than uLookAheadSize pictures wait, so that a      *)
(* client with that many buffers more gets one back, unless two pictures      *)
(* came before the worker treated the first of them (module_enc.cpp:1143).    *)
KeepsMoving ==
  media.la > 0 /\ worker.pc = "idle" /\ tasks = <<>> /\ ~overtaken => Len(m_fifo) < media.la

LookAheadInOrder == InOrder /\ KeepsMoving

(* With one encoder a table sent by the client is given with one picture at  *)
(* most, and the module holds exactly one reference of a table it still       *)
(* points to and none of the others (module_enc.cpp:640-656, 1189-1226).      *)
TablesUsedOnce ==
  media.la = 0 => \A t \in Tables :
    /\ refs[t] = Cardinality({x \in {"module", "encoder"} :
                               t = IF x = "module" THEN nextQPBuffer ELSE tables[1]})
    /\ uses[t] <= 1

(* When Stop has returned, the module knows no buffer of the client any      *)
(* more but the pictures it drops from the look-ahead FIFO and those the      *)
(* library had refused (module_enc.cpp:258-318).                              *)
StoppedKnowsNothing ==
  main.pc = "out" /\ encoders = 0 =>
    /\ handles = refused \cup forgotten /\ pool = handles
    /\ media.la = 0 => forgotten = {}
    /\ configHandle = None /\ sem = 0 /\ m_fifo = <<>>
=============================================================================
