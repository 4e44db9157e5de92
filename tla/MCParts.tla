------------------------------- MODULE MCParts -------------------------------
(* What the component stands on and what stands around it, each part checked   *)
(* by itself: the locked queue, the worker, the parameters and settings, the   *)
(* conversions, the encoder's command file, the region-of-interest map, the    *)
(* two passes and the two applications.                                        *)
(* `subject' says which of them a behaviour is about; the variables of the     *)
(* others stay where they are.                                                 *)
(* The locked queue has two producers and two consumers, the smallest instance *)
(* in which a notify can choose between sleepers and a consumer can be         *)
(* overtaken between its wake-up and its test of the predicate; the worker has *)
(* two callers and up to four tasks, so that the destructor arrives with a     *)
(* full queue, with a task in the worker's hand before and after the copy of   *)
(* process_, and with an empty queue.                                          *)
EXTENDS LockedQueue, ProcessorFifo, RoiMap, TwoPass, MCParameters, TLC

CONSTANTS
  NoEnum, Throws, Unset, Unknown, FormatMax, FormatUnused, \* of Conversions
  Blank, LookAhead, FreqLT, InFlight, MaxFrames \* of EncCommands

VARIABLES
  subject,
  kind, asked, held,
  fifo, stored, library, notified, encoded, created, file, lines, cmds, hasLT, frame, sending, phase,
  state, commands, treating, open, allocated, inside, returning, coding, main, refilling,
  video, framesRead, encoderEventState, encoderEventSem, eof, isEOS, isFlushing,
  stream, readFrames, eventQueue, quit, pipelineEnded, decoderEventState, disableEvent, flushEvent, inputBuffers,
  omxWorker, deletePipeline, ended, announced

ValueVars == <<kind, asked, held>>
FileVars  == <<fifo, stored, library, notified, encoded, created, file, lines, cmds, hasLT, frame, sending, phase>>
AppVars   == <<state, commands, treating, open, allocated, inside, returning, coding, main, refilling>>
EncVars   == <<video, framesRead, encoderEventState, encoderEventSem, eof, isEOS, isFlushing>>
DecVars   == <<stream, readFrames, eventQueue, quit, pipelineEnded, decoderEventState, disableEvent, flushEvent,
               inputBuffers, omxWorker, deletePipeline, ended, announced>>
toolVars == <<ValueVars, FileVars, nodes, passVars, AppVars, EncVars, DecVars>>
partVars == <<subject, queueVars, workerVars, vars, toolVars>>

-----------------------------------------------------------------------------
Line(f, what) == [frame |-> f, what |-> what]

\* several lines of one frame, commands close together and far apart (those on
\* the group of pictures nearer than the frames in flight, and as far), a command
\* that is not supported, one that throws, a blank line first
CommandFiles ==
  {<<Line(0, "KF" :> 0), Line(1, "BR" :> 5), Blank, Line(1, "LT" :> 0), Line(2, ("UseLT" :> 0) @@ ("SC" :> 0)),
     Line(4, ("GopLen" :> 6) @@ ("BR" :> 7)), Line(5, "SC" :> 0)>>,
   <<Line(0, "SC" :> 0), Line(1, "NumB" :> 0), Line(2, "Fps" :> 29970), Line(3, "SC" :> 0)>>,
   <<Line(3, "KF" :> 0), Line(3, "SC" :> 0), Line(4, "QP" :> 30)>>,
   <<Line(0, "GopLen" :> 6), Line(2, "NumB" :> 0), Line(4, "GopLen" :> 5)>>,
   <<Line(0, "GopLen" :> 6), Line(1, ("NumB" :> 0) @@ ("KF" :> 0)), Line(2, "BR" :> 6)>>,
   <<Blank, Line(1, "KF" :> 0)>>,
   <<Line(0, "KF" :> 0), Line(2, "BR" :> 0)>>,
   <<>>}

EncoderSettings ==
  {[BITRATE |-> [target |-> 64, max |-> 64, variable |-> v], CLOCK |-> [framerate |-> 30, clockratio |-> 1000],
    GOP |-> [b |-> 2, length |-> 9], RESOLUTION |-> 1, LOOP_FILTER_BETA |-> 0, LOOP_FILTER_TC |-> 0] : v \in BOOLEAN}

\* at the corners and borders of the picture and inside, overlapping, beyond
Rect(x, y, w, h) == [x |-> x, y |-> y, width |-> w, height |-> h]
Regions == {Rect(0, 0, 3, 2), Rect(3, 2, 2, 9), Rect(2, 4, 4, 1), Rect(6, 6, 20, 20), Rect(1, 1, 6, 6), Rect(9, 0, 1, 1)}
RegionQualities == {Static, Intra, -5, 31}
LowestQP == -32

\* nearly static pictures, scene changes and neither, of different sizes
FirstPass == {[size |-> 40, intra |-> 0], [size |-> 90, intra |-> 100], [size |-> 7, intra |-> 30]}
\* the level at its limits, and far from them
RateControls == {[gop |-> 2, cpb |-> 300, ird |-> 100, rate |-> 1], [gop |-> 3, cpb |-> 40, ird |-> 30, rate |-> 30]}
\* too short to see three pictures ahead, just enough, and more
LookAheads == {2, 4, 5}

\* more frames than buffers, fewer, and a bound that stops early
Clips == {[frames |-> 3, max |-> 0], [frames |-> 3, max |-> 2], [frames |-> 0, max |-> 0]}
Elementary == {[frames |-> 3, prealloc |-> a] : a \in BOOLEAN}

Converts == INSTANCE Conversions WITH MaxEnum <- NoEnum
Commands == INSTANCE EncCommands WITH Files <- CommandFiles, Media <- EncoderSettings, media <- stored
Encoder  == INSTANCE EncoderApp WITH Buffers <- [input |-> {"i1"}, output |-> {"o1", "o2"}], Videos <- Clips, enabled <- open
Decoder  == INSTANCE DecoderApp WITH Buffers <- [input |-> {"i1", "i2"}, output |-> {"o1", "o2"}], Streams <- Elementary, enabled <- open

ASSUME ToolsAssumption == Commands!LinesAssumption

-----------------------------------------------------------------------------
NoValues == kind = None /\ asked = None /\ held = None
NoFile ==
  /\ fifo = None /\ stored = None /\ library = None /\ notified = None /\ encoded = None /\ created = None
  /\ file = None /\ lines = None /\ cmds = None /\ hasLT = None /\ frame = None /\ sending = None /\ phase = None
NoRoi == RoiInit
NoPass == PassInit
NoApp ==
  /\ state = None /\ commands = None /\ treating = None /\ open = None /\ allocated = None /\ inside = None
  /\ returning = None /\ coding = None /\ main = None /\ refilling = None
NoEnc ==
  /\ video = None /\ framesRead = None /\ encoderEventState = None /\ encoderEventSem = None /\ eof = None
  /\ isEOS = None /\ isFlushing = None
NoDec ==
  /\ stream = None /\ readFrames = None /\ eventQueue = None /\ quit = None /\ pipelineEnded = None
  /\ decoderEventState = None /\ disableEvent = None /\ flushEvent = None /\ inputBuffers = None
  /\ omxWorker = None /\ deletePipeline = None /\ ended = None /\ announced = None

NoTool == NoValues /\ NoFile /\ NoRoi /\ NoPass /\ NoApp /\ NoEnc /\ NoDec

ToolsInit ==
  \/ subject = "values" /\ Converts!Init /\ NoFile /\ NoRoi /\ NoPass /\ NoApp /\ NoEnc /\ NoDec
  \/ subject = "command file" /\ Commands!Init /\ NoValues /\ NoRoi /\ NoPass /\ NoApp /\ NoEnc /\ NoDec
  \/ subject = "regions" /\ RoiInit /\ NoValues /\ NoFile /\ NoPass /\ NoApp /\ NoEnc /\ NoDec
  \/ subject = "two passes" /\ PassInit /\ NoValues /\ NoFile /\ NoRoi /\ NoApp /\ NoEnc /\ NoDec
  \/ subject = "encoder" /\ Encoder!Init /\ NoValues /\ NoFile /\ NoRoi /\ NoPass /\ NoDec
  \/ subject = "decoder" /\ Decoder!Init /\ NoValues /\ NoFile /\ NoRoi /\ NoPass /\ NoEnc
  \/ subject \in {"queue", "worker", "parameters"} /\ NoTool

\* the smallest settings where they are not the subject
PartsInit ==
  /\ QueueInit /\ WorkerInit /\ ToolsInit
  /\ Init /\ (subject # "parameters" => client = "dec_mjpeg")

OfQueue(A)  == subject = "queue" /\ A /\ UNCHANGED <<subject, workerVars, vars, toolVars>>
OfWorker(A) == subject = "worker" /\ A /\ UNCHANGED <<subject, queueVars, vars, toolVars>>
OfSettings(A) == subject = "parameters" /\ A /\ UNCHANGED <<subject, queueVars, workerVars, toolVars>>

OfTool(name, A, others) == subject = name /\ A /\ UNCHANGED <<subject, queueVars, workerVars, vars, others>>
ValuesNext   == OfTool("values", Converts!Next, <<FileVars, nodes, passVars, AppVars, EncVars, DecVars>>)
FileNext     == OfTool("command file", Commands!Next, <<ValueVars, nodes, passVars, AppVars, EncVars, DecVars>>)
RegionsNext  == OfTool("regions", RoiNext, <<ValueVars, FileVars, passVars, AppVars, EncVars, DecVars>>)
PassesNext   == OfTool("two passes", PassNext, <<ValueVars, FileVars, nodes, AppVars, EncVars, DecVars>>)
OfEncoder(A) == OfTool("encoder", A, <<ValueVars, FileVars, nodes, passVars, DecVars>>)
OfDecoder(A) == OfTool("decoder", A, <<ValueVars, FileVars, nodes, passVars, EncVars>>)

PartsNext ==
  \/ OfQueue(QueueNext) \/ OfWorker(WorkerNext) \/ OfSettings(Next)
  \/ ValuesNext \/ FileNext \/ RegionsNext \/ PassesNext
  \/ OfEncoder(Encoder!Next) \/ OfDecoder(Decoder!Next)

\* QueueFairness and the fairness of ProcessorFifo, each where it is the subject.
QueuesFairness ==
  /\ \A t \in Producers : WF_queueVars(OfQueue(Notify(t)))
  /\ \A c \in Consumers : WF_queueVars(OfQueue(Wait(c))) /\ WF_queueVars(OfQueue(Take(c)))
  /\ WF_workerVars(OfWorker(Worker)) /\ WF_workerVars(OfWorker(PushQuit \/ Join))

\* Fairness of the two applications, where they are the subject.
EncoderFairness ==
  /\ WF_toolVars(OfEncoder(Encoder!Scheduler)) /\ WF_toolVars(OfEncoder(Encoder!InputWorker))
  /\ WF_toolVars(OfEncoder(Encoder!OutputWorker)) /\ WF_toolVars(OfEncoder(Encoder!Complete))
  /\ WF_toolVars(OfEncoder(Encoder!onInputBufferAvailable)) /\ WF_toolVars(OfEncoder(Encoder!onOutputBufferAvailable))
  /\ WF_toolVars(OfEncoder(Encoder!Refill)) /\ WF_toolVars(OfEncoder(Encoder!safeMain))
DecoderFairness ==
  /\ WF_toolVars(OfDecoder(Decoder!Scheduler)) /\ WF_toolVars(OfDecoder(Decoder!InputWorker))
  /\ WF_toolVars(OfDecoder(Decoder!OutputWorker)) /\ WF_toolVars(OfDecoder(Decoder!Complete))
  /\ WF_toolVars(OfDecoder(Decoder!Announce)) /\ WF_toolVars(OfDecoder(Decoder!onInputBufferAvailable))
  /\ WF_toolVars(OfDecoder(Decoder!Output)) /\ WF_toolVars(OfDecoder(Decoder!Main))
  /\ WF_toolVars(OfDecoder(Decoder!Worker)) /\ WF_toolVars(OfDecoder(Decoder!DeletePipeline))

PartsSpec == PartsInit /\ [][PartsNext]_partVars /\ QueuesFairness /\ EncoderFairness /\ DecoderFairness

-----------------------------------------------------------------------------
(* Conversions!ReadsBack: a value the settings accepted is read back as it was *)
(* set, except for the losses named there (omx_convert_omx_media.cpp,          *)
(* omx_convert_media_soft_enc.cpp, omx_convert_media_soft_dec.cpp).            *)
ReadsBack == subject = "values" => Converts!ReadsBack

(* EncCommands!AppliedWhereAsked: each picture is encoded with exactly the     *)
(* commands its frame has in the file (EncCmdMngr.cpp:156-220, 455-578,        *)
(* CommandsSender.cpp, omx_component.cpp:1494-1652, module_enc.cpp:1171-1392).  *)
AppliedWhereAsked == subject = "command file" => Commands!AppliedWhereAsked

(* Both applications bring the whole stream through, take the component down   *)
(* to Loaded without a buffer and return (encoder/main.cpp:723-919,            *)
(* decoder/main.cpp:906-1197).                                                 *)
ApplicationEnds == (subject = "encoder" ~> Encoder!Ended) /\ (subject = "decoder" ~> Decoder!Ended)
=============================================================================
