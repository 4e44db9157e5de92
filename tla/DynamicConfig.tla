---------------------------- MODULE DynamicConfig ----------------------------
(***************************************************************************)
(* The settings of an encoder that may change while it runs.  SetConfig    *)
(* copies what it is given into a task of the input FIFO; the worker that  *)
(* also takes the pictures treats it in its turn and tells the codec       *)
(* library, and the settings with it.  GetConfig asks the settings at      *)
(* once, whatever is queued.  (Regions, SEI messages and tables of         *)
(* quantization parameters: EncComponent.)                                 *)
(***************************************************************************)
EXTENDS RatesAndGops, Sequences, SequencesExt

CONSTANTS
  Media, \* the settings an encoder may be created with
  None

VARIABLES
  fifo,     \* processorMain: tasks [index, value] and pictures
  media,    \* the settings: CLOCK, BITRATE, GOP, RESOLUTION, LOOP_FILTER
  library,  \* what AL_Encoder was last told of each, None without an encoder
  notified, \* what it was told of the next picture alone
  encoded   \* what the library knew when each picture came

configVars == <<fifo, media, library, notified, encoded>>

\* settings that last, and notifications of one picture
Lasting == {"BITRATE", "CLOCK", "GOP", "RESOLUTION", "LOOP_FILTER_BETA", "LOOP_FILTER_TC"}
Single == {"NOTIFY_SCENE_CHANGE", "IS_LONG_TERM", "USE_LONG_TERM", "INSERT_IDR", "HIGH_DYNAMIC_RANGE_SEIS"}

(***************************************************************************)
(* EncModule.                                                              *)
(***************************************************************************)
\* CreateEncoder hands the settings over as they are
InLibrary(m) ==
  [BITRATE |-> 1000 * m.BITRATE.target, CLOCK |-> m.CLOCK, GOP |-> m.GOP, RESOLUTION |-> m.RESOLUTION,
   LOOP_FILTER_BETA |-> m.LOOP_FILTER_BETA, LOOP_FILTER_TC |-> m.LOOP_FILTER_TC]

Bitrate(target) ==
  [media.BITRATE EXCEPT !.target = target, !.max = IF media.BITRATE.variable THEN @ ELSE target]

\* The offsets of the loop filter reach the library and not the settings; so
\* does a notification.  Without an encoder everything is refused, and
\* TreatDynamicCommand does not look at the answer.
SetDynamic(index, value) ==
  IF library = None THEN UNCHANGED <<media, library, notified>>
  ELSE /\ media' = CASE index = "BITRATE" -> [media EXCEPT !.BITRATE = Bitrate(value)]
                     [] index \in {"CLOCK", "GOP", "RESOLUTION"} -> [media EXCEPT ![index] = value]
                     [] OTHER -> media
       /\ library' = IF index \in Lasting
                       THEN [library EXCEPT ![index] = IF index = "BITRATE" THEN 1000 * value ELSE value]
                       ELSE library
       /\ notified' = IF index \in Single THEN Append(notified, <<index, value>>) ELSE notified

GetDynamic(index) == IF index = "BITRATE" THEN media.BITRATE.target ELSE media[index]

(***************************************************************************)
(* Component.                                                              *)
(***************************************************************************)
GetConfig(index) ==
  CASE index = "BITRATE" -> GetDynamic(index)
    [] index = "CLOCK"   -> ConvertMediaToOMXFramerate(GetDynamic(index))
    [] index = "GOP"     -> [nB |-> ConvertMediaToOMXBFrames(GetDynamic(index)),
                             nP |-> ConvertMediaToOMXPFrames(GetDynamic(index))]

\* A bit rate of zero is refused, after its copy was made.
Refused(index, value) == index = "BITRATE" /\ value = 0

SetConfig(index, value) ==
  /\ ~Refused(index, value)
  /\ fifo' = Append(fifo, [index |-> index, value |-> value])

\* A group of pictures and a resolution change the fields they know of the
\* settings as they are when the task is treated.
TreatDynamicCommand(task) ==
  SetDynamic(task.index,
    CASE task.index = "CLOCK" -> ConvertOMXToMediaClock(task.value)
      [] task.index = "GOP" ->
           [b |-> ConvertOMXToMediaBFrames(task.value.nB, task.value.nP),
            length |-> ConvertOMXToMediaGopLength(task.value.nB, task.value.nP)]
      [] OTHER -> task.value)

IsPicture(task) == "picture" \in DOMAIN task

TreatCommand ==
  /\ fifo # <<>> /\ ~IsPicture(Head(fifo))
  /\ TreatDynamicCommand(Head(fifo))
  /\ fifo' = Tail(fifo) /\ UNCHANGED encoded

\* the picture is encoded with what the library knows
TreatPicture ==
  /\ fifo # <<>> /\ IsPicture(Head(fifo)) /\ library # None
  /\ encoded' = Append(encoded, [settings |-> library, notified |-> notified])
  /\ notified' = <<>>
  /\ fifo' = Tail(fifo) /\ UNCHANGED <<media, library>>

EmptyThisBuffer(f) == fifo' = Append(fifo, [picture |-> f])

InitConfig ==
  /\ fifo = <<>> /\ media \in Media /\ library = InLibrary(media)
  /\ notified = <<>> /\ encoded = <<>>
=============================================================================
