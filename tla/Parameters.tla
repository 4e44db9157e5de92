----------------------------- MODULE Parameters -----------------------------
(***************************************************************************)
(* SetParameter and GetParameter of Component, over the settings of the    *)
(* codec (Settings).  An OMX parameter is a window on some fields of one   *)
(* settings index, or several such windows written one after the other.    *)
(*                                                                         *)
(* SetParameter reads the parameter first, writes the new value and, when  *)
(* a write is refused, calls itself with the value it has read: a value    *)
(* the settings refuse too makes it call itself again, for ever.           *)
(***************************************************************************)
EXTENDS Settings, RatesAndGops, Sequences, SequencesExt

CONSTANTS
  Clients,   \* name -> [codec, calls (the values it may set), depth (how many)]
  Separate,  \* SEPARATE_CONFIGURATION_FROM_DATA of the device
  DefaultCount \* buffers a Port expects when it is made

Ports == {"input", "output"}

VARIABLES
  client,    \* who calls
  media,     \* the settings
  expected,  \* Port::expected
  enabled,   \* Port::enable
  running,   \* not OMX_StateLoaded
  last,      \* the last call and its answer
  calls      \* calls made, at most the client's depth

vars == <<client, media, expected, enabled, running, last, calls>>
codec == Clients[client].codec

(***************************************************************************)
(* Conversions of the quantization parameters.                             *)
(***************************************************************************)
QuantizationToOMX(qps) ==
  [nQpI |-> qps.initial, nQpP |-> qps.initial + qps.deltaIP,
   nQpB |-> qps.initial + qps.deltaIP + qps.deltaPB]
QuantizationToMedia(v) ==
  [initial |-> v.nQpI, deltaIP |-> v.nQpP - v.nQpI, deltaPB |-> v.nQpB - v.nQpP]

(***************************************************************************)
(* The parameters that are one window.                                     *)
(***************************************************************************)
Window(index, fields) == [index |-> index, fields |-> fields]
Value == {"value"}

VideoSubframe == Window("SUBFRAME", Value)
VideoLookAhead == Window("LOOKAHEAD", {"lookAhead", "sceneChange"})
VideoTwoPass == Window("TWOPASS", {"nPass", "sLogFile"})
VideoBitrate == Window("BITRATE", {"target", "mode"})
VideoMaxBitrate == Window("BITRATE", {"max", "quality"})
VideoSceneChangeResilience == Window("BITRATE", {"resilient"})
VideoSkipFrame == Window("BITRATE", {"skip", "maxSkip"})
VideoCodedPictureBuffer == Window("BITRATE", {"cpb", "ird"})
VideoQuantizationControl == Window("QUANTIZATION_PARAMETER", {"ctrl"})
VideoQuantizationTable == Window("QUANTIZATION_PARAMETER", {"table"})
VideoQuantizationExtension == Window("QUANTIZATION_PARAMETER", {"min", "max"})
VideoAspectRatio == Window("ASPECT_RATIO", Value)
VideoLowBandwidth == Window("LOW_BANDWIDTH", Value)
VideoGopControl == Window("GROUP_OF_PICTURES", {"mode", "gdr"})
VideoInstantaneousDecodingRefresh == Window("GROUP_OF_PICTURES", {"idrFrequency"})
VideoRecoveryPoint == Window("GROUP_OF_PICTURES", {"rpFrequency"})
VideoLongTerm == Window("GROUP_OF_PICTURES", {"isLongTermEnabled", "ltFrequency"})
VideoFullRange == Window("VIDEO_FULL_RANGE", Value)
VideoPrefetchBuffer == Window("CACHE_LEVEL2", Value)
VideoScalingList == Window("SCALING_LIST", Value)
VideoFillerData == Window("FILLER_DATA", Value)
VideoSlices == Window("SLICE_PARAMETER", {"num", "size", "dependent"})
VideoModeCurrent == Window("VIDEO_MODE", Value)
VideoColorPrimaries == Window("COLOR_PRIMARIES", Value)
VideoTransferCharacteristics == Window("TRANSFER_CHARACTERISTICS", Value)
VideoColorMatrix == Window("COLOUR_MATRIX", Value)
VideoMaxPictureSizes == Window("MAX_PICTURE_SIZES", {"i", "p", "b"})
VideoMaxPictureSizesInBits == Window("MAX_PICTURE_SIZES_IN_BITS", {"i", "p", "b"})
VideoLoopFilterBeta == Window("LOOP_FILTER_BETA", Value)
VideoLoopFilterTc == Window("LOOP_FILTER_TC", Value)
VideoDecodedPictureBuffer == Window("DECODED_PICTURE_BUFFER", Value)
VideoInternalEntropyBuffers == Window("INTERNAL_ENTROPY_BUFFER", Value)
CommonSequencePictureMode == Window("SEQUENCE_PICTURE_MODE", Value)
VideoInputParsed == Window("INPUT_PARSED", Value)
PortEarlyCallback == Window("LLP2_EARLY_CB", Value)
PortSynchronization == Window("INPUT_SYNCHRONIZATION", Value)
VideoAccessUnitDelimiter == Window("ACCESS_UNIT_DELIMITER", Value)
VideoBufferingPeriodSEI == Window("BUFFERING_PERIOD_SEI", Value)
VideoPictureTimingSEI == Window("PICTURE_TIMING_SEI", Value)
VideoRecoveryPointSEI == Window("RECOVERY_POINT_SEI", Value)
VideoMasteringDisplayColourVolumeSEI == Window("MASTERING_DISPLAY_COLOUR_VOLUME_SEI", Value)
VideoContentLightLevelSEI == Window("CONTENT_LIGHT_LEVEL_SEI", Value)
VideoAlternativeTransferCharacteristicsSEI == Window("ALTERNATIVE_TRANSFER_CHARACTERISTICS_SEI", Value)
VideoST209410SEI == Window("ST2094_10_SEI", Value)
VideoST209440SEI == Window("ST2094_40_SEI", Value)
VideoRateControlPlugin == Window("RATE_CONTROL_PLUGIN", {"dmaBuf", "dmaSize"})
VideoCrop(port) ==
  Window(IF port = "input" THEN "INPUT_CROP" ELSE "OUTPUT_CROP", {"x", "y", "width", "height"})
VideoOutputPosition == Window("OUTPUT_POSITION", {"x", "y"})
VideoStartCodeBytesAlignment == Window("START_CODE_BYTES_ALIGNMENT", Value)
VideoRealtime == Window("REALTIME", Value)
\* Its reading fills in the structure but for the switch itself.
VideoUniformSliceType == Window("UNIFORM_SLICE_TYPE", Value)
ProfileLevel == Window("PROFILE_LEVEL", {"profile", "level"})

\* The parameter of each OMX index that is a window (the switch of SetParameter).
WindowOf(port) ==
  [Subframe |-> VideoSubframe, LookAhead |-> VideoLookAhead, TwoPass |-> VideoTwoPass,
   Bitrate |-> VideoBitrate, MaxBitrate |-> VideoMaxBitrate,
   SceneChangeResilience |-> VideoSceneChangeResilience, SkipFrame |-> VideoSkipFrame,
   CodedPictureBuffer |-> VideoCodedPictureBuffer,
   QuantizationControl |-> VideoQuantizationControl,
   QuantizationTable |-> VideoQuantizationTable,
   QuantizationExtension |-> VideoQuantizationExtension,
   AspectRatio |-> VideoAspectRatio, LowBandwidth |-> VideoLowBandwidth,
   GopControl |-> VideoGopControl,
   InstantaneousDecodingRefresh |-> VideoInstantaneousDecodingRefresh,
   RecoveryPoint |-> VideoRecoveryPoint, LongTerm |-> VideoLongTerm,
   FullRange |-> VideoFullRange, PrefetchBuffer |-> VideoPrefetchBuffer,
   ScalingList |-> VideoScalingList, FillerData |-> VideoFillerData, Slices |-> VideoSlices,
   InterlaceFormatCurrent |-> VideoModeCurrent, ColorPrimaries |-> VideoColorPrimaries,
   TransferCharacteristics |-> VideoTransferCharacteristics, ColorMatrix |-> VideoColorMatrix,
   MaxPictureSizes |-> VideoMaxPictureSizes,
   MaxPictureSizesInBits |-> VideoMaxPictureSizesInBits,
   LoopFilterBeta |-> VideoLoopFilterBeta, LoopFilterTc |-> VideoLoopFilterTc,
   DecodedPictureBuffer |-> VideoDecodedPictureBuffer,
   InternalEntropyBuffers |-> VideoInternalEntropyBuffers,
   SequencePictureMode |-> CommonSequencePictureMode, InputParsed |-> VideoInputParsed,
   EarlyCallback |-> PortEarlyCallback, Synchronization |-> PortSynchronization,
   AccessUnitDelimiter |-> VideoAccessUnitDelimiter,
   BufferingPeriodSEI |-> VideoBufferingPeriodSEI, PictureTimingSEI |-> VideoPictureTimingSEI,
   RecoveryPointSEI |-> VideoRecoveryPointSEI,
   MasteringDisplayColourVolumeSEI |-> VideoMasteringDisplayColourVolumeSEI,
   ContentLightLevelSEI |-> VideoContentLightLevelSEI,
   AlternativeTransferCharacteristicsSEI |-> VideoAlternativeTransferCharacteristicsSEI,
   ST209410SEI |-> VideoST209410SEI, ST209440SEI |-> VideoST209440SEI,
   RateControlPlugin |-> VideoRateControlPlugin, Crop |-> VideoCrop(port),
   OutputPosition |-> VideoOutputPosition,
   StartCodeBytesAlignment |-> VideoStartCodeBytesAlignment, Realtime |-> VideoRealtime,
   UniformSliceType |-> VideoUniformSliceType, ProfileLevelCurrent |-> ProfileLevel]
Windows == DOMAIN WindowOf("input")

(***************************************************************************)
(* The parameters that are more than a window.                             *)
(***************************************************************************)
Parameters == Windows \cup {"PortDefinition", "PortFormat", "BufferMode", "Quantization",
  "Expertise", "MaxPictureSize", "MaxPictureSizeInBits"}

\* A colour format no case of ConvertOMXToMediaFormat names.
NoFormat == [color |-> "none", bitdepth |-> 0, storage |-> "none"]
\* The JPEG decoder is made without an expertise, and the pointer is not tested.
\* (No entry point makes a JPEG encoder: its settings class stands behind the same calls.)
HasExpertise(c) == c \notin {"enc_mjpeg", "dec_mjpeg"}
NeedsExpertise == {"Expertise", "ProfileLevelCurrent"}
\* The two parameters of one side of the component only.
WrongPort(p, port) ==
  \/ p = "Synchronization" /\ port = "output"
  \/ p = "OutputPosition" /\ port = "input"

Merge(new, old) == [f \in DOMAIN old |-> IF f \in DOMAIN new THEN new[f] ELSE old[f]]
Pick(fields, value) == [f \in fields |-> value[f]]
Write(index, value) == [index |-> index, value |-> value, optional |-> FALSE]
IfKnown(index, value) == [index |-> index, value |-> value, optional |-> TRUE]

\* The indices that must be readable: if one is not, nothing is written.
MustRead(p, port) ==
  CASE p = "PortDefinition" -> {"RESOLUTION", "FORMAT", "CLOCK"}
    [] p = "PortFormat" -> {"FORMAT", "CLOCK"}
    [] p = "BufferMode" -> {"BUFFER_HANDLES"}
    [] p = "Quantization" -> {"QUANTIZATION_PARAMETER"}
    [] p = "Expertise" -> {"PROFILE_LEVEL"}
    [] p = "MaxPictureSize" -> {"MAX_PICTURE_SIZES"}
    [] p = "MaxPictureSizeInBits" -> {"MAX_PICTURE_SIZES_IN_BITS"}
    [] OTHER -> {WindowOf(port)[p].index}

ConstructPortDefinition(c, m) ==
  LET resolution == Get(c, "RESOLUTION", m)
  IN [format |-> m.FORMAT, xFramerate |-> ConvertMediaToOMXFramerate(m.CLOCK),
      width |-> resolution.width, height |-> resolution.height,
      stride |-> resolution.stride, sliceHeight |-> resolution.sliceHeight,
      bitrate |-> IF c \in Encoders THEN m.BITRATE.target ELSE 0]

ConstructVideoPortCurrentFormat(m) ==
  [format |-> m.FORMAT, xFramerate |-> ConvertMediaToOMXFramerate(m.CLOCK)]

\* Profile and level; for an encoder the group of pictures and the tools too.
GetExpertise(c, m) ==
  LET gop == IF c \in Encoders THEN m.GROUP_OF_PICTURES ELSE [b |-> 0, length |-> 1]
  IN [profile |-> m.PROFILE_LEVEL.profile, level |-> m.PROFILE_LEVEL.level,
      nB |-> ConvertMediaToOMXBFrames(gop), nP |-> ConvertMediaToOMXPFrames(gop),
      entropy |-> IF c = "enc_avc" THEN m.ENTROPY_CODING.value ELSE "cavlc",
      intra |-> c \in Encoders /\ m.CONSTRAINED_INTRA_PREDICTION.value,
      filter |-> IF c \in Encoders THEN m.LOOP_FILTER.value ELSE MaxEnum]

\* The value SetParameter reads before it writes, in the form it writes it.
Construct(p, port, c, m) ==
  CASE p = "PortDefinition" -> ConstructPortDefinition(c, m)
    [] p = "PortFormat" -> ConstructVideoPortCurrentFormat(m)
    [] p = "BufferMode" -> Pick({port}, m.BUFFER_HANDLES)
    [] p = "Quantization" -> QuantizationToOMX(m.QUANTIZATION_PARAMETER)
    [] p = "Expertise" -> GetExpertise(c, m)
    [] p \in {"MaxPictureSize", "MaxPictureSizeInBits"} ->
         Get(c, CHOOSE idx \in MustRead(p, port) : TRUE, m)
    [] OTHER -> LET w == WindowOf(port)[p] IN Pick(w.fields, Get(c, w.index, m))

(***************************************************************************)
(* The writes of a parameter, in the order of the code.                    *)
(***************************************************************************)
\* slip: the bitrate and the clock before what may still be refused.
SetPortDefinitionFormatLast(v) ==
  <<IfKnown("BITRATE", [target |-> v.bitrate]),
    Write("CLOCK", ConvertOMXToMediaClock(v.xFramerate)),
    Write("RESOLUTION", Pick({"width", "height", "stride", "sliceHeight"}, v)),
    Write("FORMAT", v.format)>>

SetPortDefinition(v) ==
  <<Write("FORMAT", v.format), Write("CLOCK", ConvertOMXToMediaClock(v.xFramerate)),
    Write("RESOLUTION", Pick({"width", "height", "stride", "sliceHeight"}, v)),
    IfKnown("BITRATE", [target |-> v.bitrate])>>

SetVideoPortFormat(v) ==
  <<Write("CLOCK", ConvertOMXToMediaClock(v.xFramerate)), Write("FORMAT", v.format)>>

SetExpertise(c, v) ==
  <<Write("PROFILE_LEVEL", Pick({"profile", "level"}, v)),
    IfKnown("GROUP_OF_PICTURES", [b |-> ConvertOMXToMediaBFrames(v.nB, v.nP),
                                  length |-> ConvertOMXToMediaGopLength(v.nB, v.nP)])>>
  \o (IF c \in {"enc_avc", "dec_avc"}
      THEN <<IfKnown("ENTROPY_CODING", [value |-> v.entropy])>> ELSE <<>>)
  \o <<IfKnown("CONSTRAINED_INTRA_PREDICTION", [value |-> v.intra]),
       IfKnown("LOOP_FILTER", [value |-> v.filter])>>

\* One size for the three picture types; the rollback writes three.
SetMaxPictureSizes(p, v) ==
  <<Write(IF p = "MaxPictureSize" THEN "MAX_PICTURE_SIZES" ELSE "MAX_PICTURE_SIZES_IN_BITS",
          IF "size" \in DOMAIN v THEN [i |-> v.size, p |-> v.size, b |-> v.size] ELSE v)>>

Writes(p, port, c, v) ==
  CASE p = "PortDefinition" -> SetPortDefinition(v)
    [] p = "PortFormat" -> SetVideoPortFormat(v)
    [] p = "BufferMode" -> <<Write("BUFFER_HANDLES", v)>>
    [] p = "Quantization" -> <<Write("QUANTIZATION_PARAMETER", QuantizationToMedia(v))>>
    [] p = "Expertise" -> SetExpertise(c, v)
    [] p \in {"MaxPictureSize", "MaxPictureSizeInBits"} -> SetMaxPictureSizes(p, v)
    [] OTHER -> <<Write(WindowOf(port)[p].index, v)>>

\* slip: a target above the maximum is cut.
KeepOrderCut(given, bitrate) ==
  IF bitrate.target > bitrate.max THEN [bitrate EXCEPT !.target = bitrate.max] ELSE bitrate

\* The maximum follows a higher target, the target a lower maximum.
KeepOrder(given, bitrate) ==
  IF "target" \in DOMAIN given
  THEN [bitrate EXCEPT !.max = Larger(@, bitrate.target)]
  ELSE IF bitrate.target > bitrate.max THEN [bitrate EXCEPT !.target = bitrate.max]
  ELSE bitrate

\* The conversions that throw std::invalid_argument, which nobody catches.
Unconvertible(w) ==
  \/ w.index = "FORMAT" /\ w.value = NoFormat
  \/ w.index = "BUFFER_HANDLES" /\ \E port \in DOMAIN w.value : w.value[port] = MaxEnum

\* The fields of a window over those already there, then Set.
WriteWindow(c, w, m) ==
  IF Unconvertible(w) THEN Answered("throws", m)
  ELSE IF w.index \notin Readable[c] THEN Set(c, w.index, w.value, m)
  ELSE LET merged == Merge(w.value, Get(c, w.index, m))
       IN Set(c, w.index, IF w.index = "BITRATE" THEN KeepOrder(w.value, merged) ELSE merged, m)

\* A write, unless one before it was refused; an index the class does not have
\* may be skipped.
AfterWrite(c, w, sofar) ==
  IF sofar.error # "None" THEN sofar
  ELSE LET now == WriteWindow(c, w, sofar.media)
       IN IF w.optional /\ now.error = "UnsupportedIndex" THEN sofar ELSE now

\* The writes one after the other, up to the first that is refused.
ApplyAll(c, writes, m) ==
  LET after[n \in 0 .. Len(writes)] ==
        IF n = 0 THEN Answered("None", m) ELSE AfterWrite(c, writes[n], after[n - 1])
  IN after[Len(writes)]
Apply(p, port, c, v, m) == ApplyAll(c, Writes(p, port, c, v), m)

(***************************************************************************)
(* Set...: read, write, and on a refusal set again what was read.  The     *)
(* inner call does the same: once the values read come back, it calls itself *)
(* until the stack is full.                                                *)
(***************************************************************************)
Refused(answer) == answer.error \in {"BadParameter", "UnsupportedIndex"}

\* What the caller of an inner call sees: its own error if the inner one returns.
Outer(error, inner) == IF inner.error = "None" THEN Answered(error, inner.media) ELSE inner

\* What was read from the settings `was` is set again after a refusal.
SetBack(p, port, c, was, answer) == Apply(p, port, c, Construct(p, port, c, was), answer.media)

\* What the call gives, from its own writes (first) and those of the calls inside it
\* (back, again, third): each looks no deeper once its writes are not refused.
RestoredThrice(p, port, c, first, back, again, third) ==
  IF ~Refused(third) THEN Outer(again.error, third)
  ELSE Answered(IF /\ third.media = back.media
                   /\ Construct(p, port, c, again.media) = Construct(p, port, c, first.media)
                THEN "recursing" ELSE "unsettled", third.media)
RestoredTwice(p, port, c, first, back, again) ==
  IF ~Refused(again) THEN Outer(back.error, again)
  ELSE RestoredThrice(p, port, c, first, back, again, SetBack(p, port, c, back.media, again))
RestoredOnce(p, port, c, first, back) ==
  IF ~Refused(back) THEN Outer(first.error, back)
  ELSE RestoredTwice(p, port, c, first, back, SetBack(p, port, c, first.media, back))
Restored(p, port, c, m, first) ==
  IF ~Refused(first) \/ p = "RateControlPlugin" THEN first
  ELSE RestoredOnce(p, port, c, first, SetBack(p, port, c, m, first))

\* slip: the error is given without writing back.
SetWithoutRestore(p, port, c, v, m) == Apply(p, port, c, v, m)

SetAndRestore(p, port, c, v, m) == Restored(p, port, c, m, Apply(p, port, c, v, m))

SetValue(p, port, c, v, m) ==
  IF p \in NeedsExpertise /\ ~HasExpertise(c) THEN Answered("crash", m)
  ELSE IF WrongPort(p, port) THEN Answered("BadParameter", m)
  ELSE IF ~(MustRead(p, port) \subseteq Readable[c]) THEN Answered("UnsupportedIndex", m)
  ELSE SetAndRestore(p, port, c, v, m)

(***************************************************************************)
(* The calls of the client.                                                *)
(***************************************************************************)
\* Buffers a port needs: one more on the output, for the end of the stream.
BufferCountMin(port, m) ==
  IF port = "input" THEN BufferCounts(codec, m, Separate).input
  ELSE BufferCounts(codec, m, Separate).output + 1

\* slip: the buffer for the end of the stream is forgotten.
TooFewButOne(p, port, v) == p = "PortDefinition" /\ v.actual + 1 < BufferCountMin(port, media)

\* SetPortExpectedBuffer refuses a definition with too few buffers.
TooFew(p, port, v) == p = "PortDefinition" /\ v.actual < BufferCountMin(port, media)

\* SetParameter is refused once the component has left Loaded, unless the port
\* it names is disabled; a new role is refused whatever the port.
RefusedByState(port) == running /\ enabled[port]

\* The calls a client may make: a structure with the fields of its parameter, and
\* a number where the structure has one that is counted or computed with.
HasFields(value, fields) == value = [f \in fields |-> value[f]]
WellFormed(call) ==
  LET p == call.param  v == call.value
  IN /\ p \in Parameters /\ call.port \in Ports
     /\ p \in Windows => HasFields(v, WindowOf(call.port)[p].fields)
     /\ p = "PortDefinition" =>
          \A f \in {"width", "height", "stride", "sliceHeight", "xFramerate", "bitrate", "actual"} : v[f] \in Nat
     /\ p = "PortFormat" =>
          /\ HasFields(v, {"format", "xFramerate"}) /\ v.xFramerate \in Nat
          /\ HasFields(v.format, {"color", "bitdepth", "storage"})
     /\ p = "BufferMode" => HasFields(v, {call.port})
     /\ p = "Expertise" => v.nB \in Nat /\ v.nP \in Nat
     /\ p \in {"MaxPictureSize", "MaxPictureSizeInBits"} => HasFields(v, {"size"}) /\ v.size \in Int
     /\ p = "Quantization" => \A f \in {"nQpI", "nQpP", "nQpB"} : v[f] \in Int
     /\ p = "Bitrate" => v.target \in Int
     /\ p = "MaxBitrate" => v.max \in Int
     /\ p = "LookAhead" => v.lookAhead \in Int
     /\ p = "Slices" => v.num \in Int
     /\ p \in {"MaxPictureSizes", "MaxPictureSizesInBits"} => \A f \in {"i", "p", "b"} : v[f] \in Int
ASSUME ClientsAssumption ==
  /\ DefaultCount \in Nat
  /\ \A name \in DOMAIN Clients :
       /\ Clients[name].codec \in Codecs /\ Clients[name].depth \in Nat
       /\ \A call \in Clients[name].calls : WellFormed(call)

Silent == [param |-> "none", port |-> "input", value |-> [value |-> "none"], answer |-> "None"]
Call(p, port, v, answer) == [param |-> p, port |-> port, value |-> v, answer |-> answer]
\* A call that does not return, ends the process or calls itself more than three
\* times, each time with other values, is the last one.
MayCall ==
  /\ calls < Clients[client].depth
  /\ last.answer \notin {"recursing", "unsettled", "crash"}
  /\ calls' = calls + 1
  /\ UNCHANGED client

SetParameter ==
  /\ MayCall
  /\ \E call \in Clients[client].calls :
       LET p == call.param  port == call.port  v == call.value
           set == SetValue(p, port, codec, v, media)
           answer == IF RefusedByState(port) THEN "IncorrectStateOperation"
                     ELSE IF TooFew(p, port, v) THEN "BadParameter" ELSE set.error
           done == ~RefusedByState(port) /\ ~TooFew(p, port, v)
       IN /\ last' = Call(p, port, v, answer)
          /\ media' = IF done THEN set.media ELSE media
          \* SetPortExpectedBuffer, before the definition itself may be refused
          /\ expected' = IF done /\ p = "PortDefinition"
                         THEN [expected EXCEPT ![port] = v.actual] ELSE expected
  /\ UNCHANGED <<enabled, running>>

\* The role the component has already: back to the defaults, but for one switch
\* and what Reset leaves.
SetRole ==
  /\ MayCall
  /\ IF running
     THEN /\ last' = Call("Role", "input", Silent.value, "IncorrectStateOperation")
          /\ UNCHANGED media
     ELSE /\ last' = Call("Role", "input", Silent.value, "None")
          /\ media' = IF "LLP2_EARLY_CB" \in Settable[codec]
                      THEN [ResetInUse(codec, media) EXCEPT !.LLP2_EARLY_CB = media.LLP2_EARLY_CB]
                      ELSE ResetInUse(codec, media)
  /\ UNCHANGED <<expected, enabled, running>>

\* GetParameter of the definition: the one reading that writes.
GetPortDefinition(port) ==
  /\ MayCall
  /\ expected' = [expected EXCEPT ![port] = Larger(@, BufferCountMin(port, media))]
  /\ last' = Silent
  /\ UNCHANGED <<media, enabled, running>>

\* Start, Stop, EnablePort and DisablePort, as far as SetParameter sees them.
StartOrStop ==
  /\ MayCall
  /\ running' = ~running
  /\ last' = Silent
  /\ UNCHANGED <<media, expected, enabled>>

SwitchPort(port) ==
  /\ MayCall
  /\ enabled' = [enabled EXCEPT ![port] = ~@]
  /\ last' = Silent
  /\ UNCHANGED <<media, expected, running>>

Init ==
  /\ client \in DOMAIN Clients
  /\ media = Reset(codec)
  /\ expected = [port \in Ports |-> DefaultCount]
  /\ enabled = [port \in Ports |-> TRUE]
  /\ running = FALSE
  /\ last = Silent
  /\ calls = 0

Next ==
  \/ SetParameter
  \/ SetRole
  \/ StartOrStop
  \/ \E port \in Ports : GetPortDefinition(port) \/ SwitchPort(port)

Spec == Init /\ [][Next]_vars

(***************************************************************************)
(* Properties.                                                             *)
(***************************************************************************)
Answers == {"None", "BadParameter", "UnsupportedIndex", "IncorrectStateOperation",
            "throws", "recursing", "unsettled", "crash"}
TypeOK ==
  /\ client \in DOMAIN Clients
  /\ DOMAIN media = Stored(codec)
  /\ media.CLOCK.clockratio > 0 /\ media.RESOLUTION.stride \in Nat
  /\ codec \in Encoders => /\ media.GROUP_OF_PICTURES.length > media.GROUP_OF_PICTURES.b
                           /\ media.SLICE_PARAMETER.num > 0
  /\ codec \in Decoders => media.INTERNAL_ENTROPY_BUFFER.value \in 1 .. 16
  /\ expected \in [Ports -> Nat] /\ enabled \in [Ports -> BOOLEAN]
  /\ running \in BOOLEAN
  /\ last.answer \in Answers
  /\ calls \in 0 .. Clients[client].depth

\* Whatever formats and sizes are set, in whatever order, and whichever of them
\* are refused: a line of the picture fits in the stride, and both strides are
\* what the hardware can read (UpdateFormat, UpdateResolution and the rollbacks).
SizesFit ==
  LET r == media.RESOLUTION
  IN /\ r.stride >= MinStride(r.width, media.FORMAT) /\ r.stride % HAlign = 0
     /\ r.sliceHeight >= r.height /\ r.sliceHeight % VAlign = 0

\* A window that was set is read back as it was set, whatever its neighbours in
\* the same index were (SetVideo..., ConstructVideo...).  UniformSliceType is
\* never read.
Exact == (Windows \ {"UniformSliceType"}) \cup {"PortFormat", "BufferMode"}
SetIsRead ==
  (last.param \in Exact /\ last.answer = "None")
    => Construct(last.param, last.port, codec, media) = last.value

\* What a refused call may still change: the rollback writes what it has read,
\* and some indices read less than they store.
WritesGop == {p \in Windows : WindowOf("input")[p].index = "GROUP_OF_PICTURES"}
LostByRollback(p, m) ==
  CASE p \in WritesGop -> {"RECOVERY_POINT_SEI"}
    [] p = "Expertise" -> {"RECOVERY_POINT_SEI", "CONSTRAINED_INTRA_PREDICTION"}
    [] p \in {"MaxPictureSizes", "MaxPictureSize"} -> {"MAX_PICTURE_SIZES_IN_BITS"}
    [] p = "PortDefinition" /\ codec \in Encoders /\ Tiled(m.FORMAT) -> {"RESOLUTION"}
    [] OTHER -> {}

\* The stored rate control fits the stored clock; a definition, a format or a
\* rate control that was accepted may have left it otherwise.
Coherent == codec \in Encoders =>
  ~DividesByZero(media.BITRATE, media.CLOCK) /\ CheckBitrate(media.BITRATE, media.CLOCK)

\* While that is so a call the component refuses leaves the settings as they were,
\* also when some of its writes were made before the one refused (the rollbacks
\* of Set...).  Otherwise the rollback may be refused too, and its own rollback
\* leaves what had been refused.
FailedSetKeeps ==
  [][calls' # calls /\ last'.answer \in {"BadParameter", "UnsupportedIndex"} /\ Coherent
     => \A idx \in DOMAIN media \ LostByRollback(last'.param, media) :
          media'[idx] = media[idx]]_vars

\* Nor, while that is so, does a call of a client that names
\* formats and modes the conversions know, and at least one frame a second,
\* call itself for ever, divide by zero or let an exception out.
Known(call) ==
  /\ call.param \in NeedsExpertise => HasExpertise(codec)
  /\ call.param \in {"PortDefinition", "PortFormat"} =>
       call.value.format # NoFormat /\ call.value.xFramerate \notin 1 .. Q16 - 1
  /\ call.param = "BufferMode" => call.value[call.port] # MaxEnum
CoherentCallsReturn ==
  [][calls' # calls /\ Known(last') /\ Coherent
     => last'.answer \notin {"recursing", "unsettled", "crash", "throws"}]_vars

\* A port expects fewer buffers than the settings need only when the settings
\* came to need more: no definition, read, refused or accepted, lowers what is
\* expected below the need (SetPortExpectedBuffer, ConstructPortDefinition).
Enough(port) == expected[port] >= BufferCountMin(port, media)
LessOnlyWhenMoreNeeded ==
  calls' # calls => \A port \in Ports : Enough(port) /\ ~Enough(port)'
    => BufferCountMin(port, media)' > BufferCountMin(port, media)
EnoughUntilMoreNeeded == [][LessOnlyWhenMoreNeeded]_vars

\* OMX_SetParameter is a blocking call that returns (OMX_Core.h:782).
EveryCallReturns == last.answer # "recursing"
=============================================================================
