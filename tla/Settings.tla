------------------------------ MODULE Settings ------------------------------
(***************************************************************************)
(* The settings of a codec (SettingsInterface and its six classes): a      *)
(* record `m' with one field per settings index the class stores, each the *)
(* record of the values that Get and Set of that index transfer.           *)
(*                                                                         *)
(* Most indices are stored as they come; the ones below are checked,       *)
(* adjusted, or share their storage with another index.  The codec         *)
(* libraries are external: their defaults and pitches are parameters.      *)
(***************************************************************************)
EXTENDS Integers, FiniteSets, TLC

CONSTANTS
  HAlign, VAlign,   \* StrideAlignments the entry point gives the class
  MinOutput,        \* buffers the decoder library asks for, per stack size
  Importable        \* file descriptors the allocator can import

ASSUME AlignmentsAssumption == HAlign \in Nat \ {0} /\ VAlign \in Nat \ {0}
ASSUME MinOutputAssumption == MinOutput \in [1 .. 16 -> Nat]

Encoders == {"enc_avc", "enc_hevc", "enc_mjpeg"}
Decoders == {"dec_avc", "dec_hevc", "dec_mjpeg"}
Codecs == Encoders \cup Decoders

\* What an enumeration becomes when no case of a conversion names the value.
MaxEnum == "max"
Larger(a, b) == IF a < b THEN b ELSE a
RoundUp(n, alignment) == ((n + alignment - 1) \div alignment) * alignment

(***************************************************************************)
(* The indices each class stores.                                          *)
(***************************************************************************)
CommonIndices == {"BUFFER_HANDLES", "CLOCK", "FORMAT", "RESOLUTION", "SUBFRAME"}

\* One bit each of AL_TEncSettings::uEnableSEI.
SeiIndices == {"BUFFERING_PERIOD_SEI", "PICTURE_TIMING_SEI", "RECOVERY_POINT_SEI",
  "MASTERING_DISPLAY_COLOUR_VOLUME_SEI", "CONTENT_LIGHT_LEVEL_SEI",
  "ALTERNATIVE_TRANSFER_CHARACTERISTICS_SEI", "ST2094_10_SEI", "ST2094_40_SEI"}

ColourIndices == {"COLOR_PRIMARIES", "TRANSFER_CHARACTERISTICS", "COLOUR_MATRIX"}
FilterOffsetIndices == {"LOOP_FILTER_BETA", "LOOP_FILTER_TC"}
CropIndices == {"INPUT_CROP", "OUTPUT_CROP"}
PictureSizeIndices == {"MAX_PICTURE_SIZES", "MAX_PICTURE_SIZES_IN_BITS"}

EncoderIndices == CommonIndices \cup SeiIndices \cup ColourIndices
  \cup FilterOffsetIndices \cup CropIndices \cup PictureSizeIndices
  \cup {"ACCESS_UNIT_DELIMITER", "ASPECT_RATIO", "BITRATE", "FILLER_DATA",
        "GROUP_OF_PICTURES", "LOOKAHEAD", "LOW_BANDWIDTH", "QUANTIZATION_PARAMETER",
        "RATE_CONTROL_PLUGIN", "SCALING_LIST", "SLICE_PARAMETER",
        "START_CODE_BYTES_ALIGNMENT", "TWOPASS", "VIDEO_FULL_RANGE", "VIDEO_MODE"}

DecoderIndices == CommonIndices
  \cup {"DECODED_PICTURE_BUFFER", "INPUT_PARSED", "INTERNAL_ENTROPY_BUFFER",
        "LLP2_EARLY_CB", "OUTPUT_POSITION", "SEQUENCE_PICTURE_MODE"}

\* AVC and HEVC add a profile, a real-time switch and, when they encode, tools
\* that JPEG has not.
ItuEncoderIndices == EncoderIndices
  \cup {"CONSTRAINED_INTRA_PREDICTION", "INPUT_SYNCHRONIZATION", "LOOP_FILTER",
        "LOG2_CODING_UNIT", "PROFILE_LEVEL", "REALTIME"}

EncSettingsAVC_Get == ItuEncoderIndices \cup {"ENTROPY_CODING", "UNIFORM_SLICE_TYPE"}
EncSettingsAVC_Set == EncSettingsAVC_Get
EncSettingsHEVC_Get == ItuEncoderIndices
EncSettingsHEVC_Set == EncSettingsHEVC_Get
EncSettingsMJPEG_Get == EncoderIndices \cup {"UNIFORM_SLICE_TYPE", "ENTROPY_CODING", "LOG2_CODING_UNIT"}
EncSettingsMJPEG_Set == EncoderIndices \cup {"UNIFORM_SLICE_TYPE", "LOOP_FILTER"}
DecSettingsAVC_Get == DecoderIndices \cup {"PROFILE_LEVEL", "REALTIME"}
DecSettingsAVC_Set == DecSettingsAVC_Get
DecSettingsHEVC_Get == DecoderIndices \cup {"PROFILE_LEVEL", "REALTIME"}
DecSettingsHEVC_Set == DecSettingsHEVC_Get
DecSettingsJPEG_Get == DecoderIndices
DecSettingsJPEG_Set == DecoderIndices

Readable == [enc_avc |-> EncSettingsAVC_Get, enc_hevc |-> EncSettingsHEVC_Get,
             enc_mjpeg |-> EncSettingsMJPEG_Get, dec_avc |-> DecSettingsAVC_Get,
             dec_hevc |-> DecSettingsHEVC_Get, dec_mjpeg |-> DecSettingsJPEG_Get]
Settable == [enc_avc |-> EncSettingsAVC_Set, enc_hevc |-> EncSettingsHEVC_Set,
             enc_mjpeg |-> EncSettingsMJPEG_Set, dec_avc |-> DecSettingsAVC_Set,
             dec_hevc |-> DecSettingsHEVC_Set, dec_mjpeg |-> DecSettingsJPEG_Set]
\* The pair of sizes is stored once, in bits.
Stored(c) == (Readable[c] \cup Settable[c]) \ {"MAX_PICTURE_SIZES"}

(***************************************************************************)
(* What a class supports (the lists of its header).                        *)
(***************************************************************************)
Colors == {"400", "420", "422", "444"}
Storages == {"raster", "tile_32x4", "tile_64x4"}
BitDepths(c) == IF c = "enc_mjpeg" THEN {8, 12} ELSE {8, 10, 12}
SequenceModes(c) == IF c = "dec_mjpeg" THEN {"unknown", "frame"} ELSE {"unknown", "frame", "field"}
Profiles == [enc_avc  |-> {"constrained_baseline", "main", "high"},
             enc_hevc |-> {"main", "main_10", "main_422"},
             dec_avc  |-> {"constrained_baseline", "main", "high"},
             dec_hevc |-> {"main", "main_10", "main_422", "main_444"}]
Levels == [enc_avc |-> {9, 10, 52}, enc_hevc |-> {10, 20, 60},
           dec_avc |-> {9, 10, 52}, dec_hevc |-> {10, 20, 60}]

(***************************************************************************)
(* Checks.  CheckBitrate divides: the number of frames a second, rounded   *)
(* down, is the divisor.                                                   *)
(***************************************************************************)
CheckClock(v) == v.framerate >= 0 /\ v.clockratio > 0

CheckGroupOfPictures(v) ==
  /\ v.b >= 0 /\ v.length > v.b
  /\ v.idrFrequency >= 0 /\ v.rpFrequency >= 0 /\ v.ltFrequency >= 0
  /\ v.mode # MaxEnum /\ v.gdr # MaxEnum

FramesPerSecond(clock) == (clock.framerate * 1000) \div clock.clockratio
HalfFrame(clock) == (1000 \div FramesPerSecond(clock)) \div 2

\* The checks CheckBitrate makes before it divides, and the ones after.
CheckBitrateTarget(v) == v.target > 0 /\ v.max >= v.target /\ v.mode # MaxEnum
CheckBitrate(v, clock) ==
  /\ CheckBitrateTarget(v)
  /\ v.cpb >= HalfFrame(clock)
  /\ v.ird <= v.cpb
  /\ v.quality \in 0 .. 20
DividesByZero(v, clock) == CheckBitrateTarget(v) /\ FramesPerSecond(clock) = 0

CheckQuantizationParameter(v) ==
  /\ v.ctrl # MaxEnum /\ v.table # MaxEnum
  /\ v.max >= v.min /\ v.min >= 0
  /\ v.initial >= 0 /\ v.deltaIP >= -1 /\ v.deltaPB >= -1

CheckSlicesParameter(v) == v.num > 0
CheckFormat(c, v) == v.color \in Colors /\ v.bitdepth \in BitDepths(c) /\ v.storage \in Storages
CheckBufferHandles(v) == v.input # MaxEnum /\ v.output # MaxEnum
CheckInternalEntropyBuffer(v) == v.value \in 1 .. 16
CheckLookAhead(v) == v.lookAhead >= 0
CheckTwoPass(v) == v.nPass \in 0 .. 2
CheckMaxPictureSizes(v) == v.i >= 0 /\ v.p >= 0 /\ v.b >= 0
CheckCrop(v) == v.x >= 0 /\ v.y >= 0 /\ v.width >= 0 /\ v.height >= 0
CheckLog2CodingUnit(v) == v.min >= 0 /\ v.max >= 0
\* AVC and JPEG have no tiles to filter across.
CheckLoopFilter(c, v) == v.value # MaxEnum /\ (c # "enc_hevc" => v.value # "cross_tile")
CheckProfileLevel(c, v) == v.profile \in Profiles[c] /\ v.level \in Levels[c]
CheckSequenceMode(c, v) == v.value \in SequenceModes(c)

EnumIndices == ColourIndices \cup {"VIDEO_MODE", "ASPECT_RATIO", "SCALING_LIST",
  "ENTROPY_CODING", "START_CODE_BYTES_ALIGNMENT", "DECODED_PICTURE_BUFFER"}

\* Update...: does class c take v for index idx?  An encoder, and only an
\* encoder, refuses a frame rate of 0.  No descriptor, which is what a plugin
\* nobody set reads as, is refused before the allocator is asked to import it.
Accepts(c, idx, v, m) ==
  CASE idx = "CLOCK" -> CheckClock(v) /\ (c \in Encoders => v.framerate # 0)
    [] idx = "GROUP_OF_PICTURES" -> CheckGroupOfPictures(v)
    [] idx = "BITRATE" -> CheckBitrate(v, m.CLOCK)
    [] idx = "QUANTIZATION_PARAMETER" -> CheckQuantizationParameter(v)
    [] idx = "SLICE_PARAMETER" -> CheckSlicesParameter(v)
    [] idx = "FORMAT" -> CheckFormat(c, v)
    [] idx = "BUFFER_HANDLES" -> CheckBufferHandles(v)
    [] idx = "INTERNAL_ENTROPY_BUFFER" -> CheckInternalEntropyBuffer(v)
    [] idx = "LOOKAHEAD" -> CheckLookAhead(v)
    [] idx = "TWOPASS" -> CheckTwoPass(v)
    [] idx \in PictureSizeIndices -> CheckMaxPictureSizes(v)
    [] idx \in CropIndices -> CheckCrop(v)
    [] idx = "LOG2_CODING_UNIT" -> CheckLog2CodingUnit(v)
    [] idx = "LOOP_FILTER" -> CheckLoopFilter(c, v)
    [] idx = "PROFILE_LEVEL" -> CheckProfileLevel(c, v)
    [] idx = "SEQUENCE_PICTURE_MODE" -> CheckSequenceMode(c, v)
    [] idx = "RATE_CONTROL_PLUGIN" -> v.dmaBuf # -1 /\ v.dmaBuf \in Importable
    [] idx \in EnumIndices -> v.value # MaxEnum
    [] OTHER -> TRUE

(***************************************************************************)
(* Storing.                                                                *)
(***************************************************************************)
Tiled(format) == format.storage # "raster"
\* AL_EncGetMinPitch, AL_Decoder_GetMinPitch: bytes of a line, four lines a tile.
MinPitch(width, format) ==
  width * (IF format.bitdepth > 8 THEN 2 ELSE 1) * (IF Tiled(format) THEN 4 ELSE 1)
MinStride(width, format) == RoundUp(MinPitch(width, format), HAlign)

\* A wider pixel needs a longer stride; a narrower one keeps the long one.
UpdateFormat(v, m) ==
  [m EXCEPT !.FORMAT = v, !.RESOLUTION.stride = Larger(MinStride(m.RESOLUTION.width, v), @)]

\* slip: the stride is not rounded to what the hardware needs.
UpdateResolutionAsGiven(v, m) == [m EXCEPT !.RESOLUTION = v]

UpdateResolution(v, m) ==
  [m EXCEPT !.RESOLUTION =
     [width |-> v.width, height |-> v.height,
      stride |-> Larger(MinStride(v.width, m.FORMAT), RoundUp(v.stride, HAlign)),
      sliceHeight |-> Larger(RoundUp(v.height, VAlign), RoundUp(v.sliceHeight, VAlign))]]

IsGDREnabled(gop) == gop.gdr \in {"vertical", "horizontal"}
\* The recovery point SEI follows the refresh mode, whatever it was set to.
UpdateGroupOfPictures(v, m) ==
  [m EXCEPT !.GROUP_OF_PICTURES = v, !.RECOVERY_POINT_SEI = [value |-> IsGDREnabled(v)]]

NotBelow(n) == IF n < 0 THEN -1 ELSE n
UpdateQuantizationParameter(v) == [v EXCEPT !.deltaIP = NotBelow(@), !.deltaPB = NotBelow(@)]

\* Switched on, and never off again.
UpdateConstrainedIntraPrediction(v, m) ==
  IF v.value THEN [m EXCEPT !.CONSTRAINED_INTRA_PREDICTION = v] ELSE m
\* JPEG adds the options of the new mode to those it has.
UpdateLoopFilter(c, v, m) ==
  IF c = "enc_mjpeg" /\ v.value = "disable" THEN m ELSE [m EXCEPT !.LOOP_FILTER = v]

ScaleSizes(v, n) == [i |-> v.i * n, p |-> v.p * n, b |-> v.b * n]
InThousands(v) == [i |-> v.i \div 1000, p |-> v.p \div 1000, b |-> v.b \div 1000]

Store(c, idx, v, m) ==
  CASE idx = "FORMAT" -> UpdateFormat(v, m)
    [] idx = "RESOLUTION" -> UpdateResolution(v, m)
    [] idx = "GROUP_OF_PICTURES" -> UpdateGroupOfPictures(v, m)
    [] idx = "CONSTRAINED_INTRA_PREDICTION" -> UpdateConstrainedIntraPrediction(v, m)
    [] idx = "LOOP_FILTER" -> UpdateLoopFilter(c, v, m)
    [] idx = "MAX_PICTURE_SIZES" -> [m EXCEPT !.MAX_PICTURE_SIZES_IN_BITS = ScaleSizes(v, 1000)]
    [] OTHER -> [m EXCEPT ![idx] = v]

\* SettingsInterface::Set: an error and the settings it leaves.
Answered(error, m) == [error |-> error, media |-> m]
Set(c, idx, given, m) ==
  LET v == IF idx = "QUANTIZATION_PARAMETER" THEN UpdateQuantizationParameter(given) ELSE given
  IN IF idx \notin Settable[c] THEN Answered("UnsupportedIndex", m)
     ELSE IF idx = "BITRATE" /\ DividesByZero(v, m.CLOCK) THEN Answered("crash", m)
     ELSE IF ~Accepts(c, idx, v, m) THEN Answered("BadParameter", m)
     ELSE Answered("None", Store(c, idx, v, m))

\* Get of a stored index.  An encoder gives the height of a tiled picture in tiles.
Get(c, idx, m) ==
  CASE idx = "MAX_PICTURE_SIZES" -> InThousands(m.MAX_PICTURE_SIZES_IN_BITS)
    [] idx = "RESOLUTION" /\ c \in Encoders /\ Tiled(m.FORMAT) ->
         [m.RESOLUTION EXCEPT !.sliceHeight = @ \div 4]
    [] OTHER -> m[idx]

(***************************************************************************)
(* Buffer counts, per port, before the extra end-of-stream buffer.         *)
(***************************************************************************)
Interlaced(m) == m.VIDEO_MODE.value # "progressive"
\* Buffers the pipeline holds: HEVC has no intermediate one.
Pipeline(c, m) == 1 + (IF c = "enc_hevc" THEN 0 ELSE 1) + m.GROUP_OF_PICTURES.b
EncoderInputs(c, m) ==
  (Pipeline(c, m) + m.LOOKAHEAD.lookAhead)
    * (IF c # "enc_mjpeg" /\ Interlaced(m) THEN 2 ELSE 1)
EncoderOutputs(c, m, separate) ==
  Pipeline(c, m) * (IF m.SUBFRAME.value THEN m.SLICE_PARAMETER.num ELSE 1)
    + (IF separate THEN 1 ELSE 0)
DecoderOutputs(c, m) ==
  IF c = "dec_mjpeg" THEN m.INTERNAL_ENTROPY_BUFFER.value
  ELSE MinOutput[m.INTERNAL_ENTROPY_BUFFER.value]

BufferCounts(c, m, separate) ==
  IF c \in Encoders
  THEN [input |-> EncoderInputs(c, m), output |-> EncoderOutputs(c, m, separate)]
  ELSE [input |-> 2, output |-> DecoderOutputs(c, m)]

(***************************************************************************)
(* Reset: the defaults of the class, those of the codec library included.  *)
(***************************************************************************)
Off == [value |-> FALSE]
On == [value |-> TRUE]
SmallPicture == [width |-> 176, height |-> 144,
  stride |-> RoundUp(176, HAlign), sliceHeight |-> RoundUp(144, VAlign)]
Raster420 == [color |-> "420", bitdepth |-> 8, storage |-> "raster"]
NoRegion == [x |-> 0, y |-> 0, width |-> 0, height |-> 0]

DefaultBitrate ==
  [target |-> 64, max |-> 64, cpb |-> 3000, ird |-> 1500, quality |-> 14,
   mode |-> "cbr", resilient |-> TRUE, skip |-> FALSE, maxSkip |-> 0]
DefaultGroupOfPictures ==
  [b |-> 0, length |-> 30, idrFrequency |-> 0, rpFrequency |-> 0, ltFrequency |-> 0,
   isLongTermEnabled |-> FALSE, mode |-> "default", gdr |-> "off"]
DefaultLookAhead == [lookAhead |-> 0, sceneChange |-> FALSE]
DefaultSlices == [num |-> 1, size |-> 0, dependent |-> FALSE]
DefaultProfile(c) == IF c \in {"enc_avc", "dec_avc"} THEN "constrained_baseline" ELSE "main"

\* what is not a value of its own is a switch
EncoderDefaults(c) ==
  LET own ==
    [BUFFER_HANDLES |-> [input |-> "char_ptr", output |-> "char_ptr"],
     CLOCK |-> [framerate |-> 15, clockratio |-> 1000],
     FORMAT |-> Raster420, RESOLUTION |-> SmallPicture,
     ASPECT_RATIO |-> [value |-> "auto"],
     BITRATE |-> DefaultBitrate, FILLER_DATA |-> On,
     GROUP_OF_PICTURES |-> DefaultGroupOfPictures, LOOKAHEAD |-> DefaultLookAhead,
     TWOPASS |-> [nPass |-> 0, sLogFile |-> "none"],
     MAX_PICTURE_SIZES_IN_BITS |-> [i |-> 0, p |-> 0, b |-> 0],
     QUANTIZATION_PARAMETER |-> [initial |-> 30, deltaIP |-> -1, deltaPB |-> -1,
       ctrl |-> "auto", table |-> "none", min |-> 0, max |-> 51],
     RATE_CONTROL_PLUGIN |-> [dmaBuf |-> -1, dmaSize |-> 0],
     SCALING_LIST |-> [value |-> "default"],
     SLICE_PARAMETER |-> DefaultSlices,
     START_CODE_BYTES_ALIGNMENT |-> [value |-> "auto"],
     VIDEO_MODE |-> [value |-> "progressive"],
     LOOP_FILTER |-> [value |-> "enable"],
     LOG2_CODING_UNIT |-> [min |-> 3, max |-> 5],
     ENTROPY_CODING |-> [value |-> "cabac"],
     PROFILE_LEVEL |-> [profile |-> DefaultProfile(c), level |-> 10]]
  IN [idx \in EncSettingsAVC_Get \cup EncSettingsMJPEG_Get |->
        CASE idx \in DOMAIN own -> own[idx]
          [] idx \in CropIndices -> NoRegion
          [] idx \in FilterOffsetIndices -> [value |-> -1]
          [] idx \in ColourIndices -> [value |-> "unspecified"]
          [] OTHER -> Off]

DecoderDefaults(c) ==
  [BUFFER_HANDLES |-> [input |-> "char_ptr", output |-> "char_ptr"],
   CLOCK |-> [framerate |-> 60, clockratio |-> 1000],
   FORMAT |-> Raster420, RESOLUTION |-> SmallPicture, SUBFRAME |-> Off,
   DECODED_PICTURE_BUFFER |-> [value |-> "normal"],
   INPUT_PARSED |-> Off, LLP2_EARLY_CB |-> Off, REALTIME |-> Off,
   INTERNAL_ENTROPY_BUFFER |-> [value |-> IF c = "dec_mjpeg" THEN 1 ELSE 5],
   OUTPUT_POSITION |-> [x |-> 0, y |-> 0],
   SEQUENCE_PICTURE_MODE |-> [value |-> "frame"],
   PROFILE_LEVEL |-> [profile |-> DefaultProfile(c), level |-> 10]]

\* Reset, of settings that have just been constructed
Reset(c) ==
  LET defaults == IF c \in Encoders THEN EncoderDefaults(c) ELSE DecoderDefaults(c)
  IN [idx \in Stored(c) |-> defaults[idx]]

\* and of settings in use: the name of the log of the first pass is not among
\* what an encoder's Reset assigns.
ResetInUse(c, m) ==
  IF c \in Encoders THEN [Reset(c) EXCEPT !.TWOPASS.sLogFile = m.TWOPASS.sLogFile] ELSE Reset(c)
=============================================================================
