--------------------------- MODULE Parameters_proofs ---------------------------
(***************************************************************************)
(* SetParameter for any clients, calls and alignments: the strides fit the    *)
(* picture, what was set is read back, and a call that is refused returns and *)
(* leaves the settings as they were.                                          *)
(***************************************************************************)
EXTENDS Parameters, WellFoundedInduction, TLAPS

(* What an index holds.                                                      *)
Fields(idx) ==
  CASE idx = "BUFFER_HANDLES" -> Ports
    [] idx = "CLOCK" -> {"framerate", "clockratio"}
    [] idx = "FORMAT" -> {"color", "bitdepth", "storage"}
    [] idx = "RESOLUTION" -> {"width", "height", "stride", "sliceHeight"}
    [] idx \in CropIndices -> {"x", "y", "width", "height"}
    [] idx = "OUTPUT_POSITION" -> {"x", "y"}
    [] idx = "BITRATE" -> {"target", "max", "cpb", "ird", "quality", "mode", "resilient", "skip", "maxSkip"}
    [] idx = "GROUP_OF_PICTURES" -> {"b", "length", "idrFrequency", "rpFrequency", "ltFrequency",
                                     "isLongTermEnabled", "mode", "gdr"}
    [] idx = "LOOKAHEAD" -> {"lookAhead", "sceneChange"}
    [] idx = "TWOPASS" -> {"nPass", "sLogFile"}
    [] idx \in PictureSizeIndices -> {"i", "p", "b"}
    [] idx = "QUANTIZATION_PARAMETER" -> {"initial", "deltaIP", "deltaPB", "ctrl", "table", "min", "max"}
    [] idx = "RATE_CONTROL_PLUGIN" -> {"dmaBuf", "dmaSize"}
    [] idx = "SLICE_PARAMETER" -> {"num", "size", "dependent"}
    [] idx = "LOG2_CODING_UNIT" -> {"min", "max"}
    [] idx = "PROFILE_LEVEL" -> {"profile", "level"}
    [] OTHER -> {"value"}

(* LOOP_FILTER apart, which the JPEG encoder writes without reading it.        *)
Shaped(c, m) ==
  /\ DOMAIN m = Stored(c)
  /\ \A idx \in Stored(c) \ {"LOOP_FILTER"} : DOMAIN m[idx] = Fields(idx)

Sizes == [width : Nat, height : Nat, stride : Nat, sliceHeight : Nat]
Fits(m) ==
  LET r == m.RESOLUTION
  IN /\ r \in Sizes
     /\ r.stride >= MinStride(r.width, m.FORMAT) /\ r.stride % HAlign = 0
     /\ r.sliceHeight >= r.height /\ r.sliceHeight % VAlign = 0

(* The numbers the counts and the rates are computed from, once checked.      *)
Good(idx, v) ==
  CASE idx = "CLOCK" -> v.framerate \in Nat /\ v.clockratio \in Nat \ {0}
    [] idx = "GROUP_OF_PICTURES" -> v.b \in Nat /\ v.length \in Nat /\ v.length > v.b
    [] idx = "SLICE_PARAMETER" -> v.num \in Nat \ {0}
    [] idx = "LOOKAHEAD" -> v.lookAhead \in Nat
    [] idx = "INTERNAL_ENTROPY_BUFFER" -> v.value \in 1 .. 16
    [] OTHER -> TRUE
Counted(c, m) == \A idx \in Stored(c) : Good(idx, m[idx])

Sound(c, m) == Shaped(c, m) /\ Fits(m) /\ Counted(c, m)

(* ... and before.                                                            *)
NumberFields(idx) ==
  CASE idx = "CLOCK" -> {"framerate", "clockratio"}
    [] idx = "GROUP_OF_PICTURES" -> {"b", "length"}
    [] idx = "SLICE_PARAMETER" -> {"num"}
    [] idx = "LOOKAHEAD" -> {"lookAhead"}
    [] OTHER -> {}
Typed(idx, v) == (\A f \in NumberFields(idx) : v[f] \in Int) /\ (idx = "RESOLUTION" => v \in Sizes)

LEMMA NumbersAreFields == \A idx : NumberFields(idx) \subseteq Fields(idx)
BY DEF NumberFields, Fields, CropIndices, PictureSizeIndices

LEMMA AcceptedGood ==
  ASSUME NEW c, NEW m, NEW idx, NEW v, Typed(idx, v), Accepts(c, idx, v, m)
  PROVE  Good(idx, v)
<1>1. CASE idx = "CLOCK"
  BY <1>1 DEF CropIndices, PictureSizeIndices, EnumIndices, ColourIndices, Typed, NumberFields, Accepts, CheckClock, Good
<1>2. CASE idx = "GROUP_OF_PICTURES"
  BY <1>2 DEF CropIndices, PictureSizeIndices, EnumIndices, ColourIndices, Typed, NumberFields, Accepts, CheckGroupOfPictures, Good
<1>3. CASE idx = "SLICE_PARAMETER"
  BY <1>3 DEF CropIndices, PictureSizeIndices, EnumIndices, ColourIndices, Typed, NumberFields, Accepts, CheckSlicesParameter, Good
<1>4. CASE idx = "LOOKAHEAD"
  BY <1>4 DEF CropIndices, PictureSizeIndices, EnumIndices, ColourIndices, Typed, NumberFields, Accepts, CheckLookAhead, Good
<1>5. CASE idx = "INTERNAL_ENTROPY_BUFFER"
  BY <1>5 DEF CropIndices, PictureSizeIndices, EnumIndices, ColourIndices, Accepts, CheckInternalEntropyBuffer, Good
<1>6. QED
  BY <1>1, <1>2, <1>3, <1>4, <1>5 DEF Good

-----------------------------------------------------------------------------
(* The tables.                                                              *)
LEMMA IndicesOfCodec ==
  ASSUME NEW c \in Codecs
  PROVE  /\ {"RESOLUTION", "FORMAT", "CLOCK", "BUFFER_HANDLES"} \subseteq Readable[c] \cap Stored(c)
         /\ Readable[c] \subseteq Stored(c) \cup {"MAX_PICTURE_SIZES"}
         /\ Settable[c] \subseteq Stored(c) \cup {"MAX_PICTURE_SIZES"}
         /\ Settable[c] \subseteq Readable[c] \cup {"LOOP_FILTER"}
         /\ "GROUP_OF_PICTURES" \in Settable[c] => "RECOVERY_POINT_SEI" \in Stored(c)
         /\ "MAX_PICTURE_SIZES" \in Readable[c] \cup Settable[c] => "MAX_PICTURE_SIZES_IN_BITS" \in Stored(c)
         /\ c \in Encoders => {"GROUP_OF_PICTURES", "SLICE_PARAMETER", "LOOKAHEAD"} \subseteq Stored(c)
         /\ c \in Decoders => "INTERNAL_ENTROPY_BUFFER" \in Stored(c)
BY DEF Codecs, Encoders, Decoders, Stored, Readable, Settable, EncSettingsAVC_Get, EncSettingsAVC_Set,
  EncSettingsHEVC_Get, EncSettingsHEVC_Set, EncSettingsMJPEG_Get, EncSettingsMJPEG_Set, DecSettingsAVC_Get,
  DecSettingsAVC_Set, DecSettingsHEVC_Get, DecSettingsHEVC_Set, DecSettingsJPEG_Get, DecSettingsJPEG_Set,
  ItuEncoderIndices, EncoderIndices, DecoderIndices, CommonIndices, SeiIndices, ColourIndices,
  FilterOffsetIndices, CropIndices, PictureSizeIndices

LEMMA DefaultsShaped ==
  /\ \A c \in Encoders : \A idx \in EncSettingsAVC_Get \cup EncSettingsMJPEG_Get :
       idx # "MAX_PICTURE_SIZES" => DOMAIN EncoderDefaults(c)[idx] = Fields(idx)
  /\ \A c \in Decoders : \A idx \in DecSettingsAVC_Get : DOMAIN DecoderDefaults(c)[idx] = Fields(idx)
<1>1. ASSUME NEW c \in Encoders, NEW idx \in EncSettingsAVC_Get \cup EncSettingsMJPEG_Get, idx # "MAX_PICTURE_SIZES"
      PROVE  DOMAIN EncoderDefaults(c)[idx] = Fields(idx)
  BY <1>1 DEF EncoderDefaults, Fields, Ports, SeiIndices, FilterOffsetIndices, CropIndices, ColourIndices, EncSettingsAVC_Get,
    ItuEncoderIndices, EncoderIndices, CommonIndices, EncSettingsMJPEG_Get, PictureSizeIndices, NoRegion,
    SmallPicture, Raster420, Off, On, DefaultBitrate, DefaultGroupOfPictures, DefaultLookAhead, DefaultSlices
<1>2. ASSUME NEW c \in Decoders, NEW idx \in DecSettingsAVC_Get
      PROVE  DOMAIN DecoderDefaults(c)[idx] = Fields(idx)
  BY DEF DecoderDefaults, Fields, Ports, DecSettingsAVC_Get, DecoderIndices, CommonIndices, CropIndices,
    PictureSizeIndices, SmallPicture, Raster420, Off
<1>3. QED
  BY <1>1, <1>2

LEMMA DefaultsGood ==
  /\ \A c \in Encoders : \A idx \in EncSettingsAVC_Get \cup EncSettingsMJPEG_Get : Good(idx, EncoderDefaults(c)[idx])
  /\ \A c \in Decoders : \A idx \in DecSettingsAVC_Get : Good(idx, DecoderDefaults(c)[idx])
<1>1. ASSUME NEW c \in Encoders, NEW idx \in EncSettingsAVC_Get \cup EncSettingsMJPEG_Get
      PROVE  Good(idx, EncoderDefaults(c)[idx])
  BY <1>1 DEF EncoderDefaults, Good, EncSettingsAVC_Get, ItuEncoderIndices, EncoderIndices, CommonIndices,
    EncSettingsMJPEG_Get, DecoderIndices, SeiIndices, FilterOffsetIndices, CropIndices, ColourIndices, PictureSizeIndices,
    DefaultGroupOfPictures, DefaultLookAhead, DefaultSlices
<1>2. ASSUME NEW c \in Decoders, NEW idx \in DecSettingsAVC_Get
      PROVE  Good(idx, DecoderDefaults(c)[idx])
  BY DEF DecoderDefaults, Good, DecSettingsAVC_Get, DecoderIndices, CommonIndices
<1>3. QED
  BY <1>1, <1>2

LEMMA DefaultsFor ==
  ASSUME NEW c \in Codecs
  PROVE  /\ c \in Encoders => Stored(c) \subseteq EncSettingsAVC_Get \cup EncSettingsMJPEG_Get
         /\ c \in Decoders => Stored(c) \subseteq DecSettingsAVC_Get
         /\ "MAX_PICTURE_SIZES" \notin Stored(c)
         /\ c \in Decoders <=> c \notin Encoders
BY DEF Codecs, Encoders, Decoders, Stored, Readable, Settable, EncSettingsAVC_Get, EncSettingsAVC_Set,
  EncSettingsHEVC_Get, EncSettingsHEVC_Set, EncSettingsMJPEG_Get, EncSettingsMJPEG_Set, DecSettingsAVC_Get,
  DecSettingsAVC_Set, DecSettingsHEVC_Get, DecSettingsHEVC_Set, DecSettingsJPEG_Get, DecSettingsJPEG_Set,
  ItuEncoderIndices, EncoderIndices, DecoderIndices, CommonIndices, SeiIndices, ColourIndices,
  FilterOffsetIndices, CropIndices, PictureSizeIndices

-----------------------------------------------------------------------------
(* Strides.                                                                 *)
LEMMA RoundUpFacts ==
  ASSUME NEW n \in Int, NEW a \in Nat \ {0}
  PROVE  RoundUp(n, a) \in Int /\ RoundUp(n, a) >= n /\ RoundUp(n, a) % a = 0
<1>1. n + a - 1 \in Int /\ (n + a - 1) \div a \in Int
  OBVIOUS
<1>2. ((n + a - 1) \div a) * a >= n
  BY SMTT(30)
<1> DEFINE q == (n + a - 1) \div a
<1> HIDE DEF q
<1>3. q \in Int => q * a \in Int /\ (q * a) % a = 0
  OBVIOUS
<1>4. QED
  BY <1>1, <1>2, <1>3 DEF RoundUp, q

LEMMA LargerFacts ==
  ASSUME NEW x \in Int, NEW y \in Int
  PROVE  Larger(x, y) \in {x, y} /\ Larger(x, y) >= x /\ Larger(x, y) >= y
BY DEF Larger

LEMMA MinStrideFacts ==
  ASSUME NEW w \in Int, NEW format
  PROVE  MinStride(w, format) \in Int /\ MinStride(w, format) % HAlign = 0
<1>1. MinPitch(w, format) \in Int
  <2>1. /\ (IF format.bitdepth > 8 THEN 2 ELSE 1) \in {1, 2}
        /\ (IF Tiled(format) THEN 4 ELSE 1) \in {1, 4}
    OBVIOUS
  <2>2. QED
    BY <2>1 DEF MinPitch
<1>2. QED
  BY <1>1, RoundUpFacts, AlignmentsAssumption DEF MinStride

LEMMA ResetSound ==
  ASSUME NEW c \in Codecs
  PROVE  Sound(c, Reset(c))
<1>1. Shaped(c, Reset(c))
  BY DefaultsShaped, DefaultsFor DEF Reset, Shaped
<1>2. Reset(c).RESOLUTION = SmallPicture /\ Reset(c).FORMAT = Raster420
  <2>1. {"RESOLUTION", "FORMAT"} \subseteq Stored(c)
    BY IndicesOfCodec
  <2>2. c \in Encoders => EncoderDefaults(c).RESOLUTION = SmallPicture /\ EncoderDefaults(c).FORMAT = Raster420
    BY DEF EncoderDefaults, EncSettingsAVC_Get, ItuEncoderIndices, EncoderIndices, CommonIndices, SeiIndices,
      ColourIndices, FilterOffsetIndices, CropIndices, PictureSizeIndices, EncSettingsMJPEG_Get
  <2>3. DecoderDefaults(c).RESOLUTION = SmallPicture /\ DecoderDefaults(c).FORMAT = Raster420
    BY DEF DecoderDefaults
  <2>4. QED
    BY <2>1, <2>2, <2>3 DEF Reset
<1>3. MinStride(176, Raster420) = RoundUp(176, HAlign)
  BY DEF MinStride, MinPitch, Raster420, Tiled
<1>4. /\ RoundUp(176, HAlign) \in Int /\ RoundUp(176, HAlign) % HAlign = 0
      /\ RoundUp(144, VAlign) \in Int /\ RoundUp(144, VAlign) % VAlign = 0 /\ RoundUp(144, VAlign) >= 144
  BY RoundUpFacts, AlignmentsAssumption
<1>5. Fits(Reset(c))
  <2>1. RoundUp(176, HAlign) >= 176
    BY RoundUpFacts, AlignmentsAssumption
  <2>2. SmallPicture \in Sizes
    BY <1>4, <2>1 DEF SmallPicture, Sizes
  <2>3. QED
    BY <1>2, <1>3, <1>4, <2>2 DEF Fits, SmallPicture
<1>6. Counted(c, Reset(c))
  BY DefaultsGood, DefaultsFor DEF Reset, Counted
<1>7. QED
  BY <1>1, <1>5, <1>6 DEF Sound

LEMMA SizesFields ==
  ASSUME NEW r \in Sizes
  PROVE  DOMAIN r = Fields("RESOLUTION")
<1>1. Fields("RESOLUTION") = {"width", "height", "stride", "sliceHeight"}
  BY DEF Fields, CropIndices, PictureSizeIndices
<1>2. DOMAIN r = {"width", "height", "stride", "sliceHeight"}
  BY DEF Sizes
<1>3. QED
  BY <1>1, <1>2

LEMMA UpdateFormatFits ==
  ASSUME NEW m, {"RESOLUTION", "FORMAT"} \subseteq DOMAIN m, Fits(m), NEW v
  PROVE  /\ Fits(UpdateFormat(v, m)) /\ DOMAIN UpdateFormat(v, m) = DOMAIN m
         /\ \A idx \in DOMAIN m \ {"RESOLUTION", "FORMAT"} : UpdateFormat(v, m)[idx] = m[idx]
         /\ UpdateFormat(v, m).FORMAT = v
<1> DEFINE r == m.RESOLUTION
           new == UpdateFormat(v, m)
           stride == Larger(MinStride(r.width, v), r.stride)
<1>1. r \in Sizes /\ r.stride % HAlign = 0 /\ r.sliceHeight >= r.height /\ r.sliceHeight % VAlign = 0
  BY DEF Fits
<1>2. /\ new.FORMAT = v /\ new.RESOLUTION = [r EXCEPT !.stride = stride]
      /\ DOMAIN new = DOMAIN m
      /\ \A idx \in DOMAIN m \ {"RESOLUTION", "FORMAT"} : new[idx] = m[idx]
  BY DEF UpdateFormat
<1>3. MinStride(r.width, v) \in Int /\ MinStride(r.width, v) % HAlign = 0
  BY <1>1, MinStrideFacts DEF Sizes
<1>4. stride \in Nat /\ stride >= MinStride(r.width, v) /\ stride % HAlign = 0
  BY <1>1, <1>3, LargerFacts DEF Sizes
<1> HIDE DEF new, stride
<1>5. /\ new.RESOLUTION \in Sizes /\ new.RESOLUTION.stride = stride
      /\ new.RESOLUTION.width = r.width /\ new.RESOLUTION.height = r.height
      /\ new.RESOLUTION.sliceHeight = r.sliceHeight
  BY <1>1, <1>2, <1>4 DEF Sizes
<1>6. Fits(new)
  BY <1>1, <1>2, <1>4, <1>5 DEF Fits
<1>7. QED
  BY <1>2, <1>6 DEF new

LEMMA UpdateResolutionFits ==
  ASSUME NEW m, {"RESOLUTION", "FORMAT"} \subseteq DOMAIN m, Fits(m), NEW v \in Sizes
  PROVE  /\ Fits(UpdateResolution(v, m)) /\ DOMAIN UpdateResolution(v, m) = DOMAIN m
         /\ \A idx \in DOMAIN m \ {"RESOLUTION"} : UpdateResolution(v, m)[idx] = m[idx]
<1> DEFINE new == UpdateResolution(v, m)
           stride == Larger(MinStride(v.width, m.FORMAT), RoundUp(v.stride, HAlign))
           sliceHeight == Larger(RoundUp(v.height, VAlign), RoundUp(v.sliceHeight, VAlign))
<1>1. /\ new.RESOLUTION = [width |-> v.width, height |-> v.height, stride |-> stride, sliceHeight |-> sliceHeight]
      /\ DOMAIN new = DOMAIN m /\ new.FORMAT = m.FORMAT
      /\ \A idx \in DOMAIN m \ {"RESOLUTION"} : new[idx] = m[idx]
  BY DEF UpdateResolution
<1>2. v.width \in Nat /\ v.height \in Nat /\ v.stride \in Nat /\ v.sliceHeight \in Nat
  BY DEF Sizes
<1>3. stride \in Nat /\ stride >= MinStride(v.width, m.FORMAT) /\ stride % HAlign = 0
  <2>1. /\ MinStride(v.width, m.FORMAT) \in Int /\ MinStride(v.width, m.FORMAT) % HAlign = 0
        /\ RoundUp(v.stride, HAlign) \in Int /\ RoundUp(v.stride, HAlign) % HAlign = 0
        /\ RoundUp(v.stride, HAlign) >= v.stride
    BY <1>2, MinStrideFacts, RoundUpFacts, AlignmentsAssumption
  <2>2. QED
    BY <1>2, <2>1, LargerFacts
<1>4. sliceHeight \in Nat /\ sliceHeight >= v.height /\ sliceHeight % VAlign = 0
  <2>1. /\ RoundUp(v.height, VAlign) \in Int /\ RoundUp(v.height, VAlign) >= v.height
        /\ RoundUp(v.height, VAlign) % VAlign = 0
        /\ RoundUp(v.sliceHeight, VAlign) \in Int /\ RoundUp(v.sliceHeight, VAlign) % VAlign = 0
    BY <1>2, RoundUpFacts, AlignmentsAssumption
  <2>2. QED
    BY <1>2, <2>1, LargerFacts
<1> HIDE DEF new, stride, sliceHeight
<1>5. Fits(new)
  BY <1>1, <1>2, <1>3, <1>4 DEF Fits, Sizes
<1>6. QED
  BY <1>1, <1>5 DEF new

-----------------------------------------------------------------------------
(* Storing keeps the settings sound.                                        *)
LEMMA ReplaceKeeps ==
  ASSUME NEW c \in Codecs, NEW m, Sound(c, m), NEW idx \in Stored(c) \ {"RESOLUTION", "FORMAT"}, NEW v,
         idx # "LOOP_FILTER" => DOMAIN v = Fields(idx), Good(idx, v)
  PROVE  Sound(c, [m EXCEPT ![idx] = v])
<1> DEFINE new == [m EXCEPT ![idx] = v]
<1>1. {"RESOLUTION", "FORMAT"} \subseteq Stored(c) /\ DOMAIN m = Stored(c)
  BY IndicesOfCodec DEF Sound, Shaped
<1>2. DOMAIN new = Stored(c) /\ \A i \in Stored(c) : new[i] = IF i = idx THEN v ELSE m[i]
  BY <1>1
<1> HIDE DEF new
<1>3. new.RESOLUTION = m.RESOLUTION /\ new.FORMAT = m.FORMAT
  BY <1>1, <1>2
<1>4. Fits(new)
  BY <1>3 DEF Sound, Fits
<1>5. Shaped(c, new)
  BY <1>2 DEF Sound, Shaped
<1>6. Counted(c, new)
  BY <1>2 DEF Sound, Counted
<1>7. QED
  BY <1>4, <1>5, <1>6 DEF Sound, new

LEMMA StoreKeeps ==
  ASSUME NEW c \in Codecs, NEW m, Sound(c, m), NEW idx \in Settable[c], NEW v,
         idx # "LOOP_FILTER" => DOMAIN v = Fields(idx), idx = "RESOLUTION" => v \in Sizes, Good(idx, v)
  PROVE  Sound(c, Store(c, idx, v, m))
<1>1. /\ {"RESOLUTION", "FORMAT"} \subseteq Stored(c) /\ DOMAIN m = Stored(c)
      /\ idx # "MAX_PICTURE_SIZES" => idx \in Stored(c)
      /\ idx = "MAX_PICTURE_SIZES" => "MAX_PICTURE_SIZES_IN_BITS" \in Stored(c)
      /\ idx = "GROUP_OF_PICTURES" => "RECOVERY_POINT_SEI" \in Stored(c)
  BY IndicesOfCodec DEF Sound, Shaped
<1>2. CASE idx = "FORMAT"
  <2> DEFINE new == UpdateFormat(v, m)
  <2>1. Store(c, idx, v, m) = new
    BY <1>2 DEF Store
  <2>2. /\ Fits(new) /\ DOMAIN new = Stored(c) /\ new.FORMAT = v
        /\ \A i \in Stored(c) \ {"RESOLUTION", "FORMAT"} : new[i] = m[i]
    BY <1>1, UpdateFormatFits DEF Sound
  <2> HIDE DEF new
  <2>3. DOMAIN new.RESOLUTION = Fields("RESOLUTION")
    BY <2>2, SizesFields DEF Fits
  <2>4. Shaped(c, new)
    BY <1>2, <2>2, <2>3 DEF Shaped, Sound
  <2>5. Counted(c, new)
    BY <2>2 DEF Counted, Sound, Good
  <2>6. QED
    BY <2>1, <2>2, <2>4, <2>5 DEF Sound
<1>3. CASE idx = "RESOLUTION"
  <2> DEFINE new == UpdateResolution(v, m)
  <2>1. Store(c, idx, v, m) = new
    BY <1>3 DEF Store
  <2>2. /\ Fits(new) /\ DOMAIN new = Stored(c)
        /\ \A i \in Stored(c) \ {"RESOLUTION"} : new[i] = m[i]
    BY <1>1, <1>3, UpdateResolutionFits DEF Sound
  <2> HIDE DEF new
  <2>3. DOMAIN new.RESOLUTION = Fields("RESOLUTION")
    BY <2>2, SizesFields DEF Fits
  <2>4. Shaped(c, new)
    BY <2>2, <2>3 DEF Shaped, Sound
  <2>5. Counted(c, new)
    BY <2>2 DEF Counted, Sound, Good
  <2>6. QED
    BY <2>1, <2>2, <2>4, <2>5 DEF Sound
<1>4. CASE idx = "GROUP_OF_PICTURES"
  <2> DEFINE first == [m EXCEPT !.GROUP_OF_PICTURES = v]
             sei == [value |-> IsGDREnabled(v)]
  <2>1. Sound(c, first)
    BY <1>1, <1>4, ReplaceKeeps
  <2>2. DOMAIN sei = Fields("RECOVERY_POINT_SEI") /\ \A x : Good("RECOVERY_POINT_SEI", x)
    BY DEF Fields, Good, CropIndices, PictureSizeIndices
  <2> HIDE DEF first, sei
  <2>3. Sound(c, [first EXCEPT !.RECOVERY_POINT_SEI = sei])
    BY <1>1, <1>4, <2>1, <2>2, ReplaceKeeps
  <2>4. Store(c, idx, v, m) = [first EXCEPT !.RECOVERY_POINT_SEI = sei]
    BY <1>4 DEF Store, UpdateGroupOfPictures, first, sei
  <2>5. QED
    BY <2>3, <2>4
<1>5. CASE idx = "MAX_PICTURE_SIZES"
  <2>1. DOMAIN ScaleSizes(v, 1000) = Fields("MAX_PICTURE_SIZES_IN_BITS")
        /\ Good("MAX_PICTURE_SIZES_IN_BITS", ScaleSizes(v, 1000))
    BY DEF ScaleSizes, Good, Fields, CropIndices, PictureSizeIndices
  <2>2. Store(c, idx, v, m) = [m EXCEPT !.MAX_PICTURE_SIZES_IN_BITS = ScaleSizes(v, 1000)]
    BY <1>5 DEF Store
  <2>3. QED
    BY <1>1, <1>5, <2>1, <2>2, ReplaceKeeps
<1>6. CASE idx \notin {"FORMAT", "RESOLUTION", "GROUP_OF_PICTURES", "MAX_PICTURE_SIZES"}
  <2>1. Store(c, idx, v, m) \in {m, [m EXCEPT ![idx] = v]}
    BY <1>6 DEF Store, UpdateConstrainedIntraPrediction, UpdateLoopFilter
  <2>2. Sound(c, [m EXCEPT ![idx] = v])
    BY <1>1, <1>6, ReplaceKeeps
  <2>3. QED
    BY <2>1, <2>2
<1>7. QED
  BY <1>2, <1>3, <1>4, <1>5, <1>6

LEMMA SetKeeps ==
  ASSUME NEW c \in Codecs, NEW m, Sound(c, m), NEW idx, NEW v,
         idx # "LOOP_FILTER" => DOMAIN v = Fields(idx), Typed(idx, v)
  PROVE  Sound(c, Set(c, idx, v, m).media)
<1> DEFINE given == IF idx = "QUANTIZATION_PARAMETER" THEN UpdateQuantizationParameter(v) ELSE v
<1>1. DOMAIN given = DOMAIN v
  BY DEF UpdateQuantizationParameter
<1>2. Typed(idx, given)
  BY DEF Typed, NumberFields
<1> HIDE DEF given
<1>3. idx \in Settable[c] /\ Accepts(c, idx, given, m) => Sound(c, Store(c, idx, given, m))
  BY <1>1, <1>2, StoreKeeps, AcceptedGood DEF Typed
<1>4. Set(c, idx, v, m).media \in {m, IF idx \in Settable[c] /\ Accepts(c, idx, given, m) THEN Store(c, idx, given, m) ELSE m}
  BY DEF Set, Answered, given
<1>5. QED
  BY <1>3, <1>4

-----------------------------------------------------------------------------
(* Reading and merging.                                                     *)
LEMMA GetFields ==
  ASSUME NEW c \in Codecs, NEW m, Sound(c, m), NEW idx \in Readable[c] \ {"LOOP_FILTER"}
  PROVE  DOMAIN Get(c, idx, m) = Fields(idx) /\ Typed(idx, Get(c, idx, m))
<1>1. idx # "MAX_PICTURE_SIZES" => idx \in Stored(c)
  BY IndicesOfCodec
<1>2. CASE idx = "MAX_PICTURE_SIZES"
  BY <1>2 DEF Get, InThousands, Fields, CropIndices, PictureSizeIndices, Typed, NumberFields
<1>3. CASE idx = "RESOLUTION"
  <2>1. m.RESOLUTION \in Sizes
    BY DEF Sound, Fits
  <2>2. Get(c, idx, m) \in Sizes
    BY <1>3, <2>1 DEF Get, Sizes
  <2>3. QED
    BY <1>3, <2>2, SizesFields DEF Typed, NumberFields
<1>4. CASE idx \notin {"MAX_PICTURE_SIZES", "RESOLUTION"}
  <2>1. Get(c, idx, m) = m[idx] /\ DOMAIN m[idx] = Fields(idx) /\ Good(idx, m[idx])
    BY <1>1, <1>4 DEF Get, Sound, Shaped, Counted
  <2>2. QED
    BY <1>4, <2>1 DEF Good, Typed, NumberFields
<1>5. QED
  BY <1>2, <1>3, <1>4

LEMMA MergeFields == \A new, old : DOMAIN Merge(new, old) = DOMAIN old
BY DEF Merge

LEMMA MergeSizes ==
  ASSUME NEW old \in Sizes, NEW new, \A f \in DOMAIN new : new[f] \in Nat
  PROVE  Merge(new, old) \in Sizes
BY DEF Merge, Sizes

LEMMA KeepOrderFields == \A given, bitrate : DOMAIN KeepOrder(given, bitrate) = DOMAIN bitrate
BY DEF KeepOrder

(* What is written where a number is stored is one.                          *)
Numbers(w) ==
  /\ \A f \in NumberFields(w.index) \cap DOMAIN w.value : w.value[f] \in Int
  /\ w.index = "RESOLUTION" => \A f \in DOMAIN w.value : w.value[f] \in Nat

LEMMA WriteWindowKeeps ==
  ASSUME NEW c \in Codecs, NEW m, Sound(c, m), NEW w, Numbers(w)
  PROVE  Sound(c, WriteWindow(c, w, m).media)
<1> DEFINE old == Get(c, w.index, m)
           merged == Merge(w.value, old)
           v == IF w.index = "BITRATE" THEN KeepOrder(w.value, merged) ELSE merged
<1>1. CASE Unconvertible(w)
  BY <1>1 DEF WriteWindow, Answered
<1>2. CASE ~Unconvertible(w) /\ w.index \notin Readable[c]
  <2>1. WriteWindow(c, w, m) = Set(c, w.index, w.value, m)
    BY <1>2 DEF WriteWindow
  <2>2. CASE w.index = "LOOP_FILTER"
    BY <2>1, <2>2, SetKeeps DEF Typed, NumberFields
  <2>3. CASE w.index # "LOOP_FILTER"
    <3>1. w.index \notin Settable[c]
      BY <1>2, <2>3, IndicesOfCodec
    <3>2. QED
      BY <2>1, <3>1 DEF Set, Answered
  <2>4. QED
    BY <2>2, <2>3
<1>3. CASE ~Unconvertible(w) /\ w.index \in Readable[c]
  <2>1. WriteWindow(c, w, m) = Set(c, w.index, v, m)
    BY <1>3 DEF WriteWindow
  <2>2. w.index # "LOOP_FILTER" => DOMAIN v = Fields(w.index)
    BY <1>3, GetFields, MergeFields, KeepOrderFields
  <2>3. w.index # "LOOP_FILTER" => Typed(w.index, old) /\ DOMAIN old = Fields(w.index)
    BY <1>3, GetFields
  <2>4. Typed(w.index, v)
    <3>1. w.index = "RESOLUTION" => v \in Sizes
      BY <2>3, MergeSizes DEF Numbers, Typed
    <3>2. ASSUME NEW f \in NumberFields(w.index) PROVE v[f] \in Int
      <4>1. w.index \notin {"LOOP_FILTER", "BITRATE"}
        BY <3>2 DEF NumberFields
      <4>2. v = merged /\ f \in DOMAIN old /\ old[f] \in Int
        BY <2>3, <4>1, NumbersAreFields DEF Typed
      <4>3. f \in DOMAIN w.value => w.value[f] \in Int
        BY DEF Numbers
      <4>4. merged[f] = IF f \in DOMAIN w.value THEN w.value[f] ELSE old[f]
        BY <4>2 DEF Merge
      <4> HIDE DEF v, merged, old
      <4>5. QED
        BY <4>2, <4>3, <4>4
    <3>3. QED
      BY <3>1, <3>2 DEF Typed
  <2> HIDE DEF v
  <2>5. QED
    BY <2>1, <2>2, <2>4, SetKeeps
<1>4. QED
  BY <1>1, <1>2, <1>3

LEMMA AfterWriteKeeps ==
  ASSUME NEW c \in Codecs, NEW w, Numbers(w), NEW sofar, Sound(c, sofar.media)
  PROVE  Sound(c, AfterWrite(c, w, sofar).media)
<1>1. Sound(c, WriteWindow(c, w, sofar.media).media)
  BY WriteWindowKeeps
<1>2. AfterWrite(c, w, sofar) \in {sofar, WriteWindow(c, w, sofar.media)}
  BY DEF AfterWrite
<1>3. QED
  BY <1>1, <1>2

-----------------------------------------------------------------------------
(* The writes of a parameter, one after the other.                           *)
\* a set of natural numbers has a least one
LEMMA Least ==
  ASSUME NEW T \in SUBSET Nat, T # {}
  PROVE  \E n \in T : \A m \in T : n <= m
<1> DEFINE R == OpToRel(<, Nat)
<1>1. IsWellFoundedOn(R, Nat)
  BY NatLessThanWellFounded
<1>2. \A n \in T, m \in T : m < n => <<m, n>> \in R
  BY DEF OpToRel
<1> HIDE DEF R
<1>3. PICK n \in T : \A m \in T : ~(<<m, n>> \in R)
  BY <1>1, WFMin
<1>4. \A m \in T : ~(m < n)
  BY <1>2, <1>3
<1>5. QED
  BY <1>4

LEMMA Induction ==
  ASSUME NEW P, 0 \in P, NEW N \in Nat, \A n \in 0 .. N - 1 : n \in P => n + 1 \in P
  PROVE  N \in P
<1> SUFFICES ASSUME (0 .. N) \ P # {} PROVE FALSE
  OBVIOUS
<1>1. PICK n \in (0 .. N) \ P : \A m \in (0 .. N) \ P : n <= m
  <2>1. (0 .. N) \ P \in SUBSET Nat
    OBVIOUS
  <2>2. QED
    BY <2>1, Least
<1>2. n # 0 /\ n - 1 \in 0 .. N - 1
  BY <1>1
<1>3. n - 1 \in P
  BY <1>1, <1>2
<1>4. QED
  BY <1>1, <1>2, <1>3

Answer(f, c, writes, m, n) ==
  f[n] = IF n = 0 THEN Answered("None", m) ELSE AfterWrite(c, writes[n], f[n - 1])

Runs(f, c, writes, m, N) ==
  f = [n \in 0 .. N |-> IF n = 0 THEN Answered("None", m) ELSE AfterWrite(c, writes[n], f[n - 1])]

\* the answers after each write exist, so Apply gives the last one
LEMMA AnswersExist ==
  ASSUME NEW c, NEW writes, NEW m, NEW N \in Nat
  PROVE  \E f : Runs(f, c, writes, m, N)
<1> DEFINE Upto(f, k) == DOMAIN f = 0 .. k /\ \A n \in 0 .. k : Answer(f, c, writes, m, n)
           P == {k \in 0 .. N : \E f : Upto(f, k)}
<1>1. 0 \in P
  <2> DEFINE g == [n \in 0 .. 0 |-> Answered("None", m)]
  <2>1. Upto(g, 0)
    BY DEF Answer
  <2> HIDE DEF g
  <2>2. QED
    BY <2>1
<1>2. ASSUME NEW k \in 0 .. N - 1, k \in P PROVE k + 1 \in P
  <2>1. PICK f : Upto(f, k)
    BY <1>2
  <2> DEFINE g == [n \in 0 .. k + 1 |-> IF n = k + 1 THEN AfterWrite(c, writes[n], f[k]) ELSE f[n]]
  <2>2. DOMAIN g = 0 .. k + 1 /\ \A n \in 0 .. k + 1 : g[n] = IF n = k + 1 THEN AfterWrite(c, writes[n], f[k]) ELSE f[n]
    OBVIOUS
  <2> HIDE DEF g
  <2>3. ASSUME NEW n \in 0 .. k + 1 PROVE Answer(g, c, writes, m, n)
    <3>1. CASE n = k + 1
      <4>1. n # 0 /\ n - 1 = k /\ k \in 0 .. k + 1 /\ k # k + 1
        BY <3>1
      <4>2. g[n] = AfterWrite(c, writes[n], f[k]) /\ g[n - 1] = f[k]
        BY <2>2, <3>1, <4>1
      <4>3. QED
        BY <4>1, <4>2 DEF Answer
    <3>2. CASE n # k + 1
      <4>1. n \in 0 .. k /\ (n # 0 => n - 1 \in 0 .. k + 1 /\ n - 1 # k + 1)
        BY <3>2
      <4>2. g[n] = f[n] /\ (n # 0 => g[n - 1] = f[n - 1])
        BY <2>2, <3>2, <4>1
      <4>3. Answer(f, c, writes, m, n)
        BY <2>1, <4>1
      <4>4. QED
        BY <4>1, <4>2, <4>3 DEF Answer
    <3>3. QED
      BY <3>1, <3>2
  <2>4. Upto(g, k + 1)
    BY <2>2, <2>3
  <2>5. QED
    BY <2>4
<1>3. N \in P
  <2> HIDE DEF P
  <2>1. \A k \in 0 .. N - 1 : k \in P => k + 1 \in P
    BY <1>2
  <2>2. QED
    BY <1>1, <2>1, Induction
<1>4. PICK f : Upto(f, N)
  BY <1>3
<1> DEFINE g == [n \in 0 .. N |-> f[n]]
<1>5. Runs(g, c, writes, m, N)
  <2>1. ASSUME NEW n \in 0 .. N
        PROVE  f[n] = IF n = 0 THEN Answered("None", m) ELSE AfterWrite(c, writes[n], g[n - 1])
    <3>1. Answer(f, c, writes, m, n)
      BY <1>4
    <3>2. n # 0 => n - 1 \in 0 .. N
      OBVIOUS
    <3>3. n # 0 => g[n - 1] = f[n - 1]
      BY <3>2
    <3> HIDE DEF g
    <3>4. QED
      BY <3>1, <3>3 DEF Answer
  <2>2. QED
    BY <2>1 DEF Runs
<1>6. QED
  BY <1>5

\* what Apply gives is the answer after the last write
Unfolded(p, port, c, v, m, N) ==
  \E f : /\ f[0] = Answered("None", m)
         /\ \A n \in 1 .. N : f[n] = AfterWrite(c, Writes(p, port, c, v)[n], f[n - 1])
         /\ Apply(p, port, c, v, m) = f[N]

LEMMA ApplyUnfolds ==
  ASSUME NEW p, NEW port, NEW c, NEW v, NEW m, NEW N \in Nat, Len(Writes(p, port, c, v)) = N
  PROVE  Unfolded(p, port, c, v, m, N)
<1> DEFINE writes == Writes(p, port, c, v)
           after == CHOOSE f : Runs(f, c, writes, m, N)
<1>1. Apply(p, port, c, v, m) = after[N]
  BY DEF Apply, ApplyAll, Runs
<1>2. Runs(after, c, writes, m, N)
  <2> HIDE DEF writes
  <2>1. \E f : Runs(f, c, writes, m, N)
    BY AnswersExist
  <2>2. QED
    BY <2>1
<1> HIDE DEF after, writes
<1>3. \A n \in 0 .. N : after[n] = IF n = 0 THEN Answered("None", m) ELSE AfterWrite(c, writes[n], after[n - 1])
  BY <1>2 DEF Runs
<1>4. QED
  BY <1>1, <1>3 DEF writes, Unfolded

-----------------------------------------------------------------------------
(* What a parameter writes.                                                 *)
Measured(p, port, v) ==
  /\ p \in Windows => DOMAIN v = WindowOf(port)[p].fields
  /\ p = "PortDefinition" => \A f \in {"width", "height", "stride", "sliceHeight", "xFramerate"} : v[f] \in Nat
  /\ p = "PortFormat" => v.xFramerate \in Nat
  /\ p = "Expertise" => v.nB \in Int /\ v.nP \in Nat
  /\ p = "LookAhead" => v.lookAhead \in Int
  /\ p = "Slices" => v.num \in Int

\* the conversions give numbers
LEMMA ClockNumbers ==
  ASSUME NEW rate \in Nat
  PROVE  ConvertOMXToMediaClock(rate).framerate \in Int /\ ConvertOMXToMediaClock(rate).clockratio \in Int
<1> DEFINE frames == CeilDiv(rate, Q16)
<1>1. frames \in Int
  BY Q16Assumption DEF CeilDiv
<1>2. rate = 0 => frames = 0
  BY Q16Assumption DEF CeilDiv
<1> HIDE DEF frames
<1>3. rate # 0 => RoundDiv(frames * 1000 * Q16, rate) \in Int
  <2> DEFINE a == frames * 1000 * Q16
  <2>1. a \in Int
    BY <1>1, Q16Assumption
  <2> HIDE DEF a
  <2>2. rate # 0 => a \div rate \in Int
    BY <2>1
  <2>3. QED
    BY <2>2 DEF RoundDiv, a
<1>4. QED
  BY <1>1, <1>2, <1>3 DEF ConvertOMXToMediaClock, frames

LEMMA RateNumbers ==
  ASSUME NEW clock, clock.framerate \in Nat, clock.clockratio \in Nat \ {0}
  PROVE  ConvertMediaToOMXFramerate(clock) \in Nat
<1> DEFINE a == clock.framerate * 1000 * Q16
           b == clock.clockratio
<1>1. a \in Nat /\ b \in Nat \ {0}
  BY Q16Assumption
<1> HIDE DEF a, b
<1>2. CeilDiv(a, b) \in Nat
  BY <1>1 DEF CeilDiv
<1>3. QED
  BY <1>2 DEF ConvertMediaToOMXFramerate, a, b

LEMMA GopNumbers ==
  ASSUME NEW gop, gop.b \in Nat, gop.length \in Nat, gop.length > gop.b
  PROVE  ConvertMediaToOMXBFrames(gop) \in Int /\ ConvertMediaToOMXPFrames(gop) \in Nat
BY DEF ConvertMediaToOMXBFrames, ConvertMediaToOMXPFrames

LEMMA FrameNumbers ==
  ASSUME NEW nB \in Int, NEW nP \in Nat
  PROVE  ConvertOMXToMediaBFrames(nB, nP) \in Int /\ ConvertOMXToMediaGopLength(nB, nP) \in Int
BY DEF ConvertOMXToMediaBFrames, ConvertOMXToMediaGopLength

LEMMA WindowsApart ==
  ASSUME NEW port \in Ports, NEW p \in Windows
  PROVE  /\ WindowOf(port)[p].index \notin {"RESOLUTION", "FORMAT", "CONSTRAINED_INTRA_PREDICTION", "LOOP_FILTER"}
         /\ p \notin {"PortDefinition", "PortFormat", "BufferMode", "Quantization", "Expertise",
                      "MaxPictureSize", "MaxPictureSizeInBits"}
BY DEF WindowOf, Windows, VideoSubframe, VideoLookAhead, VideoTwoPass, VideoBitrate, VideoMaxBitrate,
  VideoSceneChangeResilience, VideoSkipFrame, VideoCodedPictureBuffer, VideoQuantizationControl, VideoQuantizationTable,
  VideoQuantizationExtension, VideoAspectRatio, VideoLowBandwidth, VideoGopControl, VideoInstantaneousDecodingRefresh,
  VideoRecoveryPoint, VideoLongTerm, VideoFullRange, VideoPrefetchBuffer, VideoScalingList, VideoFillerData, VideoSlices,
  VideoModeCurrent, VideoColorPrimaries, VideoTransferCharacteristics, VideoColorMatrix, VideoMaxPictureSizes,
  VideoMaxPictureSizesInBits, VideoLoopFilterBeta, VideoLoopFilterTc, VideoDecodedPictureBuffer, VideoInternalEntropyBuffers,
  CommonSequencePictureMode, VideoInputParsed, PortEarlyCallback, PortSynchronization, VideoAccessUnitDelimiter,
  VideoBufferingPeriodSEI, VideoPictureTimingSEI, VideoRecoveryPointSEI, VideoMasteringDisplayColourVolumeSEI,
  VideoContentLightLevelSEI, VideoAlternativeTransferCharacteristicsSEI, VideoST209410SEI, VideoST209440SEI,
  VideoRateControlPlugin, VideoCrop, VideoOutputPosition, VideoStartCodeBytesAlignment, VideoRealtime, VideoUniformSliceType,
  ProfileLevel, Window, Value

\* the fields of a window are written as they were given
SetApart(idx, F) ==
  /\ F \subseteq Fields(idx)
  /\ idx = "BITRATE" => ~({"target", "max"} \subseteq F)
  /\ idx = "QUANTIZATION_PARAMETER" => F \cap {"deltaIP", "deltaPB"} = {}

\* the windows on an index that is one value
ValueIndices ==
  {"SUBFRAME", "ASPECT_RATIO", "LOW_BANDWIDTH", "VIDEO_FULL_RANGE", "CACHE_LEVEL2", "SCALING_LIST",
   "FILLER_DATA", "VIDEO_MODE", "COLOR_PRIMARIES", "TRANSFER_CHARACTERISTICS", "COLOUR_MATRIX",
   "LOOP_FILTER_BETA", "LOOP_FILTER_TC", "DECODED_PICTURE_BUFFER", "INTERNAL_ENTROPY_BUFFER",
   "SEQUENCE_PICTURE_MODE", "INPUT_PARSED", "LLP2_EARLY_CB", "INPUT_SYNCHRONIZATION",
   "ACCESS_UNIT_DELIMITER", "BUFFERING_PERIOD_SEI", "PICTURE_TIMING_SEI", "RECOVERY_POINT_SEI",
   "MASTERING_DISPLAY_COLOUR_VOLUME_SEI", "CONTENT_LIGHT_LEVEL_SEI",
   "ALTERNATIVE_TRANSFER_CHARACTERISTICS_SEI", "ST2094_10_SEI", "ST2094_40_SEI",
   "START_CODE_BYTES_ALIGNMENT", "REALTIME", "UNIFORM_SLICE_TYPE"}
ValueWindows ==
  {"Subframe", "AspectRatio", "LowBandwidth", "FullRange", "PrefetchBuffer", "ScalingList", "FillerData",
   "InterlaceFormatCurrent", "ColorPrimaries", "TransferCharacteristics", "ColorMatrix", "LoopFilterBeta",
   "LoopFilterTc", "DecodedPictureBuffer", "InternalEntropyBuffers", "SequencePictureMode", "InputParsed",
   "EarlyCallback", "Synchronization", "AccessUnitDelimiter", "BufferingPeriodSEI", "PictureTimingSEI",
   "RecoveryPointSEI", "MasteringDisplayColourVolumeSEI", "ContentLightLevelSEI",
   "AlternativeTransferCharacteristicsSEI", "ST209410SEI", "ST209440SEI", "StartCodeBytesAlignment",
   "Realtime", "UniformSliceType"}

LEMMA ValueWindowFields ==
  ASSUME NEW port, NEW p \in ValueWindows
  PROVE  WindowOf(port)[p].index \in ValueIndices /\ WindowOf(port)[p].fields = {"value"}
BY DEF ValueWindows, ValueIndices, WindowOf, Window, Value,
  VideoSubframe, VideoAspectRatio, VideoLowBandwidth, VideoFullRange, VideoPrefetchBuffer,
  VideoScalingList, VideoFillerData, VideoModeCurrent, VideoColorPrimaries, VideoTransferCharacteristics,
  VideoColorMatrix, VideoLoopFilterBeta, VideoLoopFilterTc, VideoDecodedPictureBuffer,
  VideoInternalEntropyBuffers, CommonSequencePictureMode, VideoInputParsed, PortEarlyCallback,
  PortSynchronization, VideoAccessUnitDelimiter, VideoBufferingPeriodSEI, VideoPictureTimingSEI,
  VideoRecoveryPointSEI, VideoMasteringDisplayColourVolumeSEI, VideoContentLightLevelSEI,
  VideoAlternativeTransferCharacteristicsSEI, VideoST209410SEI, VideoST209440SEI,
  VideoStartCodeBytesAlignment, VideoRealtime, VideoUniformSliceType

LEMMA WindowFields ==
  ASSUME NEW port \in Ports, NEW p \in Windows
  PROVE  /\ SetApart(WindowOf(port)[p].index, WindowOf(port)[p].fields)
         /\ WindowOf(port)[p].index = "MAX_PICTURE_SIZES" =>
              p = "MaxPictureSizes" /\ WindowOf(port)[p].fields = {"i", "p", "b"}
         /\ \A f \in NumberFields(WindowOf(port)[p].index) \cap WindowOf(port)[p].fields :
              (p = "LookAhead" /\ f = "lookAhead") \/ (p = "Slices" /\ f = "num")
<1> DEFINE idx == WindowOf(port)[p].index
           F == WindowOf(port)[p].fields
<1> USE DEF Window
<1>1. CASE p \in ValueWindows
  <2>1. idx \in ValueIndices /\ F = {"value"}
    BY <1>1, ValueWindowFields
  <2> HIDE DEF idx, F
  <2>2. /\ Fields(idx) = {"value"} /\ idx \notin {"BITRATE", "QUANTIZATION_PARAMETER", "MAX_PICTURE_SIZES"}
        /\ NumberFields(idx) = {}
    BY <2>1 DEF ValueIndices, Fields, CropIndices, PictureSizeIndices, NumberFields
  <2>3. QED
    BY <2>1, <2>2 DEF SetApart, idx, F
<1>2. CASE p \in {"Bitrate", "MaxBitrate", "SceneChangeResilience", "SkipFrame", "CodedPictureBuffer"}
  <2>1. idx = "BITRATE"
        /\ F \in {{"target", "mode"},
                   {"max", "quality"},
                   {"resilient"},
                   {"skip", "maxSkip"},
                   {"cpb", "ird"}}
    BY <1>2 DEF WindowOf, VideoBitrate, VideoMaxBitrate, VideoSceneChangeResilience, VideoSkipFrame, VideoCodedPictureBuffer
  <2> HIDE DEF idx, F
  <2>2. QED
    BY <2>1 DEF SetApart, NumberFields, Fields, CropIndices, PictureSizeIndices, idx, F
<1>3. CASE p \in {"QuantizationControl", "QuantizationTable", "QuantizationExtension"}
  <2>1. idx = "QUANTIZATION_PARAMETER"
        /\ F \in {{"ctrl"},
                   {"table"},
                   {"min", "max"}}
    BY <1>3 DEF WindowOf, VideoQuantizationControl, VideoQuantizationTable, VideoQuantizationExtension
  <2> HIDE DEF idx, F
  <2>2. QED
    BY <2>1 DEF SetApart, NumberFields, Fields, CropIndices, PictureSizeIndices, idx, F
<1>4. CASE p \in {"GopControl", "InstantaneousDecodingRefresh", "RecoveryPoint", "LongTerm"}
  <2>1. idx = "GROUP_OF_PICTURES"
        /\ F \in {{"mode", "gdr"},
                   {"idrFrequency"},
                   {"rpFrequency"},
                   {"isLongTermEnabled", "ltFrequency"}}
    BY <1>4 DEF WindowOf, VideoGopControl, VideoInstantaneousDecodingRefresh, VideoRecoveryPoint, VideoLongTerm
  <2> HIDE DEF idx, F
  <2>2. QED
    BY <2>1 DEF SetApart, NumberFields, Fields, CropIndices, PictureSizeIndices, idx, F
<1>5. CASE p = "LookAhead"
  <2>1. idx = "LOOKAHEAD" /\ F = {"lookAhead", "sceneChange"}
    BY <1>5 DEF WindowOf, VideoLookAhead
  <2> HIDE DEF idx, F
  <2>2. SetApart(idx, F) /\ idx # "MAX_PICTURE_SIZES"
    BY <2>1 DEF SetApart, Fields, CropIndices, PictureSizeIndices
  <2>3. NumberFields(idx) = {"lookAhead"}
    BY <2>1 DEF NumberFields
  <2>4. \A f \in NumberFields(idx) \cap F : p = "LookAhead" /\ f = "lookAhead"
    BY <1>5, <2>3
  <2>5. /\ SetApart(idx, F)
        /\ idx = "MAX_PICTURE_SIZES" => p = "MaxPictureSizes" /\ F = {"i", "p", "b"}
        /\ \A f \in NumberFields(idx) \cap F : (p = "LookAhead" /\ f = "lookAhead") \/ (p = "Slices" /\ f = "num")
    BY <2>2, <2>4
  <2>6. QED
    BY <2>5 DEF idx, F
<1>6. CASE p = "TwoPass"
  <2>1. idx = "TWOPASS" /\ F = {"nPass", "sLogFile"}
    BY <1>6 DEF WindowOf, VideoTwoPass
  <2> HIDE DEF idx, F
  <2>2. QED
    BY <2>1 DEF SetApart, NumberFields, Fields, CropIndices, PictureSizeIndices, idx, F
<1>7. CASE p = "Slices"
  <2>1. idx = "SLICE_PARAMETER" /\ F = {"num", "size", "dependent"}
    BY <1>7 DEF WindowOf, VideoSlices
  <2> HIDE DEF idx, F
  <2>2. SetApart(idx, F) /\ idx # "MAX_PICTURE_SIZES"
    BY <2>1 DEF SetApart, Fields, CropIndices, PictureSizeIndices
  <2>3. NumberFields(idx) = {"num"}
    BY <2>1 DEF NumberFields
  <2>4. QED
    BY <1>7, <2>2, <2>3 DEF idx, F
<1>8. CASE p = "MaxPictureSizes"
  <2>1. idx = "MAX_PICTURE_SIZES" /\ F = {"i", "p", "b"}
    BY <1>8 DEF WindowOf, VideoMaxPictureSizes
  <2> HIDE DEF idx, F
  <2>2. SetApart(idx, F)
    BY <2>1 DEF SetApart, NumberFields, Fields, CropIndices, PictureSizeIndices
  <2>3. QED
    BY <1>8, <2>1, <2>2 DEF NumberFields, idx, F
<1>9. CASE p = "MaxPictureSizesInBits"
  <2>1. idx = "MAX_PICTURE_SIZES_IN_BITS" /\ F = {"i", "p", "b"}
    BY <1>9 DEF WindowOf, VideoMaxPictureSizesInBits
  <2> HIDE DEF idx, F
  <2>2. QED
    BY <2>1 DEF SetApart, NumberFields, Fields, CropIndices, PictureSizeIndices, idx, F
<1>10. CASE p = "RateControlPlugin"
  <2>1. idx = "RATE_CONTROL_PLUGIN" /\ F = {"dmaBuf", "dmaSize"}
    BY <1>10 DEF WindowOf, VideoRateControlPlugin
  <2> HIDE DEF idx, F
  <2>2. QED
    BY <2>1 DEF SetApart, NumberFields, Fields, CropIndices, PictureSizeIndices, idx, F
<1>11. CASE p = "Crop"
  <2>1. idx \in CropIndices /\ F = {"x", "y", "width", "height"}
    BY <1>11 DEF WindowOf, VideoCrop, CropIndices
  <2> HIDE DEF idx, F
  <2>2. QED
    BY <2>1 DEF SetApart, NumberFields, Fields, CropIndices, PictureSizeIndices, idx, F
<1>12. CASE p = "OutputPosition"
  <2>1. idx = "OUTPUT_POSITION" /\ F = {"x", "y"}
    BY <1>12 DEF WindowOf, VideoOutputPosition
  <2> HIDE DEF idx, F
  <2>2. QED
    BY <2>1 DEF SetApart, NumberFields, Fields, CropIndices, PictureSizeIndices, idx, F
<1>13. CASE p = "ProfileLevelCurrent"
  <2>1. idx = "PROFILE_LEVEL" /\ F = {"profile", "level"}
    BY <1>13 DEF WindowOf, ProfileLevel
  <2> HIDE DEF idx, F
  <2>2. QED
    BY <2>1 DEF SetApart, NumberFields, Fields, CropIndices, PictureSizeIndices, idx, F
<1>14. p \in ValueWindows \cup {"Bitrate", "MaxBitrate", "SceneChangeResilience", "SkipFrame", "CodedPictureBuffer",
         "QuantizationControl", "QuantizationTable", "QuantizationExtension", "GopControl",
         "InstantaneousDecodingRefresh", "RecoveryPoint", "LongTerm", "LookAhead", "TwoPass", "Slices",
         "MaxPictureSizes", "MaxPictureSizesInBits", "RateControlPlugin", "Crop", "OutputPosition", "ProfileLevelCurrent"}
  BY DEF Windows, WindowOf, ValueWindows
<1> HIDE DEF idx, F
<1>15. QED
  BY <1>1, <1>2, <1>3, <1>4, <1>5, <1>6, <1>7, <1>8, <1>9, <1>10, <1>11, <1>12, <1>13, <1>14 DEF idx, F

LEMMA WritesNumbers ==
  ASSUME NEW p \in Parameters, NEW port \in Ports, NEW c, NEW v, Measured(p, port, v)
  PROVE  /\ Len(Writes(p, port, c, v)) \in Nat
         /\ \A n \in 1 .. Len(Writes(p, port, c, v)) : Numbers(Writes(p, port, c, v)[n])
<1> DEFINE writes == Writes(p, port, c, v)
<1>1. CASE p = "PortDefinition"
  <2> DEFINE w1 == Write("FORMAT", v.format)
             w2 == Write("CLOCK", ConvertOMXToMediaClock(v.xFramerate))
             w3 == Write("RESOLUTION", Pick({"width", "height", "stride", "sliceHeight"}, v))
             w4 == IfKnown("BITRATE", [target |-> v.bitrate])
  <2>1. writes = <<w1, w2, w3, w4>>
    BY <1>1 DEF Writes, SetPortDefinition
  <2>2. Numbers(w1) /\ Numbers(w2) /\ Numbers(w4)
    BY <1>1, ClockNumbers DEF Numbers, NumberFields, Write, IfKnown, Measured
  <2>3. Numbers(w3)
    BY <1>1 DEF Numbers, NumberFields, Write, Pick, Measured
  <2> HIDE DEF w1, w2, w3, w4, writes
  <2>4. Len(writes) = 4 /\ writes[1] = w1 /\ writes[2] = w2 /\ writes[3] = w3 /\ writes[4] = w4
    BY <2>1
  <2>5. Len(writes) \in Nat /\ \A n \in 1 .. Len(writes) : n \in {1, 2, 3, 4}
    BY <2>4
  <2>6. \A n \in 1 .. Len(writes) : Numbers(writes[n])
    BY <2>2, <2>3, <2>4, <2>5
  <2>7. QED
    BY <2>5, <2>6 DEF writes
<1>2. CASE p = "PortFormat"
  <2> DEFINE w1 == Write("CLOCK", ConvertOMXToMediaClock(v.xFramerate))
             w2 == Write("FORMAT", v.format)
  <2>1. writes = <<w1, w2>>
    BY <1>2 DEF Writes, SetVideoPortFormat
  <2>2. Numbers(w1) /\ Numbers(w2)
    BY <1>2, ClockNumbers DEF Numbers, NumberFields, Write, Measured
  <2> HIDE DEF w1, w2, writes
  <2>3. Len(writes) \in Nat /\ \A n \in 1 .. Len(writes) : writes[n] \in {w1, w2}
    BY <2>1
  <2>4. QED
    BY <2>2, <2>3 DEF writes
<1>3. CASE p = "Expertise"
  <2> DEFINE w1 == Write("PROFILE_LEVEL", Pick({"profile", "level"}, v))
             w2 == IfKnown("GROUP_OF_PICTURES", [b |-> ConvertOMXToMediaBFrames(v.nB, v.nP),
                                                 length |-> ConvertOMXToMediaGopLength(v.nB, v.nP)])
             w3 == IfKnown("ENTROPY_CODING", [value |-> v.entropy])
             w4 == IfKnown("CONSTRAINED_INTRA_PREDICTION", [value |-> v.intra])
             w5 == IfKnown("LOOP_FILTER", [value |-> v.filter])
             middle == IF c \in {"enc_avc", "dec_avc"} THEN <<w3>> ELSE <<>>
             all == {w1, w2, w3, w4, w5}
  <2>1. writes = <<w1, w2>> \o middle \o <<w4, w5>>
    BY <1>3 DEF Writes, SetExpertise
  <2>2. \A w \in all : Numbers(w)
    <3>1. Numbers(w1) /\ Numbers(w3) /\ Numbers(w4) /\ Numbers(w5)
      BY DEF Numbers, NumberFields, Write, IfKnown
    <3>2. Numbers(w2)
      <4>1. v.nB \in Int /\ v.nP \in Nat
        BY <1>3 DEF Measured
      <4>2. /\ ConvertOMXToMediaBFrames(v.nB, v.nP) \in Int
            /\ ConvertOMXToMediaGopLength(v.nB, v.nP) \in Int
        BY <4>1, FrameNumbers
      <4>3. QED
        BY <4>2 DEF Numbers, NumberFields, IfKnown
    <3> HIDE DEF w1, w2, w3, w4, w5
    <3>3. QED
      BY <3>1, <3>2
  <2>3. <<w1, w2>> \in Seq(all) /\ middle \in Seq(all) /\ <<w4, w5>> \in Seq(all)
    <3> HIDE DEF w1, w2, w3, w4, w5
    <3>1. w1 \in all /\ w2 \in all /\ w3 \in all /\ w4 \in all /\ w5 \in all
      OBVIOUS
    <3> HIDE DEF all
    <3>2. <<w1, w2>> \in Seq(all) /\ <<w4, w5>> \in Seq(all)
      BY <3>1
    <3>3. <<w3>> \in Seq(all) /\ <<>> \in Seq(all)
      BY <3>1
    <3>4. QED
      BY <3>2, <3>3
  <2> HIDE DEF w1, w2, w3, w4, w5, middle, all, writes
  <2>4. writes \in Seq(all)
    BY <2>1, <2>3
  <2>5. Len(writes) \in Nat /\ \A n \in 1 .. Len(writes) : writes[n] \in all
    BY <2>4
  <2>6. QED
    BY <2>2, <2>5 DEF writes
<1>4. CASE p \notin {"PortDefinition", "PortFormat", "Expertise"}
  <2>1. PICK w : writes = <<w>> /\ Numbers(w)
    <3>1. CASE p = "BufferMode"
      BY <3>1 DEF Writes, Write, Numbers, NumberFields
    <3>2. CASE p = "Quantization"
      BY <3>2 DEF Writes, Write, Numbers, NumberFields
    <3>3. CASE p \in {"MaxPictureSize", "MaxPictureSizeInBits"}
      <4>1. writes = SetMaxPictureSizes(p, v)
        BY <3>3 DEF Writes
      <4>2. QED
        BY <3>3, <4>1 DEF SetMaxPictureSizes, Write, Numbers, NumberFields
    <3>4. CASE p \in Windows
      <4> DEFINE idx == WindowOf(port)[p].index
                 F == WindowOf(port)[p].fields
      <4>1. writes = <<Write(idx, v)>> /\ idx # "RESOLUTION"
        BY <3>4, WindowsApart DEF Writes
      <4>2. DOMAIN v = F
        BY <3>4 DEF Measured
      <4>3. \A f \in NumberFields(idx) \cap F : (p = "LookAhead" /\ f = "lookAhead") \/ (p = "Slices" /\ f = "num")
        BY <3>4, WindowFields
      <4> HIDE DEF idx, F
      <4>4. \A f \in NumberFields(idx) \cap DOMAIN v : v[f] \in Int
        BY <4>2, <4>3 DEF Measured
      <4>5. Numbers(Write(idx, v))
        BY <4>1, <4>4 DEF Numbers, Write
      <4> HIDE DEF writes
      <4>6. QED
        BY <4>1, <4>5
    <3>5. QED
      BY <1>4, <3>1, <3>2, <3>3, <3>4 DEF Parameters
  <2> HIDE DEF writes
  <2>3. Len(writes) = 1 /\ writes[1] = w
    BY <2>1
  <2>4. QED
    BY <2>1, <2>3 DEF writes
<1>5. QED
  BY <1>1, <1>2, <1>3, <1>4

LEMMA ApplyKeeps ==
  ASSUME NEW p \in Parameters, NEW port \in Ports, NEW c \in Codecs, NEW v, Measured(p, port, v), NEW m, Sound(c, m)
  PROVE  Sound(c, Apply(p, port, c, v, m).media)
<1> DEFINE writes == Writes(p, port, c, v)
           N == Len(writes)
<1>1. N \in Nat /\ \A n \in 1 .. N : Numbers(writes[n])
  BY WritesNumbers
<1>2. PICK f : /\ f[0] = Answered("None", m)
               /\ \A n \in 1 .. N : f[n] = AfterWrite(c, writes[n], f[n - 1])
               /\ Apply(p, port, c, v, m) = f[N]
  BY <1>1, ApplyUnfolds DEF Unfolded
<1> HIDE DEF N, writes
<1> DEFINE P == {n \in 0 .. N : Sound(c, f[n].media)}
<1>3. 0 \in P
  BY <1>1, <1>2 DEF Answered
<1>4. ASSUME NEW n \in 0 .. N - 1, n \in P PROVE n + 1 \in P
  <2>1. n + 1 \in 1 .. N /\ n + 1 - 1 = n /\ n + 1 \in 0 .. N
    BY <1>1
  <2>2. f[n + 1] = AfterWrite(c, writes[n + 1], f[n])
    BY <1>2, <2>1
  <2>3. Sound(c, AfterWrite(c, writes[n + 1], f[n]).media)
    BY <1>1, <1>4, <2>1, AfterWriteKeeps
  <2>4. QED
    BY <2>1, <2>2, <2>3
<1>5. N \in P
  <2> HIDE DEF P
  <2>1. \A n \in 0 .. N - 1 : n \in P => n + 1 \in P
    BY <1>4
  <2>2. QED
    BY <1>1, <1>3, <2>1, Induction
<1>6. QED
  BY <1>2, <1>5

LEMMA ConstructMeasured ==
  ASSUME NEW p \in Parameters, NEW port \in Ports, NEW c \in Codecs, NEW m, Sound(c, m),
         MustRead(p, port) \subseteq Readable[c]
  PROVE  Measured(p, port, Construct(p, port, c, m))
<1> DEFINE v == Construct(p, port, c, m)
<1>1. ConvertMediaToOMXFramerate(m.CLOCK) \in Nat
  <2>1. Good("CLOCK", m.CLOCK)
    BY IndicesOfCodec DEF Sound, Counted
  <2>2. m.CLOCK.framerate \in Nat /\ m.CLOCK.clockratio \in Nat \ {0}
    BY <2>1 DEF Good
  <2>3. QED
    BY <2>2, RateNumbers
<1>2. CASE p = "PortDefinition"
  <2>1. Get(c, "RESOLUTION", m) \in Sizes
    BY GetFields, IndicesOfCodec DEF Typed
  <2>2. v = ConstructPortDefinition(c, m)
    BY <1>2 DEF Construct
  <2>3. p \notin Windows
    BY <1>2, WindowsApart
  <2>4. QED
    BY <1>1, <1>2, <2>1, <2>2, <2>3 DEF ConstructPortDefinition, Measured, Sizes
<1>3. CASE p = "PortFormat"
  <2>1. v = ConstructVideoPortCurrentFormat(m) /\ p \notin Windows
    BY <1>3, WindowsApart DEF Construct
  <2>2. QED
    BY <1>1, <1>3, <2>1 DEF ConstructVideoPortCurrentFormat, Measured
<1>4. CASE p = "Expertise"
  <2> DEFINE gop == IF c \in Encoders THEN m.GROUP_OF_PICTURES ELSE [b |-> 0, length |-> 1]
  <2>1. v = GetExpertise(c, m) /\ p \notin Windows
    BY <1>4, WindowsApart DEF Construct
  <2>2. c \in Encoders => Good("GROUP_OF_PICTURES", m.GROUP_OF_PICTURES)
    BY IndicesOfCodec DEF Sound, Counted
  <2>3. gop.b \in Nat /\ gop.length \in Nat /\ gop.length > gop.b
    BY <2>2 DEF Good
  <2>4. v.nB = ConvertMediaToOMXBFrames(gop) /\ v.nP = ConvertMediaToOMXPFrames(gop)
    BY <2>1 DEF GetExpertise
  <2> HIDE DEF gop, v
  <2>5. v.nB \in Int /\ v.nP \in Nat
    BY <2>3, <2>4, GopNumbers
  <2>6. QED
    BY <1>4, <2>1, <2>5 DEF Measured, v
<1>5. CASE p \in Windows
  <2> DEFINE idx == WindowOf(port)[p].index
             F == WindowOf(port)[p].fields
  <2>1. /\ p \notin {"PortDefinition", "PortFormat", "BufferMode", "Quantization", "Expertise",
                     "MaxPictureSize", "MaxPictureSizeInBits"}
        /\ idx # "LOOP_FILTER"
    BY <1>5, WindowsApart
  <2>2. v = Pick(F, Get(c, idx, m)) /\ MustRead(p, port) = {idx}
    BY <2>1 DEF Construct, MustRead
  <2>3. Typed(idx, Get(c, idx, m))
    BY <2>1, <2>2, GetFields
  <2>4. p = "LookAhead" => idx = "LOOKAHEAD" /\ F = {"lookAhead", "sceneChange"}
    BY DEF WindowOf, VideoLookAhead, Window
  <2>5. p = "Slices" => idx = "SLICE_PARAMETER" /\ F = {"num", "size", "dependent"}
    BY DEF WindowOf, VideoSlices, Window
  <2> HIDE DEF idx
  <2>6. p = "LookAhead" => v.lookAhead \in Int
    BY <2>2, <2>3, <2>4 DEF Typed, NumberFields, Pick
  <2>7. p = "Slices" => v.num \in Int
    BY <2>2, <2>3, <2>5 DEF Typed, NumberFields, Pick
  <2>8. DOMAIN v = F
    BY <2>2 DEF Pick
  <2> HIDE DEF v, F
  <2>9. QED
    BY <2>1, <2>6, <2>7, <2>8 DEF Measured, F, v
<1>6. CASE p \in {"BufferMode", "Quantization", "MaxPictureSize", "MaxPictureSizeInBits"}
  BY <1>6, WindowsApart DEF Measured
<1>7. QED
  BY <1>2, <1>3, <1>4, <1>5, <1>6 DEF Parameters

LEMMA RestoreKeeps ==
  ASSUME NEW p \in Parameters, NEW port \in Ports, NEW c \in Codecs, NEW v, Measured(p, port, v), NEW m, Sound(c, m),
         MustRead(p, port) \subseteq Readable[c]
  PROVE  Sound(c, SetAndRestore(p, port, c, v, m).media)
<1> DEFINE first == Apply(p, port, c, v, m)
           back == Apply(p, port, c, Construct(p, port, c, m), first.media)
           again == Apply(p, port, c, Construct(p, port, c, first.media), back.media)
           third == Apply(p, port, c, Construct(p, port, c, back.media), again.media)
<1>1. Sound(c, first.media)
  BY ApplyKeeps
<1>2. Sound(c, back.media)
  BY <1>1, ApplyKeeps, ConstructMeasured
<1>3. Sound(c, again.media)
  BY <1>1, <1>2, ApplyKeeps, ConstructMeasured
<1>4. Sound(c, third.media)
  BY <1>2, <1>3, ApplyKeeps, ConstructMeasured
<1>5. SetAndRestore(p, port, c, v, m).media \in {first.media, back.media, again.media, third.media}
  <2> HIDE DEF first, back, again, third
  <2>1. SetAndRestore(p, port, c, v, m) =
          IF ~Refused(first) \/ p = "RateControlPlugin" THEN first
          ELSE IF ~Refused(back) THEN Outer(first.error, back)
          ELSE IF ~Refused(again) THEN Outer(back.error, again)
          ELSE IF ~Refused(third) THEN Outer(again.error, third)
          ELSE Answered(IF /\ third.media = back.media
                           /\ Construct(p, port, c, again.media) = Construct(p, port, c, first.media)
                        THEN "recursing" ELSE "unsettled", third.media)
    BY DEF SetAndRestore, Restored, RestoredOnce, RestoredTwice, RestoredThrice, SetBack,
         first, back, again, third
  <2>2. \A e, a : Outer(e, a).media = a.media
    BY DEF Outer, Answered
  <2>3. QED
    BY <2>1, <2>2 DEF Answered
<1> HIDE DEF first, back, again, third
<1>6. QED
  BY <1>1, <1>2, <1>3, <1>4, <1>5

LEMMA SetValueKeeps ==
  ASSUME NEW p \in Parameters, NEW port \in Ports, NEW c \in Codecs, NEW v, Measured(p, port, v), NEW m, Sound(c, m)
  PROVE  Sound(c, SetValue(p, port, c, v, m).media)
<1>1. SetValue(p, port, c, v, m).media = m
      \/ /\ MustRead(p, port) \subseteq Readable[c]
         /\ SetValue(p, port, c, v, m) = SetAndRestore(p, port, c, v, m)
  BY DEF SetValue, Answered
<1>2. QED
  BY <1>1, RestoreKeeps

-----------------------------------------------------------------------------
(* The settings stay sound.                                                 *)
SInv == client \in DOMAIN Clients /\ Sound(codec, media)

LEMMA CallFacts ==
  ASSUME client \in DOMAIN Clients, NEW call \in Clients[client].calls
  PROVE  codec \in Codecs /\ WellFormed(call) /\ Measured(call.param, call.port, call.value)
<1>1. codec \in Codecs /\ WellFormed(call)
  BY ClientsAssumption DEF codec
<1>2. call.param \in Windows => DOMAIN call.value = WindowOf(call.port)[call.param].fields
  BY <1>1 DEF WellFormed, HasFields
<1>3. QED
  BY <1>1, <1>2 DEF WellFormed, Measured

LEMMA SetParameterKeeps ==
  ASSUME SInv, SetParameter
  PROVE  SInv'
<1>1. PICK call \in Clients[client].calls :
        media' = IF ~RefusedByState(call.port) /\ ~TooFew(call.param, call.port, call.value)
                 THEN SetValue(call.param, call.port, codec, call.value, media).media ELSE media
  BY DEF SetParameter
<1>2. client' = client /\ codec' = codec
  BY DEF SetParameter, MayCall, codec
<1>3. codec \in Codecs /\ call.param \in Parameters /\ call.port \in Ports /\ Measured(call.param, call.port, call.value)
  BY CallFacts DEF SInv, WellFormed
<1>4. Sound(codec, SetValue(call.param, call.port, codec, call.value, media).media)
  BY <1>3, SetValueKeeps DEF SInv
<1>5. Sound(codec, media')
  BY <1>1, <1>4 DEF SInv
<1>6. QED
  BY <1>2, <1>5 DEF SInv

LEMMA ResetInUseSound ==
  ASSUME NEW c \in Codecs, NEW m
  PROVE  Sound(c, ResetInUse(c, m))
<1>1. CASE c \notin Encoders
  BY <1>1, ResetSound DEF ResetInUse
<1>2. CASE c \in Encoders
  <2> DEFINE tp == [Reset(c).TWOPASS EXCEPT !.sLogFile = m.TWOPASS.sLogFile]
  <2>1. "TWOPASS" \in Stored(c)
    BY <1>2 DEF Encoders, Stored, Readable, Settable, EncSettingsAVC_Get, EncSettingsAVC_Set,
      EncSettingsHEVC_Get, EncSettingsHEVC_Set, EncSettingsMJPEG_Get, EncSettingsMJPEG_Set,
      ItuEncoderIndices, EncoderIndices, CommonIndices
  <2>2. DOMAIN Reset(c).TWOPASS = Fields("TWOPASS")
    BY <2>1, ResetSound DEF Sound, Shaped
  <2>3. DOMAIN tp = Fields("TWOPASS") /\ Good("TWOPASS", tp)
    BY <2>2 DEF Good
  <2>4. [Reset(c) EXCEPT !.TWOPASS.sLogFile = m.TWOPASS.sLogFile] = [Reset(c) EXCEPT !["TWOPASS"] = tp]
    BY <2>1 DEF Reset
  <2> HIDE DEF tp
  <2>5. QED
    BY <1>2, <2>1, <2>3, <2>4, ResetSound, ReplaceKeeps DEF ResetInUse
<1>3. QED
  BY <1>1, <1>2

LEMMA SetRoleKeeps ==
  ASSUME SInv, SetRole
  PROVE  SInv'
<1>1. client' = client /\ codec' = codec
  BY DEF SetRole, MayCall, codec
<1>2. codec \in Codecs
  BY ClientsAssumption DEF SInv, codec
<1>3. Sound(codec, ResetInUse(codec, media))
  BY <1>2, ResetInUseSound DEF SInv
<1>4. "LLP2_EARLY_CB" \in Settable[codec] =>
        Sound(codec, [ResetInUse(codec, media) EXCEPT !.LLP2_EARLY_CB = media.LLP2_EARLY_CB])
  <2> SUFFICES ASSUME "LLP2_EARLY_CB" \in Settable[codec]
               PROVE  Sound(codec, [ResetInUse(codec, media) EXCEPT !.LLP2_EARLY_CB = media.LLP2_EARLY_CB])
    OBVIOUS
  <2>1. "LLP2_EARLY_CB" \in Stored(codec)
    BY <1>2, IndicesOfCodec
  <2>2. DOMAIN media.LLP2_EARLY_CB = Fields("LLP2_EARLY_CB") /\ Good("LLP2_EARLY_CB", media.LLP2_EARLY_CB)
    BY <2>1 DEF SInv, Sound, Shaped, Good
  <2>3. QED
    BY <1>2, <1>3, <2>1, <2>2, ReplaceKeeps
<1>5. Sound(codec, media')
  BY <1>3, <1>4 DEF SetRole, SInv
<1>6. QED
  BY <1>1, <1>5 DEF SInv

LEMMA SoundInductive == Spec => []SInv
<1>1. Init => SInv
  <2> SUFFICES ASSUME Init PROVE SInv
    OBVIOUS
  <2>1. codec \in Codecs
    BY ClientsAssumption DEF Init, codec
  <2>2. QED
    BY <2>1, ResetSound DEF Init, SInv
<1>2. SInv /\ [Next]_vars => SInv'
  <2> SUFFICES ASSUME SInv, [Next]_vars PROVE SInv'
    OBVIOUS
  <2>1. CASE SetParameter
    BY <2>1, SetParameterKeeps
  <2>2. CASE SetRole
    BY <2>2, SetRoleKeeps
  <2>3. ASSUME UNCHANGED <<client, media>> PROVE SInv'
    BY <2>3 DEF SInv, codec
  <2>4. CASE StartOrStop
    BY <2>4, <2>3 DEF StartOrStop, MayCall
  <2>5. ASSUME NEW port \in Ports, GetPortDefinition(port) \/ SwitchPort(port) PROVE SInv'
    BY <2>5, <2>3 DEF GetPortDefinition, SwitchPort, MayCall
  <2>6. CASE UNCHANGED vars
    BY <2>6, <2>3 DEF vars
  <2>7. QED
    BY <2>1, <2>2, <2>4, <2>5, <2>6 DEF Next
<1>3. QED
  BY <1>1, <1>2, PTL DEF Spec

(* Whatever formats and sizes any client sets, in whatever order, and         *)
(* whichever are refused and rolled back: a line of the picture fits in the    *)
(* stride, and both strides are what the hardware can read (UpdateFormat,      *)
(* UpdateResolution, omx_component_getset.cpp).                               *)
THEOREM SizesFitHolds == Spec => []SizesFit
<1>1. SInv => SizesFit
  BY DEF SInv, Sound, Fits, SizesFit
<1>2. QED
  BY <1>1, SoundInductive, PTL

-----------------------------------------------------------------------------
(* The answers and the counts.                                              *)
WriteAnswers == {"None", "BadParameter", "UnsupportedIndex", "throws", "crash"}

LEMMA AfterWriteAnswers ==
  ASSUME NEW c, NEW w, NEW sofar, sofar.error \in WriteAnswers
  PROVE  AfterWrite(c, w, sofar).error \in WriteAnswers
<1>1. \A idx, v, m : Set(c, idx, v, m).error \in WriteAnswers
  BY DEF Set, Answered, WriteAnswers
<1>2. WriteWindow(c, w, sofar.media).error \in WriteAnswers
  BY <1>1 DEF WriteWindow, Answered, WriteAnswers
<1>3. AfterWrite(c, w, sofar) \in {sofar, WriteWindow(c, w, sofar.media)}
  BY DEF AfterWrite
<1>4. QED
  BY <1>2, <1>3

LEMMA ApplyAnswers ==
  ASSUME NEW p \in Parameters, NEW port \in Ports, NEW c, NEW v, Measured(p, port, v), NEW m
  PROVE  Apply(p, port, c, v, m).error \in WriteAnswers
<1> DEFINE writes == Writes(p, port, c, v)
           N == Len(writes)
<1>1. N \in Nat
  BY WritesNumbers
<1>2. PICK f : /\ f[0] = Answered("None", m)
               /\ \A n \in 1 .. N : f[n] = AfterWrite(c, writes[n], f[n - 1])
               /\ Apply(p, port, c, v, m) = f[N]
  BY <1>1, ApplyUnfolds DEF Unfolded
<1> HIDE DEF N, writes
<1> DEFINE P == {n \in 0 .. N : f[n].error \in WriteAnswers}
<1>3. 0 \in P
  BY <1>1, <1>2 DEF Answered, WriteAnswers
<1>4. ASSUME NEW n \in 0 .. N - 1, n \in P PROVE n + 1 \in P
  <2>1. n + 1 \in 1 .. N /\ n + 1 - 1 = n /\ n + 1 \in 0 .. N
    BY <1>1
  <2>2. f[n + 1] = AfterWrite(c, writes[n + 1], f[n])
    BY <1>2, <2>1
  <2>3. AfterWrite(c, writes[n + 1], f[n]).error \in WriteAnswers
    BY <1>4, AfterWriteAnswers
  <2>4. QED
    BY <2>1, <2>2, <2>3
<1>5. N \in P
  <2> HIDE DEF P
  <2>1. \A n \in 0 .. N - 1 : n \in P => n + 1 \in P
    BY <1>4
  <2>2. QED
    BY <1>1, <1>3, <2>1, Induction
<1>6. QED
  BY <1>2, <1>5

LEMMA SetValueAnswers ==
  ASSUME NEW p \in Parameters, NEW port \in Ports, NEW c \in Codecs, NEW v, Measured(p, port, v), NEW m, Sound(c, m)
  PROVE  SetValue(p, port, c, v, m).error \in Answers
<1> SUFFICES ASSUME MustRead(p, port) \subseteq Readable[c]
             PROVE  SetAndRestore(p, port, c, v, m).error \in Answers
  BY DEF SetValue, Answered, Answers
<1> DEFINE first == Apply(p, port, c, v, m)
           back == Apply(p, port, c, Construct(p, port, c, m), first.media)
           again == Apply(p, port, c, Construct(p, port, c, first.media), back.media)
           third == Apply(p, port, c, Construct(p, port, c, back.media), again.media)
<1>1. Sound(c, first.media)
  BY ApplyKeeps
<1>2. Sound(c, back.media)
  BY <1>1, ApplyKeeps, ConstructMeasured
<1>3. /\ first.error \in WriteAnswers /\ back.error \in WriteAnswers
      /\ again.error \in WriteAnswers /\ third.error \in WriteAnswers
  BY <1>1, <1>2, ApplyAnswers, ConstructMeasured
<1> DEFINE stuck == IF /\ third.media = back.media
                       /\ Construct(p, port, c, again.media) = Construct(p, port, c, first.media)
                    THEN "recursing" ELSE "unsettled"
           set == SetAndRestore(p, port, c, v, m)
<1> HIDE DEF first, back, again, third
<1>4. set \in {first, Outer(first.error, back), Outer(back.error, again), Outer(again.error, third),
               Answered(stuck, third.media)}
  BY DEF SetAndRestore, Restored, RestoredOnce, RestoredTwice, RestoredThrice, SetBack,
         first, back, again, third
<1>5. Answered(stuck, third.media).error \in Answers
  BY DEF Answered, Answers
<1>6. WriteAnswers \subseteq Answers
  BY DEF WriteAnswers, Answers
<1>7. \A e, a : e \in Answers /\ a.error \in Answers => Outer(e, a).error \in Answers
  BY DEF Outer, Answered
<1> HIDE DEF set, stuck
<1>8. QED
  BY <1>3, <1>4, <1>5, <1>6, <1>7 DEF set

LEMMA CountIsNumber ==
  ASSUME SInv, NEW port \in Ports
  PROVE  BufferCountMin(port, media) \in Int
<1>1. codec \in Codecs
  BY ClientsAssumption DEF SInv, codec
<1>2. CASE codec \in Encoders
  <2>1. /\ Good("GROUP_OF_PICTURES", media.GROUP_OF_PICTURES) /\ Good("LOOKAHEAD", media.LOOKAHEAD)
        /\ Good("SLICE_PARAMETER", media.SLICE_PARAMETER)
    BY <1>1, <1>2, IndicesOfCodec DEF SInv, Sound, Counted
  <2>2. /\ media.GROUP_OF_PICTURES.b \in Nat /\ media.LOOKAHEAD.lookAhead \in Nat
        /\ media.SLICE_PARAMETER.num \in Nat
    BY <2>1 DEF Good
  <2>3. Pipeline(codec, media) \in Nat
    BY <2>2 DEF Pipeline
  <2>4. EncoderInputs(codec, media) \in Int
    BY <2>2, <2>3 DEF EncoderInputs
  <2>5. EncoderOutputs(codec, media, Separate) \in Int
    <3>1. Pipeline(codec, media) * (IF media.SUBFRAME.value THEN media.SLICE_PARAMETER.num ELSE 1) \in Int
      BY <2>2, <2>3
    <3>2. QED
      BY <3>1 DEF EncoderOutputs
  <2>6. QED
    BY <1>2, <2>4, <2>5 DEF BufferCountMin, BufferCounts
<1>3. CASE codec \in Decoders
  <2>1. codec \notin Encoders
    BY <1>1, <1>3, DefaultsFor
  <2>2. Good("INTERNAL_ENTROPY_BUFFER", media.INTERNAL_ENTROPY_BUFFER)
    BY <1>1, <1>3, IndicesOfCodec DEF SInv, Sound, Counted
  <2>3. media.INTERNAL_ENTROPY_BUFFER.value \in 1 .. 16
    BY <2>2 DEF Good
  <2>4. DecoderOutputs(codec, media) \in Int
    BY <2>3, MinOutputAssumption DEF DecoderOutputs
  <2>5. QED
    BY <2>1, <2>4 DEF BufferCountMin, BufferCounts
<1>4. QED
  BY <1>1, <1>2, <1>3 DEF Codecs

(* What SInv does not say of the types.                                     *)
CallTypes ==
  /\ expected \in [Ports -> Nat] /\ enabled \in [Ports -> BOOLEAN]
  /\ running \in BOOLEAN
  /\ last.answer \in Answers
  /\ calls \in 0 .. Clients[client].depth

LEMMA TypesFromSound == SInv /\ CallTypes => TypeOK
<1> SUFFICES ASSUME SInv, CallTypes PROVE TypeOK
  OBVIOUS
<1>1. codec \in Codecs
  BY ClientsAssumption DEF SInv, codec
<1>2. DOMAIN media = Stored(codec)
  BY DEF SInv, Sound, Shaped
<1>3. media.CLOCK.clockratio > 0
  <2>1. Good("CLOCK", media.CLOCK)
    BY <1>1, IndicesOfCodec DEF SInv, Sound, Counted
  <2>2. QED
    BY <2>1 DEF Good
<1>4. media.RESOLUTION.stride \in Nat
  BY DEF SInv, Sound, Fits, Sizes
<1>5. codec \in Encoders => /\ media.GROUP_OF_PICTURES.length > media.GROUP_OF_PICTURES.b
                           /\ media.SLICE_PARAMETER.num > 0
  <2>1. codec \in Encoders => /\ Good("GROUP_OF_PICTURES", media.GROUP_OF_PICTURES)
                             /\ Good("SLICE_PARAMETER", media.SLICE_PARAMETER)
    BY <1>1, IndicesOfCodec DEF SInv, Sound, Counted
  <2>2. QED
    BY <2>1 DEF Good
<1>6. codec \in Decoders => media.INTERNAL_ENTROPY_BUFFER.value \in 1 .. 16
  <2>1. codec \in Decoders => Good("INTERNAL_ENTROPY_BUFFER", media.INTERNAL_ENTROPY_BUFFER)
    BY <1>1, IndicesOfCodec DEF SInv, Sound, Counted
  <2>2. QED
    BY <2>1 DEF Good
<1>7. QED
  BY <1>2, <1>3, <1>4, <1>5, <1>6 DEF TypeOK, CallTypes, SInv

LEMMA CallTypesInductive == Spec => []CallTypes
<1>1. Init => CallTypes
  <2> SUFFICES ASSUME Init PROVE CallTypes
    OBVIOUS
  <2>1. DefaultCount \in Nat /\ Clients[client].depth \in Nat
    BY ClientsAssumption DEF Init
  <2>2. calls \in 0 .. Clients[client].depth /\ expected \in [Ports -> Nat] /\ enabled \in [Ports -> BOOLEAN]
    BY <2>1 DEF Init
  <2>3. running \in BOOLEAN /\ last.answer \in Answers
    BY DEF Init, Silent, Answers
  <2>4. QED
    BY <2>2, <2>3 DEF CallTypes
<1>2. SInv /\ CallTypes /\ [Next]_vars => CallTypes'
  <2> SUFFICES ASSUME SInv, CallTypes, [Next]_vars PROVE CallTypes'
    OBVIOUS
  <2> USE DEF CallTypes
  <2>1. ASSUME MayCall PROVE calls' \in 0 .. Clients[client'].depth
    <3>1. Clients[client].depth \in Nat
      BY ClientsAssumption DEF SInv
    <3>2. QED
      BY <2>1, <3>1 DEF MayCall
  <2>2. Silent.answer \in Answers /\ \A p, port, v, a : Call(p, port, v, a).answer = a
    BY DEF Silent, Answers, Call
  <2>3. CASE SetParameter
    <3>1. PICK call \in Clients[client].calls :
            /\ last' = Call(call.param, call.port, call.value,
                  IF RefusedByState(call.port) THEN "IncorrectStateOperation"
                  ELSE IF TooFew(call.param, call.port, call.value) THEN "BadParameter"
                  ELSE SetValue(call.param, call.port, codec, call.value, media).error)
            /\ expected' \in {expected, IF call.param = "PortDefinition"
                                       THEN [expected EXCEPT ![call.port] = call.value.actual] ELSE expected}
      BY <2>3 DEF SetParameter
    <3>2. /\ codec \in Codecs /\ WellFormed(call) /\ Measured(call.param, call.port, call.value)
          /\ Sound(codec, media)
      BY CallFacts DEF SInv
    <3>3. SetValue(call.param, call.port, codec, call.value, media).error \in Answers
      BY <3>2, SetValueAnswers DEF WellFormed
    <3>4. last'.answer \in Answers
      BY <2>2, <3>1, <3>3 DEF Answers
    <3>5. call.param = "PortDefinition" => call.value.actual \in Nat
      BY <3>2 DEF WellFormed
    <3>6. expected' \in [Ports -> Nat]
      BY <3>1, <3>5
    <3>7. QED
      BY <2>1, <2>3, <3>4, <3>6 DEF SetParameter
  <2>4. CASE SetRole
    <3>1. last'.answer \in {"IncorrectStateOperation", "None"}
      BY <2>2, <2>4 DEF SetRole
    <3>2. QED
      BY <2>1, <2>4, <3>1 DEF SetRole, Answers
  <2>5. CASE StartOrStop
    BY <2>1, <2>2, <2>5 DEF StartOrStop
  <2>6. ASSUME NEW port \in Ports, GetPortDefinition(port) PROVE CallTypes'
    <3>1. BufferCountMin(port, media) \in Int
      BY CountIsNumber
    <3>2. Larger(expected[port], BufferCountMin(port, media)) \in Nat
      BY <3>1 DEF Larger
    <3>3. expected' \in [Ports -> Nat]
      BY <2>6, <3>2 DEF GetPortDefinition
    <3>4. QED
      BY <2>1, <2>2, <2>6, <3>3 DEF GetPortDefinition
  <2>7. ASSUME NEW port \in Ports, SwitchPort(port) PROVE CallTypes'
    BY <2>1, <2>2, <2>7 DEF SwitchPort
  <2>8. CASE UNCHANGED vars
    BY <2>8 DEF vars
  <2>9. QED
    BY <2>3, <2>4, <2>5, <2>6, <2>7, <2>8 DEF Next
<1>3. QED
  BY <1>1, <1>2, SoundInductive, PTL DEF Spec

(* The settings keep the indices of their class, and what the counts and the   *)
(* rates are divided by or read from a table with stays in its range.          *)
THEOREM TypeOKHolds == Spec => []TypeOK
BY TypesFromSound, SoundInductive, CallTypesInductive, PTL

Countable == \A port \in Ports : BufferCountMin(port, media) \in Int
(* A port that expects enough buffers goes on doing so until the settings need *)
(* more: no definition, read, refused or accepted, takes one from under the     *)
(* need (SetPortExpectedBuffer, ConstructPortDefinition).                      *)
THEOREM EnoughUntilMoreNeededHolds == Spec => EnoughUntilMoreNeeded
<1>1. SInv => Countable
  BY CountIsNumber DEF Countable
<1>2. SInv' => Countable'
  BY <1>1, PTL
<1>3. SInv /\ SInv' /\ CallTypes /\ CallTypes' /\ [Next]_vars => [LessOnlyWhenMoreNeeded]_vars
  <2> SUFFICES ASSUME SInv, SInv', CallTypes, CallTypes', [Next]_vars,
                      NEW port \in Ports, Enough(port), ~Enough(port)'
               PROVE  BufferCountMin(port, media)' > BufferCountMin(port, media)
    BY DEF LessOnlyWhenMoreNeeded
  <2> DEFINE need == BufferCountMin(port, media)
             needed == BufferCountMin(port, media)'
  <2>1. need \in Int /\ needed \in Int
    BY <1>1, <1>2 DEF Countable
  <2>2. expected[port] \in Nat /\ expected'[port] \in Nat
    BY DEF CallTypes
  <2>3. expected[port] >= need /\ ~(expected'[port] >= needed)
    BY DEF Enough
  <2>4. expected'[port] >= need
    <3>1. CASE SetParameter
      <4>1. PICK call \in Clients[client].calls :
              expected' = IF ~RefusedByState(call.port) /\ ~TooFew(call.param, call.port, call.value)
                             /\ call.param = "PortDefinition"
                          THEN [expected EXCEPT ![call.port] = call.value.actual] ELSE expected
        BY <3>1 DEF SetParameter
      <4>2. CASE call.port = port /\ call.param = "PortDefinition" /\ ~TooFew(call.param, call.port, call.value)
        <5>1. call.value.actual \in Nat
          BY <4>2, CallFacts DEF WellFormed, SInv
        <5>2. ~(call.value.actual < need)
          BY <4>2 DEF TooFew
        <5>3. expected'[port] \in {expected[port], call.value.actual}
          BY <4>1, <4>2 DEF CallTypes
        <5> HIDE DEF need
        <5>4. QED
          BY <2>1, <2>3, <5>1, <5>2, <5>3
      <4>3. CASE ~(call.port = port /\ call.param = "PortDefinition" /\ ~TooFew(call.param, call.port, call.value))
        <5>1. expected'[port] = expected[port]
          BY <4>1, <4>3 DEF CallTypes
        <5>2. QED
          BY <2>3, <5>1
      <4>4. QED
        BY <4>2, <4>3
    <3>2. ASSUME UNCHANGED expected PROVE expected'[port] >= need
      BY <2>3, <3>2
    <3>3. ASSUME NEW other \in Ports, GetPortDefinition(other) PROVE expected'[port] >= need
      <4>1. expected'[port] \in {expected[port], Larger(expected[port], BufferCountMin(port, media))}
        BY <3>3 DEF GetPortDefinition, CallTypes
      <4>2. Larger(expected[port], need) >= need
        BY <2>1, <2>2, LargerFacts
      <4> HIDE DEF need
      <4>3. QED
        BY <2>3, <4>1, <4>2 DEF need
    <3>4. CASE SetRole
      BY <3>4, <3>2 DEF SetRole
    <3>5. CASE StartOrStop
      BY <3>5, <3>2 DEF StartOrStop
    <3>6. ASSUME NEW other \in Ports, SwitchPort(other) PROVE expected'[port] >= need
      BY <3>6, <3>2 DEF SwitchPort
    <3>7. CASE UNCHANGED vars
      BY <3>7, <3>2 DEF vars
    <3>8. QED
      BY <3>1, <3>3, <3>4, <3>5, <3>6, <3>7 DEF Next
  <2> HIDE DEF need, needed
  <2>5. needed > need
    BY <2>1, <2>2, <2>3, <2>4
  <2>6. QED
    BY <2>5 DEF need, needed
<1>4. QED
  BY <1>3, SoundInductive, CallTypesInductive, PTL DEF EnoughUntilMoreNeeded, Spec

-----------------------------------------------------------------------------
(* What is read back.                                                       *)
LEMMA StoredValue ==
  ASSUME NEW c, NEW m, NEW idx \in DOMAIN m, NEW v, "RESOLUTION" \in DOMAIN m,
         idx \notin {"RESOLUTION", "CONSTRAINED_INTRA_PREDICTION", "LOOP_FILTER", "MAX_PICTURE_SIZES"}
  PROVE  Store(c, idx, v, m)[idx] = v
<1>1. CASE idx = "FORMAT"
  BY <1>1 DEF Store, UpdateFormat
<1>2. CASE idx = "GROUP_OF_PICTURES"
  BY <1>2 DEF Store, UpdateGroupOfPictures
<1>3. CASE idx \notin {"FORMAT", "GROUP_OF_PICTURES"}
  BY <1>3 DEF Store
<1>4. QED
  BY <1>1, <1>2, <1>3

LEMMA WrittenOnce ==
  ASSUME NEW c \in Codecs, NEW m, Sound(c, m), NEW idx \in Readable[c] \ {"LOOP_FILTER"},
         NEW F, SetApart(idx, F), NEW v, HasFields(v, F),
         WriteWindow(c, Write(idx, v), m).error = "None"
  PROVE  \E x : /\ WriteWindow(c, Write(idx, v), m).media = Store(c, idx, x, m)
                /\ idx \in Settable[c] /\ Accepts(c, idx, x, m)
                /\ DOMAIN x = Fields(idx) /\ \A f \in F : x[f] = v[f]
                /\ idx \notin {"BITRATE", "QUANTIZATION_PARAMETER"} => x = Merge(v, Get(c, idx, m))
<1> DEFINE w == Write(idx, v)
           old == Get(c, idx, m)
           merged == Merge(v, old)
           ordered == IF idx = "BITRATE" THEN KeepOrder(v, merged) ELSE merged
           x == IF idx = "QUANTIZATION_PARAMETER" THEN UpdateQuantizationParameter(ordered) ELSE ordered
<1>1. DOMAIN old = Fields(idx) /\ DOMAIN v = F /\ F \subseteq Fields(idx)
  BY GetFields DEF HasFields, SetApart
<1>2. DOMAIN merged = Fields(idx) /\ \A f \in F : merged[f] = v[f]
  BY <1>1 DEF Merge
<1> HIDE DEF merged, old
<1>0. idx \notin {"BITRATE", "QUANTIZATION_PARAMETER"} => x = merged
  OBVIOUS
<1>3. DOMAIN ordered = Fields(idx) /\ \A f \in F : ordered[f] = v[f]
  <2>1. CASE idx = "BITRATE"
    <3>1. ordered = KeepOrder(v, merged)
      BY <2>1
    <3>2. CASE "target" \in F
      <4>1. KeepOrder(v, merged) = [merged EXCEPT !.max = Larger(@, merged.target)]
        BY <3>2, <1>1 DEF KeepOrder
      <4>2. "max" \notin F
        BY <2>1, <3>2 DEF SetApart
      <4>3. QED
        BY <1>1, <1>2, <3>1, <4>1, <4>2
    <3>3. CASE "target" \notin F
      <4>1. KeepOrder(v, merged) \in {merged, [merged EXCEPT !.target = merged.max]}
        BY <3>3, <1>1 DEF KeepOrder
      <4>2. QED
        BY <1>1, <1>2, <3>1, <3>3, <4>1
    <3>4. QED
      BY <3>2, <3>3
  <2>2. CASE idx # "BITRATE"
    BY <1>2, <2>2
  <2>3. QED
    BY <2>1, <2>2
<1> HIDE DEF ordered
<1>4. DOMAIN x = Fields(idx) /\ \A f \in F : x[f] = v[f]
  <2>1. CASE idx = "QUANTIZATION_PARAMETER"
    <3>1. x = [ordered EXCEPT !.deltaIP = NotBelow(@), !.deltaPB = NotBelow(@)]
      BY <2>1 DEF UpdateQuantizationParameter
    <3>2. \A f \in F : f # "deltaIP" /\ f # "deltaPB"
      BY <2>1 DEF SetApart
    <3> HIDE DEF x
    <3>3. QED
      BY <1>1, <1>3, <3>1, <3>2
  <2>2. CASE idx # "QUANTIZATION_PARAMETER"
    BY <1>3, <2>2
  <2>3. QED
    BY <2>1, <2>2
<1>5. WriteWindow(c, w, m) = IF Unconvertible(w) THEN Answered("throws", m) ELSE Set(c, idx, ordered, m)
  BY DEF WriteWindow, Write, ordered, merged, old
<1>6. Set(c, idx, ordered, m) =
        IF idx \notin Settable[c] THEN Answered("UnsupportedIndex", m)
        ELSE IF idx = "BITRATE" /\ DividesByZero(x, m.CLOCK) THEN Answered("crash", m)
        ELSE IF ~Accepts(c, idx, x, m) THEN Answered("BadParameter", m)
        ELSE Answered("None", Store(c, idx, x, m))
  BY DEF Set
<1> HIDE DEF x
<1>7. WriteWindow(c, w, m).media = Store(c, idx, x, m) /\ idx \in Settable[c] /\ Accepts(c, idx, x, m)
  BY <1>5, <1>6 DEF Answered
<1>8. QED
  BY <1>0, <1>4, <1>7 DEF merged, old

\* a write that is the only one
LEMMA ApplyOne ==
  ASSUME NEW p, NEW port, NEW c, NEW v, NEW m, NEW idx, NEW x, Writes(p, port, c, v) = <<Write(idx, x)>>
  PROVE  Apply(p, port, c, v, m) = WriteWindow(c, Write(idx, x), m)
<1> DEFINE w == Write(idx, x)
           N == Len(Writes(p, port, c, v))
<1>1. N = 1 /\ Writes(p, port, c, v)[1] = w
  OBVIOUS
<1> HIDE DEF N
<1>2. PICK f : /\ f[0] = Answered("None", m)
               /\ \A n \in 1 .. N : f[n] = AfterWrite(c, Writes(p, port, c, v)[n], f[n - 1])
               /\ Apply(p, port, c, v, m) = f[N]
  <2>1. N \in Nat
    BY <1>1
  <2>2. Len(Writes(p, port, c, v)) = N
    BY DEF N
  <2>3. Unfolded(p, port, c, v, m, N)
    BY <2>1, <2>2, ApplyUnfolds
  <2>4. QED
    BY <2>3 DEF Unfolded
<1>3. 1 \in 1 .. N /\ 1 - 1 = 0
  BY <1>1
<1>4. Apply(p, port, c, v, m) = AfterWrite(c, w, Answered("None", m))
  BY <1>1, <1>2, <1>3
<1>5. AfterWrite(c, w, Answered("None", m)) = WriteWindow(c, w, m)
  BY DEF AfterWrite, Answered, Write
<1>6. QED
  BY <1>4, <1>5

\* an answer of no error is that of the first writes
LEMMA NoErrorIsFirst ==
  ASSUME NEW p, NEW port, NEW c, NEW v, NEW m, SetValue(p, port, c, v, m).error = "None"
  PROVE  /\ SetValue(p, port, c, v, m) = Apply(p, port, c, v, m)
         /\ Apply(p, port, c, v, m).error = "None" /\ MustRead(p, port) \subseteq Readable[c]
<1> DEFINE first == Apply(p, port, c, v, m)
           back == Apply(p, port, c, Construct(p, port, c, m), first.media)
           again == Apply(p, port, c, Construct(p, port, c, first.media), back.media)
           third == Apply(p, port, c, Construct(p, port, c, back.media), again.media)
           set == SetAndRestore(p, port, c, v, m)
<1>1. SetValue(p, port, c, v, m) = set /\ MustRead(p, port) \subseteq Readable[c]
  BY DEF SetValue, Answered
<1>2. \A a, b : Refused(a) => Outer(a.error, b).error # "None"
  BY DEF Outer, Answered, Refused
<1> DEFINE stuck == IF /\ third.media = back.media
                       /\ Construct(p, port, c, again.media) = Construct(p, port, c, first.media)
                    THEN "recursing" ELSE "unsettled"
<1> HIDE DEF first, back, again, third
<1>3. Answered(stuck, third.media).error # "None"
  BY DEF Answered
<1>4. set =
        IF ~Refused(first) \/ p = "RateControlPlugin" THEN first
        ELSE IF ~Refused(back) THEN Outer(first.error, back)
        ELSE IF ~Refused(again) THEN Outer(back.error, again)
        ELSE IF ~Refused(third) THEN Outer(again.error, third)
        ELSE Answered(stuck, third.media)
  BY DEF SetAndRestore, Restored, RestoredOnce, RestoredTwice, RestoredThrice, SetBack,
         first, back, again, third
<1> HIDE DEF set, stuck
<1>5. set.error = "None"
  BY <1>1
<1>6. set = first
  <2> SUFFICES ASSUME ~(~Refused(first) \/ p = "RateControlPlugin") PROVE FALSE
    BY <1>4
  <2>1. set # Outer(first.error, back)
    BY <1>2, <1>5
  <2>2. Refused(back)
    BY <1>4, <2>1
  <2>3. set # Outer(back.error, again)
    BY <1>2, <1>5, <2>2
  <2>4. Refused(again)
    BY <1>4, <2>1, <2>3
  <2>5. set # Outer(again.error, third)
    BY <1>2, <1>5, <2>4
  <2>6. set # Answered(stuck, third.media)
    BY <1>3, <1>5
  <2>7. QED
    BY <1>4, <2>1, <2>3, <2>5, <2>6
<1>7. QED
  BY <1>1, <1>6 DEF first

LEMMA ThousandsBack == \A n \in Int : (n * 1000) \div 1000 = n
OBVIOUS

LEMMA WindowIsRead ==
  ASSUME NEW c \in Codecs, NEW m, Sound(c, m), NEW port \in Ports, NEW p \in Windows \ {"UniformSliceType"},
         NEW v, HasFields(v, WindowOf(port)[p].fields),
         p = "MaxPictureSizes" => \A f \in {"i", "p", "b"} : v[f] \in Int,
         SetValue(p, port, c, v, m).error = "None"
  PROVE  Construct(p, port, c, SetValue(p, port, c, v, m).media) = v
<1> DEFINE idx == WindowOf(port)[p].index
           F == WindowOf(port)[p].fields
           new == SetValue(p, port, c, v, m).media
<1>1. /\ idx \notin {"RESOLUTION", "FORMAT", "CONSTRAINED_INTRA_PREDICTION", "LOOP_FILTER"}
      /\ p \notin {"PortDefinition", "PortFormat", "BufferMode", "Quantization", "Expertise",
                   "MaxPictureSize", "MaxPictureSizeInBits"}
  BY WindowsApart
<1>2. /\ SetApart(idx, F)
      /\ idx = "MAX_PICTURE_SIZES" => p = "MaxPictureSizes" /\ F = {"i", "p", "b"}
  BY WindowFields
<1>3. MustRead(p, port) = {idx}
  BY <1>1 DEF MustRead
<1>4. Writes(p, port, c, v) = <<Write(idx, v)>>
  BY <1>1 DEF Writes
<1>5. \A s : Construct(p, port, c, s) = Pick(F, Get(c, idx, s))
  BY <1>1 DEF Construct
<1>6. HasFields(v, F)
  OBVIOUS
<1> HIDE DEF idx, F
<1>7. /\ SetValue(p, port, c, v, m) = WriteWindow(c, Write(idx, v), m)
      /\ WriteWindow(c, Write(idx, v), m).error = "None" /\ idx \in Readable[c]
  BY <1>3, <1>4, NoErrorIsFirst, ApplyOne
<1>8. PICK x : /\ new = Store(c, idx, x, m) /\ idx \in Settable[c]
               /\ DOMAIN x = Fields(idx) /\ \A f \in F : x[f] = v[f]
  BY <1>1, <1>2, <1>6, <1>7, WrittenOnce
<1> HIDE DEF new
<1>9. \A f \in F : Get(c, idx, new)[f] = v[f]
  <2>1. CASE idx = "MAX_PICTURE_SIZES"
    <3>1. new = [m EXCEPT !.MAX_PICTURE_SIZES_IN_BITS = ScaleSizes(x, 1000)]
      BY <1>8, <2>1 DEF Store
    <3>2. "MAX_PICTURE_SIZES_IN_BITS" \in DOMAIN m
      BY <2>1, <1>7, IndicesOfCodec DEF Sound, Shaped
    <3>3. new.MAX_PICTURE_SIZES_IN_BITS = ScaleSizes(x, 1000)
      BY <3>1, <3>2
    <3>4. Get(c, idx, new) = InThousands(ScaleSizes(x, 1000))
      BY <2>1, <3>3 DEF Get
    <3>5. x.i = v.i /\ x.p = v.p /\ x.b = v.b /\ v.i \in Int /\ v.p \in Int /\ v.b \in Int
      BY <1>2, <1>8, <2>1
    <3>6. Get(c, idx, new) = [i |-> v.i, p |-> v.p, b |-> v.b]
      BY <3>4, <3>5, ThousandsBack DEF InThousands, ScaleSizes
    <3>7. QED
      BY <1>2, <2>1, <3>6
  <2>2. CASE idx # "MAX_PICTURE_SIZES"
    <3>1. idx \in DOMAIN m /\ "RESOLUTION" \in DOMAIN m
      BY <1>7, <2>2, IndicesOfCodec DEF Sound, Shaped
    <3>2. new[idx] = x
      BY <1>1, <1>8, <2>2, <3>1, StoredValue
    <3>3. Get(c, idx, new) = new[idx]
      BY <1>1, <2>2 DEF Get
    <3>4. QED
      BY <1>8, <3>2, <3>3
  <2>3. QED
    BY <2>1, <2>2
<1>10. Pick(F, Get(c, idx, new)) = [f \in F |-> v[f]]
  BY <1>9 DEF Pick
<1>11. QED
  BY <1>5, <1>6, <1>10 DEF HasFields, new

LEMMA BufferModeIsRead ==
  ASSUME NEW c \in Codecs, NEW m, Sound(c, m), NEW port \in Ports, NEW v, HasFields(v, {port}),
         SetValue("BufferMode", port, c, v, m).error = "None"
  PROVE  Construct("BufferMode", port, c, SetValue("BufferMode", port, c, v, m).media) = v
<1> DEFINE idx == "BUFFER_HANDLES"
           new == SetValue("BufferMode", port, c, v, m).media
<1>1. SetApart(idx, {port})
  BY DEF SetApart, Fields, CropIndices, PictureSizeIndices
<1>2. Writes("BufferMode", port, c, v) = <<Write(idx, v)>>
  BY DEF Writes
<1>3. idx \in Readable[c] /\ idx \in DOMAIN m /\ "RESOLUTION" \in DOMAIN m
  BY IndicesOfCodec DEF Sound, Shaped
<1>4. /\ SetValue("BufferMode", port, c, v, m) = WriteWindow(c, Write(idx, v), m)
      /\ WriteWindow(c, Write(idx, v), m).error = "None"
  BY <1>2, NoErrorIsFirst, ApplyOne
<1>5. PICK x : new = Store(c, idx, x, m) /\ x[port] = v[port]
  BY <1>1, <1>3, <1>4, WrittenOnce
<1> HIDE DEF new
<1>6. new[idx] = x
  BY <1>3, <1>5, StoredValue
<1>7. Construct("BufferMode", port, c, new) = [f \in {port} |-> x[f]]
  BY <1>6 DEF Construct, Pick
<1>8. QED
  BY <1>5, <1>7 DEF HasFields, new

\* two writes
LEMMA TwoAnswers ==
  ASSUME NEW p, NEW port, NEW c, NEW v, NEW m, Len(Writes(p, port, c, v)) = 2
  PROVE  Apply(p, port, c, v, m) =
           AfterWrite(c, Writes(p, port, c, v)[2],
                      AfterWrite(c, Writes(p, port, c, v)[1], Answered("None", m)))
<1> DEFINE N == Len(Writes(p, port, c, v))
           writes == Writes(p, port, c, v)
<1>1. N = 2
  OBVIOUS
<1> HIDE DEF N
<1>2. PICK f : /\ f[0] = Answered("None", m)
               /\ \A n \in 1 .. N : f[n] = AfterWrite(c, Writes(p, port, c, v)[n], f[n - 1])
               /\ Apply(p, port, c, v, m) = f[N]
  <2>1. N \in Nat
    BY <1>1
  <2>2. Len(Writes(p, port, c, v)) = N
    BY DEF N
  <2>3. Unfolded(p, port, c, v, m, N)
    BY <2>1, <2>2, ApplyUnfolds
  <2>4. QED
    BY <2>3 DEF Unfolded
<1>3. 1 \in 1 .. N /\ 1 - 1 = 0 /\ 2 \in 1 .. N /\ 2 - 1 = 1 /\ N = 2
  BY <1>1
<1>4. f[1] = AfterWrite(c, writes[1], f[0]) /\ f[2] = AfterWrite(c, writes[2], f[1])
  BY <1>2, <1>3
<1>5. QED
  BY <1>2, <1>3, <1>4 DEF writes

LEMMA ApplyTwo ==
  ASSUME NEW p, NEW port, NEW c, NEW v, NEW m, NEW i, NEW x, NEW j, NEW y,
         Writes(p, port, c, v) = <<Write(i, x), Write(j, y)>>, Apply(p, port, c, v, m).error = "None"
  PROVE  LET first == WriteWindow(c, Write(i, x), m)
         IN /\ first.error = "None" /\ WriteWindow(c, Write(j, y), first.media).error = "None"
            /\ Apply(p, port, c, v, m) = WriteWindow(c, Write(j, y), first.media)
<1> DEFINE w == Write(i, x)
           u == Write(j, y)
           first == WriteWindow(c, w, m)
           answer == Apply(p, port, c, v, m)
<1>1. Len(Writes(p, port, c, v)) = 2 /\ Writes(p, port, c, v)[1] = w /\ Writes(p, port, c, v)[2] = u
  OBVIOUS
<1> HIDE DEF w, u, first
<1>2. answer = AfterWrite(c, u, AfterWrite(c, w, Answered("None", m)))
  BY <1>1, TwoAnswers
<1>3. AfterWrite(c, w, Answered("None", m)) = first
  BY DEF AfterWrite, Answered, Write, first, w
<1>4. AfterWrite(c, u, first) = IF first.error # "None" THEN first ELSE WriteWindow(c, u, first.media)
  BY DEF AfterWrite, Write, u
<1>5. answer = IF first.error # "None" THEN first ELSE WriteWindow(c, u, first.media)
  BY <1>2, <1>3, <1>4
<1> HIDE DEF answer
<1>6. answer.error = "None"
  BY DEF answer
<1>7. first.error = "None" /\ answer = WriteWindow(c, u, first.media)
  BY <1>5, <1>6
<1>8. QED
  BY <1>6, <1>7 DEF answer, first, w, u

\* a rate that is the one of the clock it is turned into
ExactRate(rate) == ConvertMediaToOMXFramerate(ConvertOMXToMediaClock(rate)) = rate

LEMMA PortFormatIsRead ==
  ASSUME NEW c \in Codecs, NEW m, Sound(c, m), NEW port \in Ports, NEW v,
         HasFields(v, {"format", "xFramerate"}), HasFields(v.format, {"color", "bitdepth", "storage"}),
         v.xFramerate \in Nat, ExactRate(v.xFramerate), SetValue("PortFormat", port, c, v, m).error = "None"
  PROVE  Construct("PortFormat", port, c, SetValue("PortFormat", port, c, v, m).media) = v
<1> DEFINE clock == ConvertOMXToMediaClock(v.xFramerate)
           first == WriteWindow(c, Write("CLOCK", clock), m)
           mid == first.media
           second == WriteWindow(c, Write("FORMAT", v.format), mid)
           new == SetValue("PortFormat", port, c, v, m).media
<1>1. Writes("PortFormat", port, c, v) = <<Write("CLOCK", clock), Write("FORMAT", v.format)>>
  BY DEF Writes, SetVideoPortFormat
<1>2. HasFields(clock, {"framerate", "clockratio"})
  BY DEF HasFields, ConvertOMXToMediaClock
<1> HIDE DEF clock
<1>3. first.error = "None" /\ second.error = "None" /\ new = second.media
  BY <1>1, NoErrorIsFirst, ApplyTwo
<1>4. {"CLOCK", "FORMAT"} \subseteq Readable[c] /\ {"RESOLUTION", "FORMAT", "CLOCK"} \subseteq Stored(c)
  BY IndicesOfCodec
<1>5. SetApart("CLOCK", {"framerate", "clockratio"}) /\ SetApart("FORMAT", {"color", "bitdepth", "storage"})
  BY DEF SetApart, Fields, CropIndices, PictureSizeIndices
<1>6. PICK x : mid = Store(c, "CLOCK", x, m) /\ x.framerate = clock.framerate /\ x.clockratio = clock.clockratio
  BY <1>2, <1>3, <1>4, <1>5, WrittenOnce
<1>7. Sound(c, mid)
  <2>1. clock.framerate \in Int /\ clock.clockratio \in Int
    BY ClockNumbers DEF clock
  <2>2. Numbers(Write("CLOCK", clock))
    BY <2>1 DEF Numbers, NumberFields, Write
  <2>3. QED
    BY <2>2, WriteWindowKeeps
<1> HIDE DEF first, mid
<1>8. PICK y : new = Store(c, "FORMAT", y, mid) /\ y = Merge(v.format, Get(c, "FORMAT", mid))
  BY <1>3, <1>4, <1>5, <1>7, WrittenOnce
<1>9. mid.CLOCK = x
  BY <1>4, <1>6 DEF Store, Sound, Shaped
<1>10. DOMAIN Get(c, "FORMAT", mid) = {"color", "bitdepth", "storage"}
  <2>1. Fields("FORMAT") = {"color", "bitdepth", "storage"}
    BY DEF Fields, CropIndices, PictureSizeIndices
  <2>2. QED
    BY <1>4, <1>7, <2>1, GetFields
<1>11. y = v.format
  BY <1>8, <1>10 DEF Merge, HasFields
<1>12. new = UpdateFormat(v.format, mid)
  BY <1>8, <1>11 DEF Store
<1> HIDE DEF new
<1>13. new.FORMAT = v.format /\ new.CLOCK = x
  BY <1>4, <1>7, <1>9, <1>12, UpdateFormatFits DEF Sound, Shaped
<1>14. ConvertMediaToOMXFramerate(x) = v.xFramerate
  BY <1>6 DEF ExactRate, ConvertMediaToOMXFramerate, clock
<1>15. Construct("PortFormat", port, c, new) = [format |-> v.format, xFramerate |-> v.xFramerate]
  BY <1>13, <1>14 DEF Construct, ConstructVideoPortCurrentFormat
<1>16. v = [format |-> v.format, xFramerate |-> v.xFramerate]
  BY DEF HasFields
<1>17. QED
  BY <1>15, <1>16 DEF new

\* The frame rates the clients ask for are those of some clock of the settings.
ExactRates ==
  \A name \in DOMAIN Clients : \A call \in Clients[name].calls :
    call.param = "PortFormat" => ExactRate(call.value.xFramerate)

LEMMA ValueIsRead ==
  ASSUME ExactRates, SInv, NEW call \in Clients[client].calls, call.param \in Exact,
         SetValue(call.param, call.port, codec, call.value, media).error = "None"
  PROVE  Construct(call.param, call.port, codec,
                   SetValue(call.param, call.port, codec, call.value, media).media) = call.value
<1>1. client \in DOMAIN Clients /\ Sound(codec, media)
  BY DEF SInv
<1>2. codec \in Codecs /\ WellFormed(call)
  BY <1>1, CallFacts
<1>3. CASE call.param = "BufferMode"
  BY <1>1, <1>2, <1>3, BufferModeIsRead DEF WellFormed
<1>4. CASE call.param = "PortFormat"
  <2>1. ExactRate(call.value.xFramerate)
    BY <1>1, <1>4 DEF ExactRates
  <2>2. QED
    BY <1>1, <1>2, <1>4, <2>1, PortFormatIsRead DEF WellFormed
<1>5. CASE call.param \in Windows \ {"UniformSliceType"}
  <2>1. /\ HasFields(call.value, WindowOf(call.port)[call.param].fields) /\ call.port \in Ports
        /\ call.param = "MaxPictureSizes" => \A f \in {"i", "p", "b"} : call.value[f] \in Int
    BY <1>2, <1>5 DEF WellFormed
  <2>2. QED
    BY <1>1, <1>2, <1>5, <2>1, WindowIsRead
<1>6. QED
  BY <1>3, <1>4, <1>5 DEF Exact

LEMMA SilentIsNotExact == Silent.param \notin Exact /\ "Role" \notin Exact
BY DEF Silent, Exact, Windows, WindowOf

(* When every frame rate a client asks for is that of some clock: what a      *)
(* call set without an error is what GetParameter gives for it, whatever was   *)
(* set before in the same index, a rate, a size or a count (SetVideo..., the    *)
(* rollbacks and ConstructVideo... of omx_component_getset.cpp).              *)
THEOREM SetIsReadHolds ==
  ASSUME ExactRates
  PROVE  Spec => []SetIsRead
<1>1. Init => SetIsRead
  BY SilentIsNotExact DEF Init, SetIsRead
<1>2. SInv /\ SInv' /\ SetIsRead /\ [Next]_vars => SetIsRead'
  <2> SUFFICES ASSUME SInv, SInv', SetIsRead, [Next]_vars PROVE SetIsRead'
    OBVIOUS
  <2>1. CASE SetParameter
    <3>1. codec' = codec
      BY <2>1 DEF SetParameter, MayCall, codec
    <3>2. PICK call \in Clients[client].calls :
            LET set == SetValue(call.param, call.port, codec, call.value, media)
                refused == RefusedByState(call.port)
                few == TooFew(call.param, call.port, call.value)
            IN /\ last' = Call(call.param, call.port, call.value,
                               IF refused THEN "IncorrectStateOperation" ELSE IF few THEN "BadParameter" ELSE set.error)
               /\ media' = IF ~refused /\ ~few THEN set.media ELSE media
      BY <2>1 DEF SetParameter
    <3> DEFINE set == SetValue(call.param, call.port, codec, call.value, media)
    <3>3. SUFFICES ASSUME last'.param \in Exact, last'.answer = "None"
                   PROVE  Construct(last'.param, last'.port, codec', media') = last'.value
      BY DEF SetIsRead
    <3>4. last'.param = call.param /\ last'.port = call.port /\ last'.value = call.value
      BY <3>2 DEF Call
    <3>5. set.error = "None" /\ media' = set.media
      BY <3>2, <3>3 DEF Call
    <3> HIDE DEF set
    <3>6. Construct(call.param, call.port, codec, set.media) = call.value
      BY <3>3, <3>4, <3>5, ValueIsRead DEF set
    <3>7. QED
      BY <3>1, <3>4, <3>5, <3>6
  <2>2. CASE SetRole
    <3>1. last'.param = "Role"
      BY <2>2 DEF SetRole, Call
    <3>2. QED
      BY <3>1, SilentIsNotExact DEF SetIsRead
  <2>3. ASSUME last' = Silent PROVE SetIsRead'
    BY <2>3, SilentIsNotExact DEF SetIsRead
  <2>4. CASE StartOrStop
    BY <2>4, <2>3 DEF StartOrStop
  <2>5. ASSUME NEW port \in Ports, GetPortDefinition(port) \/ SwitchPort(port) PROVE SetIsRead'
    BY <2>5, <2>3 DEF GetPortDefinition, SwitchPort
  <2>6. CASE UNCHANGED vars
    BY <2>6 DEF vars, SetIsRead, codec
  <2>7. QED
    BY <2>1, <2>2, <2>4, <2>5, <2>6 DEF Next
<1>3. QED
  BY <1>1, <1>2, SoundInductive, PTL DEF Spec
-----------------------------------------------------------------------------
(* What a rollback gives back: the settings it has read are accepted again,     *)
(* and the conversions there and back give the same.                           *)
SteadyClock(clock) == ConvertOMXToMediaClock(ConvertMediaToOMXFramerate(clock)) = clock
SteadyGop(gop) ==
  ConvertOMXToMediaBFrames(ConvertMediaToOMXBFrames(gop), ConvertMediaToOMXPFrames(gop)) = gop.b

WholeFields(idx) ==
  CASE idx = "BITRATE" -> {"target", "max"}
    [] idx = "QUANTIZATION_PARAMETER" -> {"initial", "deltaIP", "deltaPB"}
    [] idx \in PictureSizeIndices -> {"i", "p", "b"}
    [] OTHER -> {}
Steady(idx, v) ==
  /\ \A f \in WholeFields(idx) : v[f] \in Int
  /\ idx = "CLOCK" => SteadyClock(v)
  /\ idx = "GROUP_OF_PICTURES" => SteadyGop(v)
\* the rate control is checked against a clock that may have changed since; a plugin
\* that was never set is not accepted, and is not written back either
Accepted(c, idx, v, m) == idx \notin {"BITRATE", "RATE_CONTROL_PLUGIN"} => Accepts(c, idx, v, m)
Restorable(c, m) ==
  \A idx \in Stored(c) :
    HasFields(m[idx], Fields(idx)) /\ Steady(idx, m[idx]) /\ Accepted(c, idx, m[idx], m)

\* what is accepted but for the rate control is accepted beside any other settings
LEMMA AcceptedAnywhere ==
  ASSUME NEW c, NEW idx, NEW v, NEW m, NEW n, Accepted(c, idx, v, m)
  PROVE  Accepted(c, idx, v, n)
BY DEF Accepted, Accepts

\* the size and the recovery point message are never refused
LEMMA FreeIndices ==
  ASSUME NEW c, NEW idx \in {"RESOLUTION", "RECOVERY_POINT_SEI"}, NEW v, NEW m
  PROVE  Steady(idx, v) /\ Accepted(c, idx, v, m)
BY DEF Steady, WholeFields, PictureSizeIndices, Accepted, Accepts, CropIndices, EnumIndices, ColourIndices

\* the defaults
LEMMA WholeRatesSteady ==
  ASSUME NEW n \in Nat \ {0}
  PROVE  SteadyClock([framerate |-> n, clockratio |-> 1000])
<1> DEFINE clock == [framerate |-> n, clockratio |-> 1000]
<1>1. Q16 \in Nat \ {0}
  BY Q16Assumption
<1>2. ConvertMediaToOMXFramerate(clock) = n * Q16
  <2>1. n * 1000 * Q16 = 1000 * (n * Q16)
    BY <1>1
  <2>2. n * Q16 \in Nat
    BY <1>1
  <2>3. \A k \in Nat : (1000 * k + 1000 - 1) \div 1000 = k
    OBVIOUS
  <2>4. QED
    BY <2>1, <2>2, <2>3 DEF ConvertMediaToOMXFramerate, CeilDiv
<1>3. \A k, b \in Nat : b > 0 => (k * b + b - 1) \div b = k
  <2> SUFFICES ASSUME NEW k \in Nat, NEW b \in Nat, b > 0 PROVE (k * b + b - 1) \div b = k
    OBVIOUS
  <2> DEFINE q == (k * b + b - 1) \div b
  <2>1. q \in Int /\ b * q <= k * b + b - 1 /\ k * b + b - 1 < b * q + b
    BY SMTT(30)
  <2> HIDE DEF q
  <2>2. b * q < b * (k + 1) /\ b * k < b * (q + 1)
    BY <2>1
  <2>3. q < k + 1 /\ k < q + 1
    BY <2>1, <2>2, SMTT(30)
  <2>4. QED
    BY <2>1, <2>3 DEF q
<1>4. CeilDiv(n * Q16, Q16) = n
  BY <1>1, <1>3 DEF CeilDiv
<1>5. RoundDiv(n * 1000 * Q16, n * Q16) = 1000
  <2> DEFINE d == n * Q16
  <2>1. d \in Nat /\ d > 0 /\ n * 1000 * Q16 = 1000 * d
    BY <1>1, SMTT(30)
  <2> HIDE DEF d
  <2>2. (1000 * d) \div d = 1000 /\ (1000 * d) % d = 0
    BY <2>1, SMTT(30)
  <2>3. QED
    BY <2>1, <2>2 DEF RoundDiv, d
<1>6. ConvertOMXToMediaClock(n * Q16) = clock
  BY <1>4, <1>5 DEF ConvertOMXToMediaClock
<1>7. QED
  BY <1>2, <1>6 DEF SteadyClock

\* the defaults come back from the conversions and are accepted
LEMMA DefaultsSteady ==
  ASSUME NEW c \in Codecs, NEW m, NEW idx \in Stored(c)
  PROVE  Steady(idx, Reset(c)[idx]) /\ Accepted(c, idx, Reset(c)[idx], m)
<1>0. SteadyClock([framerate |-> 15, clockratio |-> 1000]) /\ SteadyClock([framerate |-> 60, clockratio |-> 1000])
  BY WholeRatesSteady
<1>1. CASE c \in Encoders
  <2> DEFINE v == EncoderDefaults(c)[idx]
  <2>1. Reset(c)[idx] = v /\ idx \in EncSettingsAVC_Get \cup EncSettingsMJPEG_Get /\ idx # "MAX_PICTURE_SIZES"
    BY <1>1, DefaultsFor DEF Reset
  <2>2. Steady(idx, v)
    <3>1. CASE idx = "CLOCK"
      <4>1. v = [framerate |-> 15, clockratio |-> 1000]
        BY <3>1, <2>1 DEF EncoderDefaults, CropIndices, FilterOffsetIndices, ColourIndices
      <4>2. QED
        BY <1>0, <3>1, <4>1 DEF Steady, WholeFields, PictureSizeIndices
    <3>2. CASE idx = "GROUP_OF_PICTURES"
      <4>1. v.b = 0 /\ v.length = 30
        BY <3>2, <2>1 DEF EncoderDefaults, DefaultGroupOfPictures, CropIndices, FilterOffsetIndices, ColourIndices
      <4>2. ConvertMediaToOMXPFrames(v) = 29 /\ ConvertMediaToOMXBFrames(v) = 0
        BY <4>1 DEF ConvertMediaToOMXPFrames, ConvertMediaToOMXBFrames
      <4>3. ConvertOMXToMediaBFrames(0, 29) = 0
        BY DEF ConvertOMXToMediaBFrames
      <4>4. QED
        BY <3>2, <4>1, <4>2, <4>3 DEF Steady, SteadyGop, WholeFields, PictureSizeIndices
    <3>3. CASE idx \in {"BITRATE", "QUANTIZATION_PARAMETER", "MAX_PICTURE_SIZES_IN_BITS"}
      BY <3>3, <2>1 DEF EncoderDefaults, DefaultBitrate, Steady, WholeFields, PictureSizeIndices, CropIndices, FilterOffsetIndices, ColourIndices
    <3>4. QED
      BY <2>1, <3>1, <3>2, <3>3 DEF Steady, WholeFields, PictureSizeIndices
  <2>3. Accepted(c, idx, v, m)
    <3>1. CASE idx \in {"PROFILE_LEVEL", "LOOP_FILTER", "FORMAT"}
      BY <1>1, <3>1, <2>1 DEF EncoderDefaults, Accepted, Accepts, CropIndices, PictureSizeIndices, EnumIndices, ColourIndices,
        CheckProfileLevel, Profiles, Levels, DefaultProfile, CheckLoopFilter, CheckFormat, Raster420, Colors, BitDepths,
        Storages, MaxEnum, Encoders, Stored, Readable, Settable, EncSettingsMJPEG_Get, EncSettingsMJPEG_Set,
        EncoderIndices, CommonIndices, SeiIndices, FilterOffsetIndices
    <3>2. CASE idx \in {"BUFFER_HANDLES", "CLOCK", "GROUP_OF_PICTURES", "LOOKAHEAD", "TWOPASS", "QUANTIZATION_PARAMETER",
                       "MAX_PICTURE_SIZES_IN_BITS", "SLICE_PARAMETER", "LOG2_CODING_UNIT", "RATE_CONTROL_PLUGIN"}
      BY <3>2, <2>1 DEF EncoderDefaults, DefaultGroupOfPictures, DefaultLookAhead, DefaultSlices, Accepted, Accepts,
        CropIndices, PictureSizeIndices, EnumIndices, ColourIndices, CheckClock, CheckGroupOfPictures, CheckQuantizationParameter, CheckSlicesParameter, CheckBufferHandles,
        CheckLookAhead, CheckTwoPass, CheckMaxPictureSizes, CheckLog2CodingUnit, MaxEnum, FilterOffsetIndices
    <3>3. CASE idx \in CropIndices
      <4>1. v = NoRegion
        BY <3>3, <2>1 DEF EncoderDefaults, CropIndices, FilterOffsetIndices, ColourIndices
      <4>2. QED
        BY <3>3, <4>1 DEF Accepted, Accepts, CropIndices, PictureSizeIndices, CheckCrop, NoRegion, EnumIndices, ColourIndices
    <3>6. CASE idx \in EnumIndices
      <4>1. idx # "DECODED_PICTURE_BUFFER"
        BY <2>1 DEF EncSettingsAVC_Get, EncSettingsMJPEG_Get, ItuEncoderIndices, EncoderIndices, CommonIndices, SeiIndices,
          ColourIndices, FilterOffsetIndices, CropIndices, PictureSizeIndices
      <4>2. v.value # MaxEnum
        BY <3>6, <4>1, <2>1 DEF EncoderDefaults, EnumIndices, CropIndices, FilterOffsetIndices, ColourIndices, MaxEnum
      <4>3. QED
        BY <3>6, <4>2 DEF Accepted, Accepts, CropIndices, PictureSizeIndices, EnumIndices, ColourIndices
    <3>4. CASE idx \notin {"BUFFER_HANDLES", "CLOCK", "GROUP_OF_PICTURES", "LOOKAHEAD", "TWOPASS", "QUANTIZATION_PARAMETER",
                       "MAX_PICTURE_SIZES_IN_BITS", "SLICE_PARAMETER", "LOG2_CODING_UNIT", "RATE_CONTROL_PLUGIN",
                       "PROFILE_LEVEL", "LOOP_FILTER", "FORMAT"} \cup CropIndices \cup EnumIndices
      <4>1. idx \notin {"INTERNAL_ENTROPY_BUFFER", "SEQUENCE_PICTURE_MODE", "MAX_PICTURE_SIZES"}
        BY <2>1 DEF EncSettingsAVC_Get, EncSettingsMJPEG_Get, ItuEncoderIndices, EncoderIndices, CommonIndices, SeiIndices,
          ColourIndices, FilterOffsetIndices, CropIndices, PictureSizeIndices
      <4>2. QED
        BY <3>4, <4>1 DEF Accepted, Accepts, PictureSizeIndices
    <3>5. QED
      BY <3>1, <3>2, <3>3, <3>4, <3>6
  <2>4. QED
    BY <2>1, <2>2, <2>3
<1>2. CASE c \in Decoders
  <2> DEFINE v == DecoderDefaults(c)[idx]
  <2>1. Reset(c)[idx] = v /\ idx \in DecSettingsAVC_Get
    BY <1>2, DefaultsFor DEF Reset
  <2>2. Steady(idx, v)
    BY <1>0, <2>1 DEF DecoderDefaults, Steady, WholeFields, PictureSizeIndices, DecSettingsAVC_Get, DecoderIndices, CommonIndices
  <2>3. Accepted(c, idx, v, m)
    BY <1>2, <2>1 DEF DecoderDefaults, Accepted, Accepts, CropIndices, PictureSizeIndices, EnumIndices, ColourIndices,
      CheckProfileLevel, Profiles, Levels, DefaultProfile, CheckFormat, Raster420, Colors, BitDepths, Storages, MaxEnum,
      Encoders, Decoders, CheckClock, CheckBufferHandles, CheckInternalEntropyBuffer, CheckSequenceMode, SequenceModes,
      Stored, Readable, Settable, DecSettingsAVC_Get, DecSettingsAVC_Set, DecSettingsHEVC_Get, DecSettingsHEVC_Set,
      DecSettingsJPEG_Get, DecSettingsJPEG_Set, DecoderIndices, CommonIndices
  <2>4. QED
    BY <2>1, <2>2, <2>3
<1>3. QED
  BY <1>1, <1>2 DEF Codecs

\* a value that is a function of its fields
Whole(x) == x = [f \in DOMAIN x |-> x[f]]

\* the defaults are records of their fields and of nothing else
LEMMA OwnDefaultsWhole ==
  Whole(On) /\ Whole(Off) /\ Whole(DefaultBitrate) /\ Whole(DefaultGroupOfPictures) /\ Whole(DefaultLookAhead) /\ Whole(DefaultSlices)
<1> DEFINE yes == TRUE
           no == FALSE
<1> HIDE DEF yes, no
<1>1. \A a : Whole([value |-> a])
  BY DEF Whole
<1>2. Whole([target |-> 64, max |-> 64, cpb |-> 3000, ird |-> 1500, quality |-> 14,
             mode |-> "cbr", resilient |-> yes, skip |-> no, maxSkip |-> 0])
  BY DEF Whole
<1>3. Whole([b |-> 0, length |-> 30, idrFrequency |-> 0, rpFrequency |-> 0, ltFrequency |-> 0,
             isLongTermEnabled |-> no, mode |-> "default", gdr |-> "off"])
  BY DEF Whole
<1>4. Whole([lookAhead |-> 0, sceneChange |-> no]) /\ Whole([num |-> 1, size |-> 0, dependent |-> no])
  BY DEF Whole
<1>5. Whole(On) /\ Whole(Off)
  BY <1>1 DEF On, Off
<1>6. Whole(DefaultBitrate)
  BY <1>2 DEF DefaultBitrate, yes, no
<1>7. Whole(DefaultGroupOfPictures)
  BY <1>3 DEF DefaultGroupOfPictures, no
<1>8. Whole(DefaultLookAhead) /\ Whole(DefaultSlices)
  BY <1>4 DEF DefaultLookAhead, DefaultSlices, no
<1>9. QED
  BY <1>5, <1>6, <1>7, <1>8

\* so is a record of one value
LEMMA OneFieldWhole == \A a : Whole([value |-> a])
BY DEF Whole

\* every default has the fields of its index
LEMMA DefaultsWhole ==
  ASSUME NEW c \in Codecs, NEW idx \in Stored(c)
  PROVE  HasFields(Reset(c)[idx], Fields(idx))
<1>1. CASE c \in Encoders
  <2> DEFINE v == EncoderDefaults(c)[idx]
  <2>1. Reset(c)[idx] = v /\ idx \in EncSettingsAVC_Get \cup EncSettingsMJPEG_Get /\ idx # "MAX_PICTURE_SIZES"
    BY <1>1, DefaultsFor DEF Reset
  <2>2. DOMAIN v = Fields(idx)
    BY <1>1, <2>1, DefaultsShaped
  <2>3. Whole(v)
    <3> USE DEF EncoderDefaults, CropIndices, FilterOffsetIndices, ColourIndices
    <3>1. CASE idx = "BUFFER_HANDLES"
      BY <2>1, <3>1 DEF Whole
    <3>2. CASE idx = "CLOCK"
      BY <2>1, <3>2 DEF Whole
    <3>3. CASE idx = "FORMAT"
      BY <2>1, <3>3 DEF Raster420, Whole
    <3>4. CASE idx = "RESOLUTION"
      BY <2>1, <3>4 DEF SmallPicture, Whole
    <3>5. CASE idx \in {"BITRATE", "GROUP_OF_PICTURES", "LOOKAHEAD", "SLICE_PARAMETER"}
      <4>1. v \in {DefaultBitrate, DefaultGroupOfPictures, DefaultLookAhead, DefaultSlices}
        BY <2>1, <3>5
      <4>2. QED
        BY <4>1, OwnDefaultsWhole
    <3>6. CASE idx = "TWOPASS"
      BY <2>1, <3>6 DEF Whole
    <3>7. CASE idx = "MAX_PICTURE_SIZES_IN_BITS"
      BY <2>1, <3>7 DEF Whole
    <3>8. CASE idx = "QUANTIZATION_PARAMETER"
      BY <2>1, <3>8 DEF Whole
    <3>9. CASE idx \in {"RATE_CONTROL_PLUGIN", "LOG2_CODING_UNIT", "PROFILE_LEVEL"}
      BY <2>1, <3>9 DEF Whole
    <3>10. CASE idx \in {"ASPECT_RATIO", "SCALING_LIST", "START_CODE_BYTES_ALIGNMENT", "VIDEO_MODE", "LOOP_FILTER",
                         "ENTROPY_CODING"}
      BY <2>1, <3>10, OneFieldWhole
    <3>11. CASE idx \in CropIndices \cup FilterOffsetIndices \cup ColourIndices
      BY <2>1, <3>11, OneFieldWhole DEF NoRegion, Whole
    <3>12. CASE idx \notin {"BUFFER_HANDLES", "CLOCK", "FORMAT", "RESOLUTION", "BITRATE", "GROUP_OF_PICTURES", "LOOKAHEAD",
                         "TWOPASS", "MAX_PICTURE_SIZES_IN_BITS", "QUANTIZATION_PARAMETER", "RATE_CONTROL_PLUGIN",
                         "SLICE_PARAMETER", "LOG2_CODING_UNIT", "PROFILE_LEVEL", "ASPECT_RATIO",
                         "SCALING_LIST", "START_CODE_BYTES_ALIGNMENT", "VIDEO_MODE", "LOOP_FILTER", "ENTROPY_CODING"}
                        \cup CropIndices \cup FilterOffsetIndices \cup ColourIndices
      <4>1. v \in {Off, On}
        BY <2>1, <3>12
      <4>2. QED
        BY <4>1, OwnDefaultsWhole
    <3>13. QED
      BY <3>1, <3>2, <3>3, <3>4, <3>5, <3>6, <3>7, <3>8, <3>9, <3>10, <3>11, <3>12
  <2>4. QED
    BY <2>1, <2>2, <2>3 DEF HasFields, Whole
<1>2. CASE c \in Decoders
  <2> DEFINE v == DecoderDefaults(c)[idx]
  <2>1. Reset(c)[idx] = v /\ idx \in DecSettingsAVC_Get
    BY <1>2, DefaultsFor DEF Reset
  <2>2. DOMAIN v = Fields(idx)
    BY <1>2, <2>1, DefaultsShaped
  <2>3. Whole(v)
    <3> USE DEF DecoderDefaults
    <3>1. CASE idx \in {"BUFFER_HANDLES", "CLOCK", "FORMAT"}
      BY <3>1 DEF Raster420, Whole
    <3>2. CASE idx = "RESOLUTION"
      BY <3>2 DEF SmallPicture, Whole
    <3>3. CASE idx \in {"SUBFRAME", "INPUT_PARSED", "LLP2_EARLY_CB", "REALTIME"}
      <4>1. v = Off
        BY <3>3
      <4>2. QED
        BY <4>1, OwnDefaultsWhole
    <3>4. CASE idx \in {"INTERNAL_ENTROPY_BUFFER", "DECODED_PICTURE_BUFFER", "SEQUENCE_PICTURE_MODE"}
      BY <3>4, OneFieldWhole
    <3>5. CASE idx \in {"OUTPUT_POSITION", "PROFILE_LEVEL"}
      BY <3>5 DEF Whole
    <3>6. QED
      BY <2>1, <3>1, <3>2, <3>3, <3>4, <3>5 DEF DecSettingsAVC_Get, DecoderIndices, CommonIndices
  <2>4. QED
    BY <2>1, <2>2, <2>3 DEF HasFields, Whole
<1>3. QED
  BY <1>1, <1>2 DEF Codecs

\* the defaults can be set back
LEMMA ResetRestorable == \A c \in Codecs : Restorable(c, Reset(c))
BY DefaultsSteady, DefaultsWhole DEF Restorable
-----------------------------------------------------------------------------
(* Writing keeps the settings restorable.                                     *)
LEMMA ChangesRestorable ==
  ASSUME NEW c, NEW m, Restorable(c, m), NEW n,
         \A idx \in Stored(c) : n[idx] = m[idx] \/ (HasFields(n[idx], Fields(idx)) /\ Steady(idx, n[idx]) /\ Accepted(c, idx, n[idx], m))
  PROVE  Restorable(c, n)
<1> SUFFICES ASSUME NEW idx \in Stored(c)
             PROVE  HasFields(n[idx], Fields(idx)) /\ Steady(idx, n[idx]) /\ Accepted(c, idx, n[idx], n)
  BY DEF Restorable
<1>1. HasFields(n[idx], Fields(idx)) /\ Steady(idx, n[idx]) /\ Accepted(c, idx, n[idx], m)
  BY DEF Restorable
<1>2. QED
  BY <1>1, AcceptedAnywhere

\* settings reset in use can be set back, whatever log they keep
LEMMA ResetInUseRestorable ==
  ASSUME NEW c \in Codecs, NEW m
  PROVE  Restorable(c, ResetInUse(c, m))
<1> DEFINE tp == [Reset(c).TWOPASS EXCEPT !.sLogFile = m.TWOPASS.sLogFile]
           n == ResetInUse(c, m)
<1>1. CASE c \notin Encoders
  BY <1>1, ResetRestorable DEF ResetInUse
<1>2. CASE c \in Encoders
  <2>1. "TWOPASS" \in Stored(c) /\ DOMAIN Reset(c) = Stored(c)
    BY <1>2 DEF Reset, Encoders, Stored, Readable, Settable, EncSettingsAVC_Get, EncSettingsAVC_Set,
      EncSettingsHEVC_Get, EncSettingsHEVC_Set, EncSettingsMJPEG_Get, EncSettingsMJPEG_Set,
      ItuEncoderIndices, EncoderIndices, CommonIndices
  <2>2. HasFields(Reset(c).TWOPASS, Fields("TWOPASS")) /\ Accepted(c, "TWOPASS", Reset(c).TWOPASS, m)
    BY <2>1, ResetRestorable, AcceptedAnywhere DEF Restorable
  <2>3. Fields("TWOPASS") = {"nPass", "sLogFile"}
    BY DEF Fields, CropIndices, PictureSizeIndices
  <2>4. HasFields(tp, Fields("TWOPASS")) /\ tp.nPass = Reset(c).TWOPASS.nPass
    BY <2>2, <2>3 DEF HasFields
  <2>5. \A idx \in Stored(c) : n[idx] = IF idx = "TWOPASS" THEN tp ELSE Reset(c)[idx]
    BY <1>2, <2>1 DEF ResetInUse
  <2> HIDE DEF tp, n
  <2>6. Steady("TWOPASS", tp)
    BY DEF Steady, WholeFields, PictureSizeIndices
  <2>7. Accepted(c, "TWOPASS", tp, Reset(c))
    BY <2>2, <2>4 DEF Accepted, Accepts, CheckTwoPass, CropIndices, PictureSizeIndices, EnumIndices, ColourIndices
  <2>8. QED
    BY <2>4, <2>5, <2>6, <2>7, ResetRestorable, ChangesRestorable DEF n
<1>3. QED
  BY <1>1, <1>2

\* what a write of one index may change
Touched(idx) ==
  CASE idx = "FORMAT" -> {"FORMAT", "RESOLUTION"}
    [] idx = "GROUP_OF_PICTURES" -> {"GROUP_OF_PICTURES", "RECOVERY_POINT_SEI"}
    [] idx = "MAX_PICTURE_SIZES" -> {"MAX_PICTURE_SIZES_IN_BITS"}
    [] OTHER -> {idx}
Differ(n, m, D) == DOMAIN n = DOMAIN m /\ \A idx \in DOMAIN m \ D : n[idx] = m[idx]

\* what a write may change
LEMMA StoreTouches ==
  ASSUME NEW c, NEW m, NEW idx, NEW v
  PROVE  Differ(Store(c, idx, v, m), m, Touched(idx))
<1>1. CASE idx = "FORMAT"
  BY <1>1 DEF Store, UpdateFormat, Touched, Differ
<1>2. CASE idx = "RESOLUTION"
  BY <1>2 DEF Store, UpdateResolution, Touched, Differ
<1>3. CASE idx = "GROUP_OF_PICTURES"
  BY <1>3 DEF Store, UpdateGroupOfPictures, Touched, Differ
<1>4. CASE idx = "CONSTRAINED_INTRA_PREDICTION"
  BY <1>4 DEF Store, UpdateConstrainedIntraPrediction, Touched, Differ
<1>5. CASE idx = "LOOP_FILTER"
  BY <1>5 DEF Store, UpdateLoopFilter, Touched, Differ
<1>6. CASE idx = "MAX_PICTURE_SIZES"
  BY <1>6 DEF Store, Touched, Differ
<1>7. CASE idx \notin {"FORMAT", "RESOLUTION", "GROUP_OF_PICTURES", "CONSTRAINED_INTRA_PREDICTION", "LOOP_FILTER",
                        "MAX_PICTURE_SIZES"}
  BY <1>7 DEF Store, Touched, Differ
<1>8. QED
  BY <1>1, <1>2, <1>3, <1>4, <1>5, <1>6, <1>7

\* storing a value that was accepted
LEMMA StoreRestorable ==
  ASSUME NEW c \in Codecs, NEW m, Sound(c, m), Restorable(c, m), NEW idx \in Settable[c], NEW v,
         HasFields(v, Fields(idx)), Steady(idx, v), Accepted(c, idx, v, m)
  PROVE  Restorable(c, Store(c, idx, v, m))
<1> DEFINE n == Store(c, idx, v, m)
<1>1. DOMAIN m = Stored(c) /\ {"RESOLUTION", "FORMAT"} \subseteq Stored(c) /\ "MAX_PICTURE_SIZES" \notin Stored(c)
  BY IndicesOfCodec, DefaultsFor DEF Sound, Shaped
<1>2. Differ(n, m, Touched(idx))
  BY StoreTouches
<1> HIDE DEF n
<1>0. HasFields(n.RESOLUTION, Fields("RESOLUTION"))
      /\ (idx = "GROUP_OF_PICTURES" => HasFields(n.RECOVERY_POINT_SEI, Fields("RECOVERY_POINT_SEI")))
  <2>0. /\ Fields("RESOLUTION") = {"width", "height", "stride", "sliceHeight"}
        /\ Fields("RECOVERY_POINT_SEI") = {"value"}
        /\ HasFields(m.RESOLUTION, Fields("RESOLUTION"))
        /\ idx = "GROUP_OF_PICTURES" => "RECOVERY_POINT_SEI" \in Stored(c)
    BY <1>1, IndicesOfCodec DEF Fields, CropIndices, PictureSizeIndices, Restorable
  <2>1. CASE idx = "FORMAT"
    <3>1. n = UpdateFormat(v, m)
      BY <2>1 DEF n, Store
    <3>2. n.RESOLUTION = [m.RESOLUTION EXCEPT !.stride = Larger(MinStride(m.RESOLUTION.width, v), @)]
      BY <1>1, <3>1 DEF UpdateFormat
    <3>3. QED
      BY <2>0, <2>1, <3>2 DEF HasFields
  <2>2. CASE idx = "RESOLUTION"
    <3>1. n = UpdateResolution(v, m)
      BY <2>2 DEF n, Store
    <3>2. n.RESOLUTION = [width |-> v.width, height |-> v.height,
            stride |-> Larger(MinStride(v.width, m.FORMAT), RoundUp(v.stride, HAlign)),
            sliceHeight |-> Larger(RoundUp(v.height, VAlign), RoundUp(v.sliceHeight, VAlign))]
      BY <1>1, <3>1 DEF UpdateResolution
    <3>3. QED
      BY <2>0, <2>2, <3>2 DEF HasFields
  <2>3. CASE idx \notin {"FORMAT", "RESOLUTION"}
    <3>1. n.RESOLUTION = m.RESOLUTION
      BY <1>1, <1>2, <2>3 DEF Differ, Touched
    <3>2. CASE idx = "GROUP_OF_PICTURES"
      <4>1. n = UpdateGroupOfPictures(v, m)
        BY <3>2 DEF n, Store
      <4>2. n.RECOVERY_POINT_SEI = [value |-> IsGDREnabled(v)]
        BY <1>1, <2>0, <3>2, <4>1 DEF UpdateGroupOfPictures
      <4>3. Whole(n.RECOVERY_POINT_SEI) /\ DOMAIN n.RECOVERY_POINT_SEI = {"value"}
        BY <4>2, OneFieldWhole
      <4>4. QED
        BY <2>0, <3>1, <4>3 DEF HasFields, Whole
    <3>3. QED
      BY <2>0, <3>1, <3>2
  <2>4. QED
    BY <2>1, <2>2, <2>3
<1>3. ASSUME NEW i \in Stored(c), n[i] # m[i]
      PROVE  HasFields(n[i], Fields(i)) /\ Steady(i, n[i]) /\ Accepted(c, i, n[i], m)
  <2>1. i \in Touched(idx)
    BY <1>1, <1>2, <1>3 DEF Differ
  <2>2. CASE i = idx
    <3>1. CASE idx = "RESOLUTION"
      BY <1>0, <2>2, <3>1, FreeIndices
    <3>2. CASE idx \notin {"RESOLUTION", "CONSTRAINED_INTRA_PREDICTION", "LOOP_FILTER"}
      <4>1. n[idx] = v
        BY <1>1, <2>2, <3>2, StoredValue DEF n
      <4>2. QED
        BY <2>2, <4>1
    <3>3. CASE idx \in {"CONSTRAINED_INTRA_PREDICTION", "LOOP_FILTER"}
      <4>1. n \in {m, [m EXCEPT ![idx] = v]}
        BY <3>3 DEF n, Store, UpdateConstrainedIntraPrediction, UpdateLoopFilter
      <4>2. n[idx] = v
        BY <1>1, <1>3, <2>2, <4>1
      <4>3. QED
        BY <2>2, <4>2
    <3>4. QED
      BY <3>1, <3>2, <3>3
  <2>3. CASE i # idx /\ i \in {"RESOLUTION", "RECOVERY_POINT_SEI"}
    <3>1. i = "RECOVERY_POINT_SEI" => idx = "GROUP_OF_PICTURES"
      BY <2>1, <2>3 DEF Touched
    <3>2. QED
      BY <1>0, <2>3, <3>1, FreeIndices
  <2>4. CASE i # idx /\ i \notin {"RESOLUTION", "RECOVERY_POINT_SEI"}
    <3>1. idx = "MAX_PICTURE_SIZES" /\ i = "MAX_PICTURE_SIZES_IN_BITS"
      BY <2>1, <2>4 DEF Touched
    <3>2. n[i] = ScaleSizes(v, 1000)
      BY <1>1, <3>1 DEF n, Store
    <3>3. v.i \in Int /\ v.p \in Int /\ v.b \in Int /\ v.i >= 0 /\ v.p >= 0 /\ v.b >= 0
      BY <3>1 DEF Steady, WholeFields, PictureSizeIndices, Accepted, Accepts, CropIndices, EnumIndices, ColourIndices,
        CheckMaxPictureSizes
    <3>4. /\ \A f \in {"i", "p", "b"} : n[i][f] \in Int
          /\ CheckMaxPictureSizes(n[i])
      BY <3>2, <3>3 DEF ScaleSizes, CheckMaxPictureSizes
    <3>6. HasFields(n[i], {"i", "p", "b"})
      BY <3>2 DEF ScaleSizes, HasFields
    <3> HIDE DEF n
    <3>5. QED
      BY <3>1, <3>4, <3>6 DEF Fields, Steady, WholeFields, PictureSizeIndices, Accepted, Accepts, CropIndices, EnumIndices, ColourIndices
  <2>5. QED
    BY <2>2, <2>3, <2>4
<1>4. QED
  BY <1>3, ChangesRestorable DEF n

\* a write that keeps what is stored steady
Faithful(w) ==
  /\ \A f \in WholeFields(w.index) \cap DOMAIN w.value : w.value[f] \in Int
  /\ w.index = "LOOP_FILTER" => HasFields(w.value, {"value"})
  /\ w.index = "CLOCK" => HasFields(w.value, {"framerate", "clockratio"}) /\ SteadyClock(w.value)
  /\ w.index = "GROUP_OF_PICTURES" =>
       {"b", "length"} \cap DOMAIN w.value = {} \/ ({"b", "length"} \subseteq DOMAIN w.value /\ SteadyGop(w.value))

\* Set, whatever it answers
LEMMA SetRestorable ==
  ASSUME NEW c \in Codecs, NEW m, Sound(c, m), Restorable(c, m), NEW idx, NEW v,
         HasFields(v, Fields(idx)), Steady(idx, v)
  PROVE  Restorable(c, Set(c, idx, v, m).media)
<1> DEFINE given == IF idx = "QUANTIZATION_PARAMETER" THEN UpdateQuantizationParameter(v) ELSE v
<1>0. DOMAIN v = Fields(idx)
  BY DEF HasFields
<1>1. Steady(idx, given) /\ HasFields(given, Fields(idx))
  <2>1. CASE idx = "QUANTIZATION_PARAMETER"
    <3>1. WholeFields(idx) = {"initial", "deltaIP", "deltaPB"} /\ WholeFields(idx) \subseteq DOMAIN v
      BY <1>0, <2>1 DEF WholeFields, PictureSizeIndices, Fields, CropIndices
    <3>2. v.initial \in Int /\ v.deltaIP \in Int /\ v.deltaPB \in Int
      BY <3>1 DEF Steady
    <3>3. given = [v EXCEPT !.deltaIP = NotBelow(@), !.deltaPB = NotBelow(@)]
      BY <2>1 DEF UpdateQuantizationParameter
    <3>6. HasFields(given, Fields(idx))
      BY <1>0, <3>3 DEF HasFields
    <3> HIDE DEF given
    <3>4. given.initial \in Int /\ given.deltaIP \in Int /\ given.deltaPB \in Int
      BY <3>1, <3>2, <3>3 DEF NotBelow
    <3>5. QED
      BY <2>1, <3>1, <3>4, <3>6 DEF Steady
  <2>2. CASE idx # "QUANTIZATION_PARAMETER"
    BY <2>2
  <2>3. QED
    BY <2>1, <2>2
<1> HIDE DEF given
<1>2. idx \in Settable[c] /\ Accepts(c, idx, given, m) => Restorable(c, Store(c, idx, given, m))
  BY <1>1, StoreRestorable DEF Accepted
<1>3. Set(c, idx, v, m).media \in {m, IF idx \in Settable[c] /\ Accepts(c, idx, given, m) THEN Store(c, idx, given, m) ELSE m}
  BY DEF Set, Answered, given
<1>4. QED
  BY <1>2, <1>3

\* what is read comes back from the conversions
LEMMA GetSteady ==
  ASSUME NEW c \in Codecs, NEW m, Sound(c, m), Restorable(c, m), NEW idx \in Readable[c]
  PROVE  Steady(idx, Get(c, idx, m))
<1>1. idx # "MAX_PICTURE_SIZES" => idx \in Stored(c)
  BY IndicesOfCodec
<1>2. CASE idx = "MAX_PICTURE_SIZES"
  <2> DEFINE v == m.MAX_PICTURE_SIZES_IN_BITS
  <2>1. "MAX_PICTURE_SIZES_IN_BITS" \in Stored(c)
    BY <1>2, IndicesOfCodec
  <2>2. v.i \in Int /\ v.p \in Int /\ v.b \in Int
    BY <2>1 DEF Restorable, Steady, WholeFields, PictureSizeIndices
  <2>3. Get(c, idx, m) = InThousands(v)
    BY <1>2 DEF Get
  <2> HIDE DEF v
  <2>4. \A f \in {"i", "p", "b"} : InThousands(v)[f] \in Int
    BY <2>2 DEF InThousands
  <2>5. QED
    BY <1>2, <2>3, <2>4 DEF Steady, WholeFields, PictureSizeIndices
<1>3. CASE idx = "RESOLUTION"
  BY <1>3, FreeIndices
<1>4. CASE idx \notin {"MAX_PICTURE_SIZES", "RESOLUTION"}
  BY <1>1, <1>4 DEF Get, Restorable
<1>5. QED
  BY <1>2, <1>3, <1>4

\* what is read is a function of the fields
LEMMA GetWhole ==
  ASSUME NEW c \in Codecs, NEW m, Sound(c, m), Restorable(c, m), NEW idx \in Readable[c]
  PROVE  HasFields(Get(c, idx, m), Fields(idx))
<1>1. idx # "MAX_PICTURE_SIZES" => idx \in Stored(c)
  BY IndicesOfCodec
<1>2. CASE idx = "MAX_PICTURE_SIZES"
  <2>1. Get(c, idx, m) = InThousands(m.MAX_PICTURE_SIZES_IN_BITS)
    BY <1>2 DEF Get
  <2>2. HasFields(InThousands(m.MAX_PICTURE_SIZES_IN_BITS), {"i", "p", "b"})
    BY DEF InThousands, HasFields
  <2>3. QED
    BY <1>2, <2>1, <2>2 DEF Fields, CropIndices, PictureSizeIndices
<1>3. CASE idx = "RESOLUTION"
  <2>1. Get(c, idx, m) \in {m[idx], [m.RESOLUTION EXCEPT !.sliceHeight = @ \div 4]}
    BY <1>3 DEF Get
  <2>2. HasFields(m.RESOLUTION, Fields(idx))
    BY <1>1, <1>3 DEF Restorable
  <2>3. QED
    BY <1>3, <2>1, <2>2 DEF HasFields
<1>4. CASE idx \notin {"MAX_PICTURE_SIZES", "RESOLUTION"}
  BY <1>1, <1>4 DEF Get, Restorable
<1>5. QED
  BY <1>2, <1>3, <1>4

\* a window over the fields already there
LEMMA MergeWhole == \A new, old : HasFields(Merge(new, old), DOMAIN old)
BY DEF Merge, HasFields

\* the numbers are fields of their index
LEMMA WholeAreFields == \A idx : WholeFields(idx) \subseteq Fields(idx)
BY DEF WholeFields, Fields, CropIndices, PictureSizeIndices

\* the target and the maximum stay numbers
LEMMA KeepOrderWhole ==
  ASSUME NEW given, NEW bitrate, bitrate.target \in Int, bitrate.max \in Int, {"target", "max"} \subseteq DOMAIN bitrate
  PROVE  KeepOrder(given, bitrate).target \in Int /\ KeepOrder(given, bitrate).max \in Int
<1>1. Larger(bitrate.max, bitrate.target) \in Int
  BY LargerFacts
<1>2. QED
  BY <1>1 DEF KeepOrder

\* a faithful write over what was read
LEMMA MergeSteady ==
  ASSUME NEW w, Faithful(w), NEW old, DOMAIN old = Fields(w.index), Steady(w.index, old)
  PROVE  Steady(w.index, Merge(w.value, old))
<1> DEFINE idx == w.index
           x == Merge(w.value, old)
<1>1. DOMAIN x = Fields(idx) /\ \A f \in Fields(idx) : x[f] = IF f \in DOMAIN w.value THEN w.value[f] ELSE old[f]
  BY DEF Merge
<1> HIDE DEF x
<1>2. \A f \in WholeFields(idx) : x[f] \in Int
  <2> SUFFICES ASSUME NEW f \in WholeFields(idx) PROVE x[f] \in Int
    OBVIOUS
  <2>1. f \in Fields(idx) /\ old[f] \in Int /\ (f \in DOMAIN w.value => w.value[f] \in Int)
    BY WholeAreFields DEF Faithful, Steady
  <2>2. QED
    BY <1>1, <2>1
<1>3. idx = "CLOCK" => SteadyClock(x)
  <2> SUFFICES ASSUME idx = "CLOCK" PROVE SteadyClock(x)
    OBVIOUS
  <2>1. DOMAIN w.value = {"framerate", "clockratio"} /\ SteadyClock(w.value)
        /\ w.value = [f \in {"framerate", "clockratio"} |-> w.value[f]]
    BY DEF Faithful, HasFields
  <2>2. Fields(idx) = {"framerate", "clockratio"}
    BY DEF Fields, CropIndices, PictureSizeIndices
  <2>3. x = Merge(w.value, old)
    BY DEF x
  <2>4. x = [f \in {"framerate", "clockratio"} |-> w.value[f]]
    BY <2>1, <2>2, <2>3 DEF Merge
  <2>5. QED
    BY <2>1, <2>4
<1>4. idx = "GROUP_OF_PICTURES" => SteadyGop(x)
  <2> SUFFICES ASSUME idx = "GROUP_OF_PICTURES" PROVE SteadyGop(x)
    OBVIOUS
  <2>1. {"b", "length"} \subseteq Fields(idx)
    BY DEF Fields, CropIndices, PictureSizeIndices
  <2>2. SteadyGop(old)
    BY DEF Steady
  <2>3. CASE {"b", "length"} \cap DOMAIN w.value = {}
    <3>1. x.b = old.b /\ x.length = old.length
      BY <1>1, <2>1, <2>3
    <3>2. QED
      BY <2>2, <3>1 DEF SteadyGop, ConvertMediaToOMXBFrames, ConvertMediaToOMXPFrames
  <2>4. CASE {"b", "length"} \subseteq DOMAIN w.value /\ SteadyGop(w.value)
    <3>1. x.b = w.value.b /\ x.length = w.value.length
      BY <1>1, <2>1, <2>4
    <3>2. QED
      BY <2>4, <3>1 DEF SteadyGop, ConvertMediaToOMXBFrames, ConvertMediaToOMXPFrames
  <2>5. QED
    BY <2>3, <2>4 DEF Faithful
<1>5. QED
  BY <1>2, <1>3, <1>4 DEF Steady, x

\* one write of a parameter
LEMMA WriteRestorable ==
  ASSUME NEW c \in Codecs, NEW m, Sound(c, m), Restorable(c, m), NEW w, Faithful(w)
  PROVE  Restorable(c, WriteWindow(c, w, m).media)
<1> DEFINE idx == w.index
           old == Get(c, idx, m)
           merged == Merge(w.value, old)
           v == IF idx = "BITRATE" THEN KeepOrder(w.value, merged) ELSE merged
<1>1. CASE Unconvertible(w)
  BY <1>1 DEF WriteWindow, Answered
<1>2. CASE ~Unconvertible(w) /\ idx \notin Readable[c]
  <2>1. WriteWindow(c, w, m) = Set(c, idx, w.value, m)
    BY <1>2 DEF WriteWindow
  <2>2. CASE idx = "LOOP_FILTER"
    <3>1. Steady(idx, w.value) /\ HasFields(w.value, Fields(idx))
      BY <2>2 DEF Faithful, Fields, CropIndices, Steady, WholeFields, PictureSizeIndices
    <3>2. QED
      BY <2>1, <2>2, <3>1, SetRestorable
  <2>3. CASE idx # "LOOP_FILTER"
    <3>1. idx \notin Settable[c]
      BY <1>2, <2>3, IndicesOfCodec
    <3>2. QED
      BY <2>1, <3>1 DEF Set, Answered
  <2>4. QED
    BY <2>2, <2>3
<1>3. CASE ~Unconvertible(w) /\ idx \in Readable[c]
  <2>1. WriteWindow(c, w, m) = Set(c, idx, v, m)
    BY <1>3 DEF WriteWindow
  <2>2. QED
    <3>1. DOMAIN old = Fields(idx) /\ Steady(idx, old)
      BY <1>3, GetWhole, GetSteady DEF HasFields
    <3> HIDE DEF old
    <3>2. HasFields(merged, Fields(idx)) /\ Steady(idx, merged)
      BY <3>1, MergeFields, MergeSteady, MergeWhole DEF HasFields
    <3> HIDE DEF merged
    <3>3. HasFields(v, Fields(idx))
      BY <3>2 DEF KeepOrder, HasFields
    <3>4. Steady(idx, v)
      <4>1. CASE idx = "BITRATE"
        <5>1. WholeFields(idx) = {"target", "max"} /\ {"target", "max"} \subseteq Fields(idx) /\ DOMAIN merged = Fields(idx)
          BY <3>2, <4>1 DEF HasFields, WholeFields, PictureSizeIndices, Fields, CropIndices
        <5>2. v.target \in Int /\ v.max \in Int
          BY <3>2, <4>1, <5>1, KeepOrderWhole DEF Steady
        <5> HIDE DEF v
        <5>3. QED
          BY <4>1, <5>1, <5>2 DEF Steady
      <4>2. CASE idx # "BITRATE"
        BY <3>2, <4>2
      <4>3. QED
        BY <4>1, <4>2
    <3> HIDE DEF v
    <3>5. QED
      BY <2>1, <3>3, <3>4, SetRestorable
<1>4. QED
  BY <1>1, <1>2, <1>3
-----------------------------------------------------------------------------
(* What the parameters write is steady.                                       *)
LEMMA Quotient ==
  ASSUME NEW n \in Int, NEW d \in Nat \ {0}
  PROVE  n \div d \in Int /\ d * (n \div d) <= n /\ n < d * ((n \div d) + 1)
BY SMTT(30)

\* cancelling a factor
LEMMA LessFactor ==
  ASSUME NEW d \in Nat, NEW x \in Int, NEW y \in Int, d * x < d * y
  PROVE  x < y
BY SMTT(30)

\* the quotient is the only one
LEMMA QuotientIs ==
  ASSUME NEW n \in Int, NEW d \in Nat \ {0}, NEW q \in Int, d * q <= n, n < d * (q + 1)
  PROVE  n \div d = q
<1> DEFINE r == n \div d
<1>1. r \in Int /\ d * r <= n /\ n < d * (r + 1)
  BY Quotient
<1> HIDE DEF r
<1>2. d * q \in Int /\ d * (q + 1) \in Int /\ d * r \in Int /\ d * (r + 1) \in Int
  BY <1>1
<1>3. d * q < d * (r + 1) /\ d * r < d * (q + 1)
  BY <1>1, <1>2
<1>4. q < r + 1 /\ r < q + 1
  BY <1>1, <1>3, LessFactor
<1>5. QED
  BY <1>1, <1>4 DEF r

\* the numbers of P and B frames come back as they were given
LEMMA FramesSteady ==
  ASSUME NEW nB \in Nat, NEW nP \in Nat
  PROVE  SteadyGop([b |-> ConvertOMXToMediaBFrames(nB, nP), length |-> ConvertOMXToMediaGopLength(nB, nP)])
<1> DEFINE n == nB + nP
           b == ConvertOMXToMediaBFrames(nB, nP)
           gop == [b |-> b, length |-> ConvertOMXToMediaGopLength(nB, nP)]
           k == ConvertMediaToOMXPFrames(gop)
<1>1. gop.length - 1 = n /\ n \in Nat /\ gop.b = b
  BY DEF ConvertOMXToMediaGopLength
<1>2. CASE nP = 0
  <2>1. b = 0
    BY <1>2 DEF ConvertOMXToMediaBFrames
  <2>2. k = n
    BY <1>1, <2>1 DEF ConvertMediaToOMXPFrames
  <2>3. ConvertMediaToOMXBFrames(gop) = 0
    <3>1. ConvertMediaToOMXBFrames(gop) = gop.length - k - 1
      BY DEF ConvertMediaToOMXBFrames
    <3>2. gop.length = n + 1
      BY DEF ConvertOMXToMediaGopLength
    <3> HIDE DEF gop, k, n
    <3>3. QED
      BY <1>1, <2>2, <3>1, <3>2
  <2>4. ConvertOMXToMediaBFrames(0, n) = 0
    <3>1. n # 0 => n \div (n + 1) = 0
      BY <1>1, QuotientIs
    <3>2. QED
      BY <1>1, <3>1 DEF ConvertOMXToMediaBFrames
  <2>5. QED
    BY <1>1, <2>1, <2>2, <2>3, <2>4 DEF SteadyGop
<1>3. CASE nP # 0
  <2> DEFINE q == nP + 1
  <2>1. q \in Nat /\ q >= 2 /\ n >= q - 1
    BY <1>3
  <2>2. b = n \div q
    BY <1>3 DEF ConvertOMXToMediaBFrames
  <2> HIDE DEF n, q
  <2>3. b \in Int /\ q * b <= n /\ n < q * (b + 1)
    BY <1>1, <2>1, <2>2, Quotient
  <2>4. b >= 0
    <3>1. q * 0 < q * (b + 1)
      BY <1>1, <2>1, <2>3
    <3>2. 0 < b + 1
      BY <2>1, <2>3, <3>1, LessFactor
    <3>3. QED
      BY <2>3, <3>2
  <2>5. k = n \div (b + 1)
    BY <1>1 DEF ConvertMediaToOMXPFrames
  <2>6. ConvertMediaToOMXBFrames(gop) = n - k
    <3>1. gop.length = n + 1
      BY <1>1 DEF gop, ConvertOMXToMediaGopLength, n
    <3>2. k \in Int
      BY <1>1, <2>3, <2>4, <2>5, Quotient
    <3> HIDE DEF gop, k
    <3>3. ConvertMediaToOMXBFrames(gop) = gop.length - k - 1
      BY DEF ConvertMediaToOMXBFrames, k
    <3>4. QED
      BY <1>1, <3>1, <3>2, <3>3
  <2> HIDE DEF gop, b, k
  <2>7. k \in Int /\ (b + 1) * k <= n /\ n < (b + 1) * (k + 1)
    BY <1>1, <2>3, <2>4, <2>5, Quotient
  <2>8. k + 1 <= q
    <3>1. (b + 1) * k < (b + 1) * q
      <4>1. \A x \in Int, y \in Int : x * y = y * x /\ x * y \in Int
        OBVIOUS
      <4>2. (b + 1) * q = q * (b + 1) /\ (b + 1) * q \in Int /\ (b + 1) * k \in Int
        BY <2>1, <2>3, <2>7, <4>1
      <4>3. QED
        BY <1>1, <2>3, <2>7, <4>2
    <3>2. k < q
      BY <2>1, <2>3, <2>4, <2>7, <3>1, LessFactor
    <3>3. QED
      BY <2>1, <2>7, <3>2
  <2>9. k > 0
    <3>1. n >= 1 /\ q * b >= 2 * b
      BY <1>1, <2>1, <2>3, <2>4, SMTT(30)
    <3>2. n >= b + 1
      BY <1>1, <2>1, <2>3, <2>4, <3>1, SMTT(30)
    <3>3. (b + 1) * 1 < (b + 1) * (k + 1)
      BY <2>3, <2>4, <2>7, <3>2, <1>1
    <3>4. 1 < k + 1
      BY <2>3, <2>4, <2>7, <3>3, LessFactor
    <3>5. QED
      BY <2>7, <3>4
  <2>10. (k + 1) * b <= n
    <3>1. (k + 1) * b <= q * b
      BY <2>1, <2>3, <2>4, <2>7, <2>8, SMTT(30)
    <3>2. QED
      BY <1>1, <2>1, <2>3, <2>7, <3>1
  <2>11. n < (k + 1) * (b + 1)
    BY <2>3, <2>7
  <2>12. n \div (k + 1) = b
    BY <1>1, <2>3, <2>7, <2>9, <2>10, <2>11, QuotientIs
  <2>13. ConvertOMXToMediaBFrames(n - k, k) = b
    <3>1. n - k + k = n
      BY <1>1, <2>7
    <3>2. QED
      BY <2>7, <2>9, <2>12, <3>1 DEF ConvertOMXToMediaBFrames
  <2>14. QED
    BY <1>1, <2>6, <2>13 DEF SteadyGop, k, gop, b
<1>4. QED
  BY <1>2, <1>3

\* the windows leave the conversions alone
LEMMA WindowsWhole ==
  ASSUME NEW port \in Ports, NEW p \in Windows
  PROVE  /\ WindowOf(port)[p].index # "CLOCK"
         /\ WindowOf(port)[p].index = "GROUP_OF_PICTURES" => WindowOf(port)[p].fields \cap {"b", "length"} = {}
         /\ \A f \in WholeFields(WindowOf(port)[p].index) \cap WindowOf(port)[p].fields :
              \/ p = "Bitrate" /\ f = "target"
              \/ p = "MaxBitrate" /\ f = "max"
              \/ p \in {"MaxPictureSizes", "MaxPictureSizesInBits"} /\ f \in {"i", "p", "b"}
<1> DEFINE idx == WindowOf(port)[p].index
           F == WindowOf(port)[p].fields
<1> USE DEF Window
<1>1. CASE p \in ValueWindows
  <2>1. idx \in ValueIndices /\ F = {"value"}
    BY <1>1, ValueWindowFields
  <2> HIDE DEF idx, F
  <2>2. WholeFields(idx) = {} /\ idx # "CLOCK"
    BY <2>1 DEF ValueIndices, WholeFields, PictureSizeIndices
  <2>3. QED
    BY <2>1, <2>2 DEF idx, F
<1>2. CASE p \in {"Bitrate", "MaxBitrate"}
  <2>1. idx = "BITRATE" /\ F = IF p = "Bitrate" THEN {"target", "mode"} ELSE {"max", "quality"}
    BY <1>2 DEF WindowOf, VideoBitrate, VideoMaxBitrate
  <2> HIDE DEF idx, F
  <2>2. WholeFields(idx) = {"target", "max"}
    BY <2>1 DEF WholeFields, PictureSizeIndices
  <2>3. WholeFields(idx) \cap F = IF p = "Bitrate" THEN {"target"} ELSE {"max"}
    BY <1>2, <2>1, <2>2
  <2>4. \A f \in WholeFields(idx) \cap F : (p = "Bitrate" /\ f = "target") \/ (p = "MaxBitrate" /\ f = "max")
    BY <1>2, <2>3
  <2>5. QED
    BY <2>1, <2>4 DEF idx, F
<1>3. CASE p \in {"SceneChangeResilience", "SkipFrame", "CodedPictureBuffer"}
  <2>1. idx = "BITRATE" /\ F \in {{"resilient"}, {"skip", "maxSkip"}, {"cpb", "ird"}}
    BY <1>3 DEF WindowOf, VideoSceneChangeResilience, VideoSkipFrame, VideoCodedPictureBuffer
  <2> HIDE DEF idx, F
  <2>2. WholeFields(idx) \cap F = {}
    BY <2>1 DEF WholeFields, PictureSizeIndices
  <2>3. QED
    BY <2>1, <2>2 DEF idx, F
<1>4. CASE p \in {"QuantizationControl", "QuantizationTable", "QuantizationExtension"}
  <2>1. idx = "QUANTIZATION_PARAMETER" /\ F \in {{"ctrl"}, {"table"}, {"min", "max"}}
    BY <1>4 DEF WindowOf, VideoQuantizationControl, VideoQuantizationTable, VideoQuantizationExtension
  <2> HIDE DEF idx, F
  <2>2. WholeFields(idx) \cap F = {}
    BY <2>1 DEF WholeFields, PictureSizeIndices
  <2>3. QED
    BY <2>1, <2>2 DEF idx, F
<1>5. CASE p \in {"GopControl", "InstantaneousDecodingRefresh", "RecoveryPoint", "LongTerm"}
  <2>1. idx = "GROUP_OF_PICTURES"
        /\ F \in {{"mode", "gdr"}, {"idrFrequency"}, {"rpFrequency"}, {"isLongTermEnabled", "ltFrequency"}}
    BY <1>5 DEF WindowOf, VideoGopControl, VideoInstantaneousDecodingRefresh, VideoRecoveryPoint, VideoLongTerm
  <2> HIDE DEF idx, F
  <2>2. WholeFields(idx) \cap F = {} /\ F \cap {"b", "length"} = {}
    BY <2>1 DEF WholeFields, PictureSizeIndices
  <2>3. QED
    BY <2>1, <2>2 DEF idx, F
<1>6. CASE p \in {"MaxPictureSizes", "MaxPictureSizesInBits"}
  <2>1. idx \in PictureSizeIndices /\ F = {"i", "p", "b"}
    BY <1>6 DEF WindowOf, VideoMaxPictureSizes, VideoMaxPictureSizesInBits, PictureSizeIndices
  <2> HIDE DEF idx, F
  <2>2. idx \notin {"CLOCK", "GROUP_OF_PICTURES"}
    BY <2>1 DEF PictureSizeIndices
  <2>3. QED
    BY <1>6, <2>1, <2>2 DEF idx, F
<1>7. CASE p \in {"LookAhead", "TwoPass", "Slices", "RateControlPlugin", "Crop", "OutputPosition", "ProfileLevelCurrent"}
  <2>1. idx \in {"LOOKAHEAD", "TWOPASS", "SLICE_PARAMETER", "RATE_CONTROL_PLUGIN", "INPUT_CROP", "OUTPUT_CROP",
                 "OUTPUT_POSITION", "PROFILE_LEVEL"}
    BY <1>7 DEF WindowOf, VideoLookAhead, VideoTwoPass, VideoSlices, VideoRateControlPlugin, VideoCrop, VideoOutputPosition,
      ProfileLevel
  <2> HIDE DEF idx
  <2>2. WholeFields(idx) = {}
    BY <2>1 DEF WholeFields, PictureSizeIndices
  <2>3. QED
    BY <2>1, <2>2 DEF idx
<1>8. Windows \subseteq ValueWindows \cup
        {"Bitrate", "MaxBitrate", "SceneChangeResilience", "SkipFrame", "CodedPictureBuffer", "QuantizationControl",
         "QuantizationTable", "QuantizationExtension", "GopControl", "InstantaneousDecodingRefresh", "RecoveryPoint",
         "LongTerm", "MaxPictureSizes", "MaxPictureSizesInBits", "LookAhead", "TwoPass", "Slices", "RateControlPlugin",
         "Crop", "OutputPosition", "ProfileLevelCurrent"}
  BY DEF Windows, WindowOf, ValueWindows
<1>9. QED
  BY <1>1, <1>2, <1>3, <1>4, <1>5, <1>6, <1>7, <1>8

\* a value a client may set, or one that was read
Meant(p, port, v) ==
  /\ p \in {"PortDefinition", "PortFormat"} => SteadyClock(ConvertOMXToMediaClock(v.xFramerate))
  /\ p = "PortDefinition" => v.bitrate \in Int
  /\ p = "Quantization" => \A f \in {"nQpI", "nQpP", "nQpB"} : v[f] \in Int
  /\ p = "Expertise" => v.nB \in Nat /\ v.nP \in Nat
  /\ p \in {"MaxPictureSize", "MaxPictureSizeInBits"} =>
       IF "size" \in DOMAIN v THEN v.size \in Int ELSE \A f \in {"i", "p", "b"} : v[f] \in Int
  /\ p \in Windows => \A f \in WholeFields(WindowOf(port)[p].index) \cap WindowOf(port)[p].fields : v[f] \in Int

\* the clock of a frame rate
LEMMA ClockFields ==
  ASSUME NEW rate
  PROVE  HasFields(ConvertOMXToMediaClock(rate), {"framerate", "clockratio"})
BY DEF HasFields, ConvertOMXToMediaClock

\* an index that is not converted
LEMMA PlainFaithful ==
  ASSUME NEW w, WholeFields(w.index) = {}, w.index \notin {"CLOCK", "GROUP_OF_PICTURES", "LOOP_FILTER"}
  PROVE  Faithful(w)
BY DEF Faithful

\* every write of a parameter that means what it says
LEMMA WritesFaithful ==
  ASSUME NEW p \in Parameters, NEW port \in Ports, NEW c, NEW v, Measured(p, port, v), Meant(p, port, v)
  PROVE  \A n \in 1 .. Len(Writes(p, port, c, v)) : Faithful(Writes(p, port, c, v)[n])
<1> DEFINE writes == Writes(p, port, c, v)
<1>1. CASE p \in {"PortDefinition", "PortFormat"}
  <2> DEFINE w1 == Write("FORMAT", v.format)
             w2 == Write("CLOCK", ConvertOMXToMediaClock(v.xFramerate))
             w3 == Write("RESOLUTION", Pick({"width", "height", "stride", "sliceHeight"}, v))
             w4 == IfKnown("BITRATE", [target |-> v.bitrate])
  <2>1. writes = <<w1, w2, w3, w4>> \/ writes = <<w2, w1>>
    BY <1>1 DEF Writes, SetPortDefinition, SetVideoPortFormat
  <2>2. Faithful(w1) /\ Faithful(w3)
    BY PlainFaithful DEF Write, WholeFields, PictureSizeIndices
  <2>3. Faithful(w2)
    <3>1. SteadyClock(ConvertOMXToMediaClock(v.xFramerate))
      BY <1>1 DEF Meant
    <3>2. QED
      BY <3>1, ClockFields DEF Faithful, Write, WholeFields, PictureSizeIndices
  <2>4. p = "PortDefinition" => Faithful(w4)
    BY DEF Faithful, IfKnown, WholeFields, PictureSizeIndices, Meant
  <2>5. writes = <<w2, w1>> \/ (p = "PortDefinition" /\ writes = <<w1, w2, w3, w4>>)
    BY <1>1 DEF Writes, SetPortDefinition, SetVideoPortFormat
  <2> HIDE DEF w1, w2, w3, w4, writes
  <2>6. CASE writes = <<w2, w1>>
    <3>1. Len(writes) = 2 /\ writes[1] = w2 /\ writes[2] = w1
      BY <2>6
    <3>2. \A n \in 1 .. Len(writes) : n \in {1, 2}
      BY <3>1
    <3>3. QED
      BY <2>2, <2>3, <3>1, <3>2 DEF writes
  <2>7. CASE p = "PortDefinition" /\ writes = <<w1, w2, w3, w4>>
    <3>1. Len(writes) = 4 /\ writes[1] = w1 /\ writes[2] = w2 /\ writes[3] = w3 /\ writes[4] = w4
      BY <2>7
    <3>2. \A n \in 1 .. Len(writes) : n \in {1, 2, 3, 4}
      BY <3>1
    <3>3. QED
      BY <2>2, <2>3, <2>4, <2>7, <3>1, <3>2 DEF writes
  <2>8. QED
    BY <2>5, <2>6, <2>7
<1>2. CASE p = "Expertise"
  <2> DEFINE w1 == Write("PROFILE_LEVEL", Pick({"profile", "level"}, v))
             w2 == IfKnown("GROUP_OF_PICTURES", [b |-> ConvertOMXToMediaBFrames(v.nB, v.nP),
                                                 length |-> ConvertOMXToMediaGopLength(v.nB, v.nP)])
             w3 == IfKnown("ENTROPY_CODING", [value |-> v.entropy])
             w4 == IfKnown("CONSTRAINED_INTRA_PREDICTION", [value |-> v.intra])
             w5 == IfKnown("LOOP_FILTER", [value |-> v.filter])
             middle == IF c \in {"enc_avc", "dec_avc"} THEN <<w3>> ELSE <<>>
             all == {w1, w2, w3, w4, w5}
  <2>1. writes = <<w1, w2>> \o middle \o <<w4, w5>>
    BY <1>2 DEF Writes, SetExpertise
  <2>2. \A w \in all : Faithful(w)
    <3>1. Faithful(w1) /\ Faithful(w3) /\ Faithful(w4)
      BY PlainFaithful DEF Write, IfKnown, WholeFields, PictureSizeIndices
    <3>4. Faithful(w5)
      BY OneFieldWhole DEF Faithful, IfKnown, WholeFields, PictureSizeIndices, HasFields, Whole
    <3>2. Faithful(w2)
      <4>1. SteadyGop(w2.value) /\ DOMAIN w2.value = {"b", "length"} /\ w2.index = "GROUP_OF_PICTURES"
        BY <1>2, FramesSteady DEF Meant, IfKnown
      <4> HIDE DEF w2
      <4>2. QED
        BY <4>1 DEF Faithful, WholeFields, PictureSizeIndices
    <3> HIDE DEF w1, w2, w3, w4, w5
    <3>3. QED
      BY <3>1, <3>2, <3>4
  <2>3. <<w1, w2>> \in Seq(all) /\ middle \in Seq(all) /\ <<w4, w5>> \in Seq(all)
    <3> HIDE DEF w1, w2, w3, w4, w5
    <3>1. w1 \in all /\ w2 \in all /\ w3 \in all /\ w4 \in all /\ w5 \in all
      OBVIOUS
    <3> HIDE DEF all
    <3>2. <<w1, w2>> \in Seq(all) /\ <<w4, w5>> \in Seq(all)
      BY <3>1
    <3>3. <<w3>> \in Seq(all) /\ <<>> \in Seq(all)
      BY <3>1
    <3>4. QED
      BY <3>2, <3>3
  <2> HIDE DEF w1, w2, w3, w4, w5, middle, all, writes
  <2>4. writes \in Seq(all)
    BY <2>1, <2>3
  <2>5. \A n \in 1 .. Len(writes) : writes[n] \in all
    BY <2>4
  <2>6. QED
    BY <2>2, <2>5 DEF writes
<1>3. CASE p \notin {"PortDefinition", "PortFormat", "Expertise"}
  <2>1. PICK w : writes = <<w>> /\ Faithful(w)
    <3>1. CASE p = "BufferMode"
      BY <3>1, PlainFaithful DEF Writes, Write, WholeFields, PictureSizeIndices
    <3>2. CASE p = "Quantization"
      <4>1. writes = <<Write("QUANTIZATION_PARAMETER", QuantizationToMedia(v))>>
        BY <3>2 DEF Writes
      <4>2. \A f \in WholeFields("QUANTIZATION_PARAMETER") : QuantizationToMedia(v)[f] \in Int
        BY <3>2 DEF QuantizationToMedia, Meant, WholeFields, PictureSizeIndices
      <4>3. Faithful(Write("QUANTIZATION_PARAMETER", QuantizationToMedia(v)))
        BY <4>2 DEF Faithful, Write
      <4>4. QED
        BY <4>1, <4>3
    <3>3. CASE p \in {"MaxPictureSize", "MaxPictureSizeInBits"}
      <4> DEFINE x == IF "size" \in DOMAIN v THEN [i |-> v.size, p |-> v.size, b |-> v.size] ELSE v
                 idx == IF p = "MaxPictureSize" THEN "MAX_PICTURE_SIZES" ELSE "MAX_PICTURE_SIZES_IN_BITS"
      <4>1. writes = <<Write(idx, x)>>
        BY <3>3 DEF Writes, SetMaxPictureSizes
      <4>2. \A f \in {"i", "p", "b"} : x[f] \in Int
        BY <3>3 DEF Meant
      <4>3. WholeFields(idx) = {"i", "p", "b"} /\ idx \notin {"CLOCK", "GROUP_OF_PICTURES", "LOOP_FILTER"}
        BY DEF WholeFields, PictureSizeIndices
      <4> HIDE DEF x, idx
      <4>4. Faithful(Write(idx, x))
        BY <4>2, <4>3 DEF Faithful, Write
      <4>5. QED
        BY <4>1, <4>4
    <3>4. CASE p \in Windows
      <4> DEFINE idx == WindowOf(port)[p].index
                 F == WindowOf(port)[p].fields
      <4>1. writes = <<Write(idx, v)>>
        BY <3>4, WindowsApart DEF Writes
      <4>2. DOMAIN v = F
        BY <3>4 DEF Measured
      <4>3. idx \notin {"CLOCK", "LOOP_FILTER"} /\ (idx = "GROUP_OF_PICTURES" => F \cap {"b", "length"} = {})
        BY <3>4, WindowsWhole, WindowsApart
      <4>4. \A f \in WholeFields(idx) \cap F : v[f] \in Int
        BY <3>4 DEF Meant
      <4> HIDE DEF idx, F
      <4>5. Faithful(Write(idx, v))
        BY <4>2, <4>3, <4>4 DEF Faithful, Write
      <4> HIDE DEF writes
      <4>6. QED
        BY <4>1, <4>5
    <3>5. QED
      BY <1>3, <3>1, <3>2, <3>3, <3>4 DEF Parameters
  <2> HIDE DEF writes
  <2>2. Len(writes) = 1 /\ writes[1] = w
    BY <2>1
  <2>3. QED
    BY <2>1, <2>2 DEF writes
<1>4. QED
  BY <1>1, <1>2, <1>3
-----------------------------------------------------------------------------
\* who has the indices the rollbacks write
LEMMA MoreIndices ==
  ASSUME NEW c \in Codecs
  PROVE  /\ c \in Encoders => {"BITRATE", "GROUP_OF_PICTURES", "QUANTIZATION_PARAMETER", "RECOVERY_POINT_SEI"}
                              \subseteq Readable[c] \cap Settable[c] \cap Stored(c)
         /\ c \notin Encoders =>
              {"BITRATE", "GROUP_OF_PICTURES", "ENTROPY_CODING", "CONSTRAINED_INTRA_PREDICTION", "LOOP_FILTER"}
                 \cap (Readable[c] \cup Settable[c]) = {}
         /\ c \in {"enc_avc", "enc_hevc"} =>
              {"PROFILE_LEVEL", "CONSTRAINED_INTRA_PREDICTION", "LOOP_FILTER"}
                 \subseteq Readable[c] \cap Settable[c] \cap Stored(c)
         /\ c \in {"dec_avc", "dec_hevc"} => "PROFILE_LEVEL" \in Readable[c] \cap Settable[c] \cap Stored(c)
         /\ "ENTROPY_CODING" \in Readable["enc_avc"] \cap Settable["enc_avc"] \cap Stored("enc_avc")
         /\ {"RESOLUTION", "FORMAT", "CLOCK", "BUFFER_HANDLES"} \subseteq Settable[c]
         /\ Readable[c] \subseteq Settable[c] \cup {"ENTROPY_CODING", "LOG2_CODING_UNIT"}
BY DEF Codecs, Encoders, Decoders, Stored, Readable, Settable, EncSettingsAVC_Get, EncSettingsAVC_Set,
  EncSettingsHEVC_Get, EncSettingsHEVC_Set, EncSettingsMJPEG_Get, EncSettingsMJPEG_Set, DecSettingsAVC_Get,
  DecSettingsAVC_Set, DecSettingsHEVC_Get, DecSettingsHEVC_Set, DecSettingsJPEG_Get, DecSettingsJPEG_Set,
  ItuEncoderIndices, EncoderIndices, DecoderIndices, CommonIndices, SeiIndices, ColourIndices,
  FilterOffsetIndices, CropIndices, PictureSizeIndices

\* the two parameters of one picture size
LEMMA OneSizeIndex ==
  ASSUME NEW p \in {"MaxPictureSize", "MaxPictureSizeInBits"}, NEW port, NEW c, NEW m
  PROVE  /\ MustRead(p, port) \subseteq PictureSizeIndices
         /\ \E idx \in PictureSizeIndices :
              MustRead(p, port) = {idx} /\ Construct(p, port, c, m) = Get(c, idx, m)
              /\ idx = IF p = "MaxPictureSize" THEN "MAX_PICTURE_SIZES" ELSE "MAX_PICTURE_SIZES_IN_BITS"
<1> DEFINE idx == IF p = "MaxPictureSize" THEN "MAX_PICTURE_SIZES" ELSE "MAX_PICTURE_SIZES_IN_BITS"
<1>1. MustRead(p, port) = {idx}
  BY DEF MustRead
<1>2. idx \in PictureSizeIndices
  BY DEF PictureSizeIndices
<1>3. Construct(p, port, c, m) = Get(c, CHOOSE i \in MustRead(p, port) : TRUE, m)
  BY DEF Construct
<1> HIDE DEF idx
<1>4. (CHOOSE i \in {idx} : TRUE) = idx
  OBVIOUS
<1>5. Construct(p, port, c, m) = Get(c, idx, m)
  BY <1>1, <1>3, <1>4
<1>6. QED
  BY <1>1, <1>2, <1>5 DEF idx

\* what is constructed from the settings means what it says
LEMMA ConstructMeant ==
  ASSUME NEW p \in Parameters, NEW port \in Ports, NEW c \in Codecs, NEW m, Sound(c, m), Restorable(c, m),
         MustRead(p, port) \subseteq Readable[c]
  PROVE  Meant(p, port, Construct(p, port, c, m))
<1> DEFINE v == Construct(p, port, c, m)
<1>1. CASE p \in {"PortDefinition", "PortFormat"}
  <2>1. v.xFramerate = ConvertMediaToOMXFramerate(m.CLOCK)
    BY <1>1 DEF Construct, ConstructPortDefinition, ConstructVideoPortCurrentFormat
  <2>2. SteadyClock(m.CLOCK)
    <3>1. "CLOCK" \in Stored(c)
      BY IndicesOfCodec
    <3>2. QED
      BY <3>1 DEF Restorable, Steady
  <2>3. SteadyClock(ConvertOMXToMediaClock(v.xFramerate))
    BY <2>1, <2>2 DEF SteadyClock
  <2>4. p = "PortDefinition" => v.bitrate \in Int
    <3>1. p = "PortDefinition" => v.bitrate = IF c \in Encoders THEN m.BITRATE.target ELSE 0
      BY DEF Construct, ConstructPortDefinition
    <3>2. c \in Encoders => m.BITRATE.target \in Int
      <4>1. c \in Encoders => "BITRATE" \in Stored(c)
        BY MoreIndices
      <4>2. QED
        BY <4>1 DEF Restorable, Steady, WholeFields, PictureSizeIndices
    <3>3. QED
      BY <3>1, <3>2
  <2>5. p \notin Windows
    BY <1>1, WindowsApart
  <2> HIDE DEF v
  <2>6. QED
    BY <1>1, <2>3, <2>4, <2>5 DEF Meant, v
<1>2. CASE p = "Quantization"
  <2> DEFINE q == m.QUANTIZATION_PARAMETER
  <2>1. "QUANTIZATION_PARAMETER" \in Stored(c)
    BY <1>2, IndicesOfCodec DEF MustRead
  <2>2. q.initial \in Int /\ q.deltaIP \in Int /\ q.deltaPB \in Int
    BY <2>1 DEF Restorable, Steady, WholeFields, PictureSizeIndices
  <2>3. v = QuantizationToOMX(q) /\ p \notin Windows
    BY <1>2, WindowsApart DEF Construct
  <2> HIDE DEF q, v
  <2>4. \A f \in {"nQpI", "nQpP", "nQpB"} : v[f] \in Int
    BY <2>2, <2>3 DEF QuantizationToOMX
  <2>5. QED
    BY <1>2, <2>3, <2>4 DEF Meant, v
<1>3. CASE p = "Expertise"
  <2> DEFINE gop == IF c \in Encoders THEN m.GROUP_OF_PICTURES ELSE [b |-> 0, length |-> 1]
  <2>1. v = GetExpertise(c, m) /\ p \notin Windows
    BY <1>3, WindowsApart DEF Construct
  <2>2. c \in Encoders => Good("GROUP_OF_PICTURES", m.GROUP_OF_PICTURES)
    BY IndicesOfCodec DEF Sound, Counted
  <2>3. gop.b \in Nat /\ gop.length \in Nat /\ gop.length > gop.b
    BY <2>2 DEF Good
  <2>4. v.nB = ConvertMediaToOMXBFrames(gop) /\ v.nP = ConvertMediaToOMXPFrames(gop)
    BY <2>1 DEF GetExpertise
  <2> HIDE DEF gop, v
  <2>5. ConvertMediaToOMXPFrames(gop) \in Nat /\ ConvertMediaToOMXPFrames(gop) <= gop.length - 1
    <3>1. gop.length - 1 \in Nat /\ gop.b + 1 \in Nat \ {0}
      BY <2>3
    <3>2. \A n \in Nat, d \in Nat \ {0} : n \div d \in Nat /\ n \div d <= n
      BY SMTT(30)
    <3>3. QED
      BY <3>1, <3>2 DEF ConvertMediaToOMXPFrames
  <2>6. v.nB \in Nat /\ v.nP \in Nat
    BY <2>3, <2>4, <2>5 DEF ConvertMediaToOMXBFrames
  <2>7. QED
    BY <1>3, <2>1, <2>6 DEF Meant, v
<1>4. CASE p \in {"MaxPictureSize", "MaxPictureSizeInBits"}
  <2>1. PICK idx \in PictureSizeIndices : MustRead(p, port) = {idx} /\ v = Get(c, idx, m)
    BY <1>4, OneSizeIndex
  <2>2. idx \in Readable[c] /\ idx # "LOOP_FILTER"
    BY <2>1 DEF PictureSizeIndices
  <2>3. DOMAIN v = Fields(idx) /\ Steady(idx, v)
    BY <2>1, <2>2, GetFields, GetSteady
  <2>4. Fields(idx) = {"i", "p", "b"} /\ WholeFields(idx) = {"i", "p", "b"}
    BY <2>1 DEF Fields, WholeFields, PictureSizeIndices, CropIndices
  <2>5. p \notin Windows
    BY <1>4, WindowsApart
  <2> HIDE DEF v
  <2>6. "size" \notin DOMAIN v /\ \A f \in {"i", "p", "b"} : v[f] \in Int
    BY <2>3, <2>4 DEF Steady
  <2>7. QED
    BY <1>4, <2>5, <2>6 DEF Meant, v
<1>5. CASE p \in Windows
  <2> DEFINE idx == WindowOf(port)[p].index
             F == WindowOf(port)[p].fields
  <2>1. p \notin {"PortDefinition", "PortFormat", "BufferMode", "Quantization", "Expertise",
                  "MaxPictureSize", "MaxPictureSizeInBits"}
    BY <1>5, WindowsApart
  <2>2. v = Pick(F, Get(c, idx, m)) /\ MustRead(p, port) = {idx}
    BY <2>1 DEF Construct, MustRead
  <2>3. Steady(idx, Get(c, idx, m))
    BY <2>2, GetSteady
  <2> HIDE DEF idx, F, v
  <2>4. \A f \in WholeFields(idx) \cap F : v[f] \in Int
    BY <2>2, <2>3 DEF Pick, Steady
  <2>5. QED
    BY <2>1, <2>4 DEF Meant, v, idx, F
<1>6. CASE p = "BufferMode"
  BY <1>6, WindowsApart DEF Meant
<1>7. QED
  BY <1>1, <1>2, <1>3, <1>4, <1>5, <1>6 DEF Parameters

\* all the writes of a parameter
LEMMA ApplyRestorable ==
  ASSUME NEW p \in Parameters, NEW port \in Ports, NEW c \in Codecs, NEW v, Measured(p, port, v), Meant(p, port, v),
         NEW m, Sound(c, m), Restorable(c, m)
  PROVE  Restorable(c, Apply(p, port, c, v, m).media)
<1> DEFINE writes == Writes(p, port, c, v)
           N == Len(writes)
<1>0. N \in Nat
  BY WritesNumbers
<1>1. \A n \in 1 .. N : Numbers(writes[n]) /\ Faithful(writes[n])
  BY WritesNumbers, WritesFaithful
<1>2. PICK f : /\ f[0] = Answered("None", m)
               /\ \A n \in 1 .. N : f[n] = AfterWrite(c, writes[n], f[n - 1])
               /\ Apply(p, port, c, v, m) = f[N]
  BY <1>0, ApplyUnfolds DEF Unfolded
<1> HIDE DEF N, writes
<1> DEFINE P == {n \in 0 .. N : Sound(c, f[n].media) /\ Restorable(c, f[n].media)}
<1>3. 0 \in P
  BY <1>0, <1>2 DEF Answered
<1>4. ASSUME NEW n \in 0 .. N - 1, n \in P PROVE n + 1 \in P
  <2>1. n + 1 \in 1 .. N /\ n + 1 - 1 = n /\ n + 1 \in 0 .. N
    BY <1>0
  <2>2. f[n + 1] = AfterWrite(c, writes[n + 1], f[n])
    BY <1>2, <2>1
  <2>3. Sound(c, AfterWrite(c, writes[n + 1], f[n]).media)
    BY <1>1, <1>4, <2>1, AfterWriteKeeps
  <2>4. Restorable(c, AfterWrite(c, writes[n + 1], f[n]).media)
    <3>1. Restorable(c, WriteWindow(c, writes[n + 1], f[n].media).media)
      BY <1>1, <1>4, <2>1, WriteRestorable
    <3>2. AfterWrite(c, writes[n + 1], f[n]) \in {f[n], WriteWindow(c, writes[n + 1], f[n].media)}
      BY DEF AfterWrite
    <3>3. QED
      BY <1>4, <3>1, <3>2
  <2>5. QED
    BY <2>1, <2>2, <2>3, <2>4
<1>5. N \in P
  <2> HIDE DEF P
  <2>1. \A n \in 0 .. N - 1 : n \in P => n + 1 \in P
    BY <1>4
  <2>2. QED
    BY <1>0, <1>3, <2>1, Induction
<1>6. QED
  BY <1>2, <1>5

\* a call leaves what one of its four turns left
LEMMA RestoreForms ==
  ASSUME NEW p, NEW port, NEW c, NEW v, NEW m
  PROVE  LET first == Apply(p, port, c, v, m)
             back == Apply(p, port, c, Construct(p, port, c, m), first.media)
             again == Apply(p, port, c, Construct(p, port, c, first.media), back.media)
             third == Apply(p, port, c, Construct(p, port, c, back.media), again.media)
         IN SetAndRestore(p, port, c, v, m).media \in {first.media, back.media, again.media, third.media}
<1> DEFINE first == Apply(p, port, c, v, m)
           back == Apply(p, port, c, Construct(p, port, c, m), first.media)
           again == Apply(p, port, c, Construct(p, port, c, first.media), back.media)
           third == Apply(p, port, c, Construct(p, port, c, back.media), again.media)
<1> HIDE DEF first, back, again, third
<1>1. SetAndRestore(p, port, c, v, m) =
        IF ~Refused(first) \/ p = "RateControlPlugin" THEN first
        ELSE IF ~Refused(back) THEN Outer(first.error, back)
        ELSE IF ~Refused(again) THEN Outer(back.error, again)
        ELSE IF ~Refused(third) THEN Outer(again.error, third)
        ELSE Answered(IF /\ third.media = back.media
                         /\ Construct(p, port, c, again.media) = Construct(p, port, c, first.media)
                      THEN "recursing" ELSE "unsettled", third.media)
  BY DEF SetAndRestore, Restored, RestoredOnce, RestoredTwice, RestoredThrice, SetBack, first, back, again, third
<1>2. \A e, a : Outer(e, a).media = a.media
  BY DEF Outer, Answered
<1>3. SetAndRestore(p, port, c, v, m).media \in {first.media, back.media, again.media, third.media}
  BY <1>1, <1>2 DEF Answered
<1>4. QED
  BY <1>3 DEF first, back, again, third

\* a call, refused or not
LEMMA SetValueRestorable ==
  ASSUME NEW p \in Parameters, NEW port \in Ports, NEW c \in Codecs, NEW v, Measured(p, port, v), Meant(p, port, v),
         NEW m, Sound(c, m), Restorable(c, m)
  PROVE  Restorable(c, SetValue(p, port, c, v, m).media)
<1> DEFINE first == Apply(p, port, c, v, m)
           back == Apply(p, port, c, Construct(p, port, c, m), first.media)
           again == Apply(p, port, c, Construct(p, port, c, first.media), back.media)
           third == Apply(p, port, c, Construct(p, port, c, back.media), again.media)
           Fine(n) == Sound(c, n) /\ Restorable(c, n)
<1>1. SetValue(p, port, c, v, m).media = m
      \/ /\ MustRead(p, port) \subseteq Readable[c]
         /\ SetValue(p, port, c, v, m) = SetAndRestore(p, port, c, v, m)
  BY DEF SetValue, Answered
<1>2. ASSUME MustRead(p, port) \subseteq Readable[c]
      PROVE  Restorable(c, SetAndRestore(p, port, c, v, m).media)
  <2>1. \A x, n : Fine(x) /\ Fine(n) => Fine(Apply(p, port, c, Construct(p, port, c, x), n).media)
    BY <1>2, ApplyKeeps, ApplyRestorable, ConstructMeasured, ConstructMeant
  <2>2. Fine(m) /\ Fine(first.media)
    BY ApplyKeeps, ApplyRestorable
  <2>3. Fine(back.media)
    BY <2>1, <2>2
  <2> HIDE DEF back
  <2>4. Fine(again.media)
    BY <2>1, <2>2, <2>3
  <2> HIDE DEF again
  <2>5. Fine(third.media)
    BY <2>1, <2>3, <2>4
  <2>6. SetAndRestore(p, port, c, v, m).media \in {first.media, back.media, again.media, third.media}
    BY RestoreForms DEF back, again
  <2> HIDE DEF first, third
  <2>7. QED
    BY <2>2, <2>3, <2>4, <2>5, <2>6
<1>3. QED
  BY <1>1, <1>2

\* A clock made for a frame rate a client asks for gives back the frame rate that makes it.
SteadyRates ==
  \A name \in DOMAIN Clients : \A call \in Clients[name].calls :
    call.param \in {"PortDefinition", "PortFormat"} => SteadyClock(ConvertOMXToMediaClock(call.value.xFramerate))

KInv == SInv /\ Restorable(codec, media)

\* the calls of a client with steady rates
LEMMA CallMeant ==
  ASSUME SteadyRates, client \in DOMAIN Clients, NEW call \in Clients[client].calls
  PROVE  Meant(call.param, call.port, call.value)
<1> DEFINE p == call.param
           v == call.value
<1>1. WellFormed(call) /\ p \in Parameters /\ call.port \in Ports
  BY CallFacts DEF WellFormed
<1>2. p \in {"PortDefinition", "PortFormat"} => SteadyClock(ConvertOMXToMediaClock(v.xFramerate))
  BY DEF SteadyRates
<1>3. p \in {"MaxPictureSize", "MaxPictureSizeInBits"} => "size" \in DOMAIN v /\ v.size \in Int
  BY <1>1 DEF WellFormed, HasFields
<1>4. ASSUME p \in Windows, NEW f \in WholeFields(WindowOf(call.port)[p].index) \cap WindowOf(call.port)[p].fields
      PROVE  v[f] \in Int
  BY <1>1, <1>4, WindowsWhole DEF WellFormed
<1>5. /\ p = "PortDefinition" => v.bitrate \in Nat
      /\ p = "Quantization" => \A f \in {"nQpI", "nQpP", "nQpB"} : v[f] \in Int
      /\ p = "Expertise" => v.nB \in Nat /\ v.nP \in Nat
  BY <1>1 DEF WellFormed
<1> HIDE DEF p, v
<1>6. QED
  BY <1>2, <1>3, <1>4, <1>5 DEF Meant, p, v

\* the inductive invariant: what was accepted can be set back
LEMMA RestorableInductive ==
  ASSUME SteadyRates
  PROVE  Spec => []KInv
<1>1. Init => KInv
  <2> SUFFICES ASSUME Init PROVE KInv
    OBVIOUS
  <2>1. client \in DOMAIN Clients /\ codec \in Codecs
    BY ClientsAssumption DEF Init, codec
  <2>2. QED
    BY <2>1, ResetSound, ResetRestorable DEF Init, KInv, SInv
<1>2. KInv /\ SInv' /\ [Next]_vars => KInv'
  <2> SUFFICES ASSUME KInv, SInv', [Next]_vars PROVE Restorable(codec', media')
    BY DEF KInv
  <2>0. SInv /\ codec \in Codecs /\ Sound(codec, media) /\ Restorable(codec, media) /\ client \in DOMAIN Clients
    BY ClientsAssumption DEF KInv, SInv, codec
  <2>1. CASE SetParameter
    <3>1. PICK call \in Clients[client].calls :
            media' = IF ~RefusedByState(call.port) /\ ~TooFew(call.param, call.port, call.value)
                     THEN SetValue(call.param, call.port, codec, call.value, media).media ELSE media
      BY <2>1 DEF SetParameter
    <3>2. codec' = codec
      BY <2>1 DEF SetParameter, MayCall, codec
    <3>3. call.param \in Parameters /\ call.port \in Ports /\ Measured(call.param, call.port, call.value)
          /\ Meant(call.param, call.port, call.value)
      BY <2>0, CallFacts, CallMeant DEF WellFormed
    <3>4. Restorable(codec, SetValue(call.param, call.port, codec, call.value, media).media)
      BY <2>0, <3>3, SetValueRestorable
    <3>5. QED
      BY <2>0, <3>1, <3>2, <3>4
  <2>2. CASE SetRole
    <3>1. codec' = codec
      BY <2>2 DEF SetRole, MayCall, codec
    <3> DEFINE reset == ResetInUse(codec, media)
    <3>2. Restorable(codec, reset) /\ DOMAIN reset = Stored(codec)
      BY <2>0, ResetInUseRestorable, ResetInUseSound DEF Sound, Shaped
    <3> HIDE DEF reset
    <3>3. "LLP2_EARLY_CB" \in Settable[codec] =>
            Restorable(codec, [reset EXCEPT !.LLP2_EARLY_CB = media.LLP2_EARLY_CB])
      <4> SUFFICES ASSUME "LLP2_EARLY_CB" \in Settable[codec]
                   PROVE  Restorable(codec, [reset EXCEPT !.LLP2_EARLY_CB = media.LLP2_EARLY_CB])
        OBVIOUS
      <4> DEFINE n == [reset EXCEPT !.LLP2_EARLY_CB = media.LLP2_EARLY_CB]
      <4>1. "LLP2_EARLY_CB" \in Stored(codec)
        BY <2>0, IndicesOfCodec
      <4>2. HasFields(media.LLP2_EARLY_CB, Fields("LLP2_EARLY_CB")) /\ Steady("LLP2_EARLY_CB", media.LLP2_EARLY_CB)
            /\ Accepted(codec, "LLP2_EARLY_CB", media.LLP2_EARLY_CB, reset)
        BY <2>0, <4>1, AcceptedAnywhere DEF Restorable
      <4>3. \A idx \in Stored(codec) : n[idx] = IF idx = "LLP2_EARLY_CB" THEN media.LLP2_EARLY_CB ELSE reset[idx]
        BY <3>2, <4>1
      <4> HIDE DEF n
      <4>4. Restorable(codec, n)
        BY <3>2, <4>2, <4>3, ChangesRestorable
      <4>5. QED
        BY <4>4 DEF n
    <3>4. QED
      BY <2>0, <2>2, <3>1, <3>2, <3>3 DEF SetRole, reset
  <2>3. ASSUME UNCHANGED <<client, media>> PROVE Restorable(codec', media')
    BY <2>0, <2>3 DEF codec
  <2>4. CASE StartOrStop
    BY <2>4, <2>3 DEF StartOrStop, MayCall
  <2>5. ASSUME NEW port \in Ports, GetPortDefinition(port) \/ SwitchPort(port) PROVE Restorable(codec', media')
    BY <2>5, <2>3 DEF GetPortDefinition, SwitchPort, MayCall
  <2>6. CASE UNCHANGED vars
    BY <2>6, <2>3 DEF vars
  <2>7. QED
    BY <2>1, <2>2, <2>4, <2>5, <2>6 DEF Next
<1>3. QED
  BY <1>1, <1>2, SoundInductive, PTL DEF Spec
-----------------------------------------------------------------------------
(* Writing back what is stored.                                               *)
Fit(c, m) == c \in Encoders => ~DividesByZero(m.BITRATE, m.CLOCK) /\ CheckBitrate(m.BITRATE, m.CLOCK)

\* a window on every field hides what was there
LEMMA MergeAll ==
  ASSUME NEW S, NEW x, HasFields(x, S), NEW y, DOMAIN y = S
  PROVE  Merge(x, y) = x
BY DEF HasFields, Merge

\* a window on what was read changes nothing
LEMMA MergePart ==
  ASSUME NEW S, NEW F, NEW y, HasFields(y, S)
  PROVE  Merge(Pick(F, y), y) = y
<1>1. DOMAIN y = S /\ DOMAIN Pick(F, y) = F /\ \A f \in F : Pick(F, y)[f] = y[f]
  BY DEF HasFields, Pick
<1>2. Merge(Pick(F, y), y) = [f \in S |-> y[f]]
  BY <1>1 DEF Merge
<1>3. QED
  BY <1>2 DEF HasFields

\* a write changes its own index only, and nothing when it is refused
LEMMA WindowTouches ==
  ASSUME NEW c, NEW w, NEW m
  PROVE  /\ Differ(WriteWindow(c, w, m).media, m, Touched(w.index))
         /\ WriteWindow(c, w, m).error # "None" => WriteWindow(c, w, m).media = m
<1>1. Differ(m, m, Touched(w.index))
  BY DEF Differ
<1>2. ASSUME NEW v
      PROVE  LET a == Set(c, w.index, v, m)
             IN Differ(a.media, m, Touched(w.index)) /\ (a.error # "None" => a.media = m)
  <2> DEFINE a == Set(c, w.index, v, m)
             given == IF w.index = "QUANTIZATION_PARAMETER" THEN UpdateQuantizationParameter(v) ELSE v
             n == Store(c, w.index, given, m)
  <2>1. Differ(n, m, Touched(w.index))
    BY StoreTouches
  <2>2. \/ a.media = m
        \/ a = Answered("None", n)
    BY DEF Set, Answered
  <2> HIDE DEF n, a
  <2>3. QED
    BY <1>1, <2>1, <2>2 DEF Answered, a
<1>3. WriteWindow(c, w, m) = Answered("throws", m) \/ \E v : WriteWindow(c, w, m) = Set(c, w.index, v, m)
  BY DEF WriteWindow
<1>4. QED
  BY <1>1, <1>2, <1>3 DEF Answered

\* the same within a call of several writes
LEMMA StepTouches ==
  ASSUME NEW c, NEW w, NEW sofar
  PROVE  /\ Differ(AfterWrite(c, w, sofar).media, sofar.media, Touched(w.index))
         /\ AfterWrite(c, w, sofar).error # "None" => AfterWrite(c, w, sofar).media = sofar.media
<1> DEFINE now == WriteWindow(c, w, sofar.media)
<1>1. Differ(sofar.media, sofar.media, Touched(w.index))
  BY DEF Differ
<1>2. Differ(now.media, sofar.media, Touched(w.index)) /\ (now.error # "None" => now.media = sofar.media)
  BY WindowTouches
<1>3. AfterWrite(c, w, sofar) \in {sofar, now}
  BY DEF AfterWrite
<1> HIDE DEF now
<1>4. QED
  BY <1>1, <1>2, <1>3

\* a target within the maximum is kept
LEMMA KeepOrderSame ==
  ASSUME NEW given, NEW S, NEW b, HasFields(b, S), {"target", "max"} \subseteq S,
         b.target \in Int, b.max \in Int, b.max >= b.target
  PROVE  KeepOrder(given, b) = b
<1>1. Larger(b.max, b.target) = b.max
  BY DEF Larger
<1>2. DOMAIN b = S /\ b = [f \in S |-> b[f]]
  BY DEF HasFields
<1>3. [b EXCEPT !.max = Larger(@, b.target)] = b
  BY <1>1, <1>2
<1>4. ~(b.target > b.max)
  OBVIOUS
<1>5. QED
  BY <1>3, <1>4 DEF KeepOrder

\* the quantization parameters that were stored are kept
LEMMA QuantizationSame ==
  ASSUME NEW c, NEW m, NEW q, HasFields(q, Fields("QUANTIZATION_PARAMETER")), Steady("QUANTIZATION_PARAMETER", q),
         Accepted(c, "QUANTIZATION_PARAMETER", q, m)
  PROVE  UpdateQuantizationParameter(q) = q
<1>1. q.deltaIP \in Int /\ q.deltaPB \in Int
  BY DEF Steady, WholeFields, PictureSizeIndices
<1>2. q.deltaIP >= -1 /\ q.deltaPB >= -1
  BY DEF Accepted, Accepts, CheckQuantizationParameter, CropIndices, PictureSizeIndices, EnumIndices, ColourIndices
<1>3. NotBelow(q.deltaIP) = q.deltaIP /\ NotBelow(q.deltaPB) = q.deltaPB
  BY <1>1, <1>2 DEF NotBelow
<1>4. DOMAIN q = Fields("QUANTIZATION_PARAMETER") /\ q = [f \in DOMAIN q |-> q[f]]
  BY DEF HasFields
<1>5. QED
  BY <1>3, <1>4 DEF UpdateQuantizationParameter

\* A window that gives back what m holds is accepted, whatever n holds.
LEMMA BackWrite ==
  ASSUME NEW c \in Codecs, NEW m, Restorable(c, m), NEW n, NEW w, NEW idx, w.index = idx,
         idx \in (Readable[c] \cap Settable[c]) \ {"RESOLUTION", "MAX_PICTURE_SIZES", "RATE_CONTROL_PLUGIN"},
         ~Unconvertible(w), Merge(w.value, n[idx]) = m[idx],
         idx = "BITRATE" => ~DividesByZero(m[idx], n.CLOCK) /\ CheckBitrate(m[idx], n.CLOCK)
  PROVE  WriteWindow(c, w, n) = Answered("None", Store(c, idx, m[idx], n))
<1> DEFINE v == m[idx]
<1>1. idx \in Stored(c)
  BY IndicesOfCodec
<1>2. HasFields(v, Fields(idx)) /\ Steady(idx, v) /\ Accepted(c, idx, v, m)
  BY <1>1 DEF Restorable
<1>3. Get(c, idx, n) = n[idx]
  BY DEF Get
<1>4. idx = "BITRATE" => KeepOrder(w.value, v) = v
  <2> SUFFICES ASSUME idx = "BITRATE" PROVE KeepOrder(w.value, v) = v
    OBVIOUS
  <2>1. v.target \in Int /\ v.max \in Int /\ {"target", "max"} \subseteq Fields(idx)
    BY <1>2 DEF Steady, WholeFields, PictureSizeIndices, Fields, CropIndices
  <2>2. v.max >= v.target
    BY DEF CheckBitrate, CheckBitrateTarget
  <2> HIDE DEF v
  <2>3. QED
    BY <1>2, <2>1, <2>2, KeepOrderSame
<1>5. WriteWindow(c, w, n) = Set(c, idx, v, n)
  BY <1>3, <1>4 DEF WriteWindow
<1>6. idx = "QUANTIZATION_PARAMETER" => UpdateQuantizationParameter(v) = v
  BY <1>2, QuantizationSame
<1>7. Accepts(c, idx, v, n)
  <2>1. CASE idx = "BITRATE"
    BY <2>1 DEF Accepts, CropIndices, PictureSizeIndices, EnumIndices, ColourIndices
  <2>2. CASE idx # "BITRATE"
    BY <1>2, <2>2, AcceptedAnywhere DEF Accepted
  <2>3. QED
    BY <2>1, <2>2
<1> HIDE DEF v
<1>8. Set(c, idx, v, n) = Answered("None", Store(c, idx, v, n))
  BY <1>6, <1>7 DEF Set, v
<1>9. QED
  BY <1>5, <1>8 DEF v
-----------------------------------------------------------------------------
\* ... and gives the index its value back
LEMMA StoreBack ==
  ASSUME NEW c, NEW m, NEW n, NEW D, Differ(n, m, D), "RESOLUTION" \in DOMAIN m,
         NEW idx \in DOMAIN m \ {"RESOLUTION", "CONSTRAINED_INTRA_PREDICTION", "LOOP_FILTER", "MAX_PICTURE_SIZES"}
  PROVE  Differ(Store(c, idx, m[idx], n), m, (D \cup Touched(idx)) \ {idx})
<1> DEFINE x == Store(c, idx, m[idx], n)
<1>1. Differ(x, n, Touched(idx))
  BY StoreTouches
<1>2. x[idx] = m[idx]
  BY StoredValue DEF Differ
<1> HIDE DEF x
<1>3. QED
  BY <1>1, <1>2 DEF Differ, x

\* the format, which computes the strides again, finds them right
LEMMA FormatBack ==
  ASSUME NEW c, NEW m, Fits(m), {"RESOLUTION", "FORMAT"} \subseteq DOMAIN m, NEW n, Differ(n, m, {})
  PROVE  Differ(Store(c, "FORMAT", m.FORMAT, n), m, {})
<1> DEFINE x == Store(c, "FORMAT", m.FORMAT, n)
           r == m.RESOLUTION
<1>1. x = UpdateFormat(m.FORMAT, n)
  BY DEF Store
<1>2. n.RESOLUTION = r /\ DOMAIN n = DOMAIN m /\ \A idx \in DOMAIN m : n[idx] = m[idx]
  BY DEF Differ
<1>3. r \in Sizes /\ r.stride >= MinStride(r.width, m.FORMAT)
  BY DEF Fits
<1>4. MinStride(r.width, m.FORMAT) \in Int /\ r.stride \in Int
  BY <1>3, MinStrideFacts DEF Sizes
<1>5. Larger(MinStride(r.width, m.FORMAT), r.stride) = r.stride
  BY <1>3, <1>4 DEF Larger
<1> HIDE DEF r
<1>6. [r EXCEPT !.stride = r.stride] = r
  BY <1>3 DEF Sizes
<1>7. x.RESOLUTION = r /\ x.FORMAT = m.FORMAT /\ DOMAIN x = DOMAIN m
      /\ \A idx \in DOMAIN m \ {"RESOLUTION", "FORMAT"} : x[idx] = m[idx]
  BY <1>1, <1>2, <1>5, <1>6 DEF UpdateFormat
<1> HIDE DEF x
<1>8. QED
  BY <1>7 DEF Differ, x, r

\* picture sizes read in thousands lose their last digits
LEMMA SizesBack ==
  ASSUME NEW c \in Codecs, NEW m, Restorable(c, m), "MAX_PICTURE_SIZES" \in Readable[c], NEW w, w.index = "MAX_PICTURE_SIZES",
         Merge(w.value, Get(c, "MAX_PICTURE_SIZES", m)) = Get(c, "MAX_PICTURE_SIZES", m)
  PROVE  /\ WriteWindow(c, w, m).error = "None"
         /\ Differ(WriteWindow(c, w, m).media, m, {"MAX_PICTURE_SIZES_IN_BITS"})
<1> DEFINE bits == m.MAX_PICTURE_SIZES_IN_BITS
           v == Get(c, "MAX_PICTURE_SIZES", m)
<1>1. "MAX_PICTURE_SIZES_IN_BITS" \in Stored(c) /\ "MAX_PICTURE_SIZES" \in Settable[c]
  BY IndicesOfCodec, MoreIndices
<1>2. bits.i \in Int /\ bits.p \in Int /\ bits.b \in Int /\ bits.i >= 0 /\ bits.p >= 0 /\ bits.b >= 0
  BY <1>1 DEF Restorable, Steady, WholeFields, PictureSizeIndices, Accepted, Accepts, CropIndices, EnumIndices,
    ColourIndices, CheckMaxPictureSizes
<1>3. v = InThousands(bits)
  BY DEF Get
<1> HIDE DEF bits, v
<1>4. CheckMaxPictureSizes(v)
  BY <1>2, <1>3 DEF InThousands, CheckMaxPictureSizes
<1>5. Accepts(c, "MAX_PICTURE_SIZES", v, m)
  BY <1>4 DEF Accepts, PictureSizeIndices, CropIndices, EnumIndices, ColourIndices
<1>6. WriteWindow(c, w, m) = Set(c, "MAX_PICTURE_SIZES", v, m)
  BY DEF WriteWindow, Unconvertible, v
<1>7. WriteWindow(c, w, m).error = "None"
  BY <1>1, <1>5, <1>6 DEF Set, Answered
<1>8. QED
  BY <1>7, WindowTouches DEF Touched

\* the indices that are windows
LEMMA WindowIndices ==
  ASSUME NEW port \in Ports, NEW p \in Windows
  PROVE  /\ WindowOf(port)[p].index \notin {"BUFFER_HANDLES", "ENTROPY_CODING", "LOG2_CODING_UNIT"}
         /\ WindowOf(port)[p].index = "GROUP_OF_PICTURES" => p \in WritesGop
         /\ WindowOf(port)[p].index = "FORMAT" => FALSE
         /\ p # "RateControlPlugin" => WindowOf(port)[p].index # "RATE_CONTROL_PLUGIN"
<1>1. WindowOf(port)[p].index \notin {"BUFFER_HANDLES", "ENTROPY_CODING", "LOG2_CODING_UNIT", "FORMAT"}
  BY DEF WindowOf, Windows, VideoSubframe, VideoLookAhead, VideoTwoPass, VideoBitrate, VideoMaxBitrate,
    VideoSceneChangeResilience, VideoSkipFrame, VideoCodedPictureBuffer, VideoQuantizationControl, VideoQuantizationTable,
    VideoQuantizationExtension, VideoAspectRatio, VideoLowBandwidth, VideoGopControl, VideoInstantaneousDecodingRefresh,
    VideoRecoveryPoint, VideoLongTerm, VideoFullRange, VideoPrefetchBuffer, VideoScalingList, VideoFillerData, VideoSlices,
    VideoModeCurrent, VideoColorPrimaries, VideoTransferCharacteristics, VideoColorMatrix, VideoMaxPictureSizes,
    VideoMaxPictureSizesInBits, VideoLoopFilterBeta, VideoLoopFilterTc, VideoDecodedPictureBuffer, VideoInternalEntropyBuffers,
    CommonSequencePictureMode, VideoInputParsed, PortEarlyCallback, PortSynchronization, VideoAccessUnitDelimiter,
    VideoBufferingPeriodSEI, VideoPictureTimingSEI, VideoRecoveryPointSEI, VideoMasteringDisplayColourVolumeSEI,
    VideoContentLightLevelSEI, VideoAlternativeTransferCharacteristicsSEI, VideoST209410SEI, VideoST209440SEI,
    VideoRateControlPlugin, VideoCrop, VideoOutputPosition, VideoStartCodeBytesAlignment, VideoRealtime, VideoUniformSliceType,
    ProfileLevel, Window, Value
<1>2. p # "Crop" => WindowOf(port)[p] = WindowOf("input")[p]
  BY DEF WindowOf, Windows
<1>3. p = "Crop" => WindowOf(port)[p].index # "GROUP_OF_PICTURES"
  BY DEF WindowOf, VideoCrop, Window
<1>5. p # "RateControlPlugin" => WindowOf(port)[p].index # "RATE_CONTROL_PLUGIN"
  BY DEF WindowOf, Windows, VideoSubframe, VideoLookAhead, VideoTwoPass, VideoBitrate, VideoMaxBitrate,
    VideoSceneChangeResilience, VideoSkipFrame, VideoCodedPictureBuffer, VideoQuantizationControl, VideoQuantizationTable,
    VideoQuantizationExtension, VideoAspectRatio, VideoLowBandwidth, VideoGopControl, VideoInstantaneousDecodingRefresh,
    VideoRecoveryPoint, VideoLongTerm, VideoFullRange, VideoPrefetchBuffer, VideoScalingList, VideoFillerData, VideoSlices,
    VideoModeCurrent, VideoColorPrimaries, VideoTransferCharacteristics, VideoColorMatrix, VideoMaxPictureSizes,
    VideoMaxPictureSizesInBits, VideoLoopFilterBeta, VideoLoopFilterTc, VideoDecodedPictureBuffer, VideoInternalEntropyBuffers,
    CommonSequencePictureMode, VideoInputParsed, PortEarlyCallback, PortSynchronization, VideoAccessUnitDelimiter,
    VideoBufferingPeriodSEI, VideoPictureTimingSEI, VideoRecoveryPointSEI, VideoMasteringDisplayColourVolumeSEI,
    VideoContentLightLevelSEI, VideoAlternativeTransferCharacteristicsSEI, VideoST209410SEI, VideoST209440SEI,
    VideoRateControlPlugin, VideoCrop, VideoOutputPosition, VideoStartCodeBytesAlignment, VideoRealtime, VideoUniformSliceType,
    ProfileLevel, Window, Value
<1>4. QED
  BY <1>1, <1>2, <1>3, <1>5 DEF WritesGop

\* One window: what is refused changes nothing, and what was read is accepted.
LEMMA WindowRestored ==
  ASSUME NEW c \in Codecs, NEW m, Sound(c, m), Restorable(c, m), Fit(c, m),
         NEW w, NEW F, w.index \in (Readable[c] \cap Settable[c]) \ {"FORMAT", "RESOLUTION", "BUFFER_HANDLES", "LOOP_FILTER",
                                                                    "CONSTRAINED_INTRA_PREDICTION"},
         w.index # "RATE_CONTROL_PLUGIN", w.value = Pick(F, Get(c, w.index, m))
  PROVE  /\ WriteWindow(c, w, m).error = "None"
         /\ Differ(WriteWindow(c, w, m).media, m, Touched(w.index) \ {w.index})
<1> DEFINE idx == w.index
<1>1. HasFields(Get(c, idx, m), Fields(idx))
  BY GetWhole
<1>2. Merge(w.value, Get(c, idx, m)) = Get(c, idx, m)
  BY <1>1, MergePart
<1>3. CASE idx = "MAX_PICTURE_SIZES"
  BY <1>2, <1>3, SizesBack DEF Touched
<1>4. CASE idx # "MAX_PICTURE_SIZES"
  <2>1. Get(c, idx, m) = m[idx]
    BY <1>4 DEF Get
  <2>2. idx = "BITRATE" => c \in Encoders
    BY MoreIndices
  <2>3. ~Unconvertible(w)
    BY DEF Unconvertible
  <2>4. WriteWindow(c, w, m) = Answered("None", Store(c, idx, m[idx], m))
    BY <1>2, <1>4, <2>1, <2>2, <2>3, BackWrite DEF Fit
  <2>5. Differ(m, m, {}) /\ idx \in DOMAIN m /\ "RESOLUTION" \in DOMAIN m
    BY <1>4, IndicesOfCodec DEF Differ, Sound, Shaped
  <2>6. Differ(Store(c, idx, m[idx], m), m, ({} \cup Touched(idx)) \ {idx})
    BY <1>4, <2>5, StoreBack
  <2>7. QED
    BY <2>4, <2>6 DEF Answered
<1>5. QED
  BY <1>3, <1>4
-----------------------------------------------------------------------------
(* The writes of a parameter, one after the other.                            *)
LEMMA FourAnswers ==
  ASSUME NEW p, NEW port, NEW c, NEW v, NEW m, NEW a, NEW b, NEW d, NEW e,
         LET all == Writes(p, port, c, v)
         IN Len(all) = 4 /\ all[1] = a /\ all[2] = b /\ all[3] = d /\ all[4] = e
  PROVE  Apply(p, port, c, v, m) =
           AfterWrite(c, e, AfterWrite(c, d, AfterWrite(c, b, AfterWrite(c, a, Answered("None", m)))))
<1> DEFINE N == Len(Writes(p, port, c, v))
           writes == Writes(p, port, c, v)
<1>1. N = 4 /\ writes[1] = a /\ writes[2] = b /\ writes[3] = d /\ writes[4] = e
  OBVIOUS
<1> HIDE DEF N, writes
<1>2. PICK f : /\ f[0] = Answered("None", m)
               /\ \A n \in 1 .. N : f[n] = AfterWrite(c, Writes(p, port, c, v)[n], f[n - 1])
               /\ Apply(p, port, c, v, m) = f[N]
  <2>1. N \in Nat
    BY <1>1
  <2>2. Len(Writes(p, port, c, v)) = N
    BY DEF N
  <2>3. Unfolded(p, port, c, v, m, N)
    BY <2>1, <2>2, ApplyUnfolds
  <2>4. QED
    BY <2>3 DEF Unfolded
<1>3. 1 \in 1 .. N /\ 1 - 1 = 0 /\ 2 \in 1 .. N /\ 2 - 1 = 1 /\ 3 \in 1 .. N /\ 3 - 1 = 2 /\ 4 \in 1 .. N /\ 4 - 1 = 3
  BY <1>1
<1>4. /\ f[1] = AfterWrite(c, a, f[0]) /\ f[2] = AfterWrite(c, b, f[1])
      /\ f[3] = AfterWrite(c, d, f[2]) /\ f[4] = AfterWrite(c, e, f[3])
  BY <1>1, <1>2, <1>3 DEF writes
<1>5. QED
  BY <1>1, <1>2, <1>4

\* a parameter of five writes
LEMMA FiveAnswers ==
  ASSUME NEW p, NEW port, NEW c, NEW v, NEW m, NEW a, NEW b, NEW d, NEW e, NEW g,
         LET all == Writes(p, port, c, v)
         IN Len(all) = 5 /\ all[1] = a /\ all[2] = b /\ all[3] = d /\ all[4] = e /\ all[5] = g
  PROVE  Apply(p, port, c, v, m) =
           AfterWrite(c, g, AfterWrite(c, e, AfterWrite(c, d, AfterWrite(c, b, AfterWrite(c, a, Answered("None", m))))))
<1> DEFINE N == Len(Writes(p, port, c, v))
           writes == Writes(p, port, c, v)
<1>1. N = 5 /\ writes[1] = a /\ writes[2] = b /\ writes[3] = d /\ writes[4] = e /\ writes[5] = g
  OBVIOUS
<1> HIDE DEF N, writes
<1>2. PICK f : /\ f[0] = Answered("None", m)
               /\ \A n \in 1 .. N : f[n] = AfterWrite(c, Writes(p, port, c, v)[n], f[n - 1])
               /\ Apply(p, port, c, v, m) = f[N]
  <2>1. N \in Nat
    BY <1>1
  <2>2. Len(Writes(p, port, c, v)) = N
    BY DEF N
  <2>3. Unfolded(p, port, c, v, m, N)
    BY <2>1, <2>2, ApplyUnfolds
  <2>4. QED
    BY <2>3 DEF Unfolded
<1>3. /\ 1 \in 1 .. N /\ 1 - 1 = 0 /\ 2 \in 1 .. N /\ 2 - 1 = 1 /\ 3 \in 1 .. N /\ 3 - 1 = 2
      /\ 4 \in 1 .. N /\ 4 - 1 = 3 /\ 5 \in 1 .. N /\ 5 - 1 = 4
  BY <1>1
<1>4. /\ f[1] = AfterWrite(c, a, f[0]) /\ f[2] = AfterWrite(c, b, f[1])
      /\ f[3] = AfterWrite(c, d, f[2]) /\ f[4] = AfterWrite(c, e, f[3]) /\ f[5] = AfterWrite(c, g, f[4])
  BY <1>1, <1>2, <1>3 DEF writes
<1>5. QED
  BY <1>1, <1>2, <1>4

-----------------------------------------------------------------------------
(* A parameter of one write: what is refused changes nothing.                 *)
Lost(c, p, m) ==
  CASE p \in WritesGop -> {"RECOVERY_POINT_SEI"}
    [] p = "Expertise" -> {"RECOVERY_POINT_SEI", "CONSTRAINED_INTRA_PREDICTION"}
    [] p \in {"MaxPictureSizes", "MaxPictureSize"} -> {"MAX_PICTURE_SIZES_IN_BITS"}
    [] p = "PortDefinition" /\ c \in Encoders /\ Tiled(m.FORMAT) -> {"RESOLUTION"}
    [] OTHER -> {}
OneWrite == Parameters \ {"PortDefinition", "PortFormat", "Expertise"}

\* the parameters of one write
LEMMA OneWriteForm ==
  ASSUME NEW p \in OneWrite, NEW port \in Ports, NEW c, NEW v
  PROVE  \E idx, x : Writes(p, port, c, v) = <<Write(idx, x)>>
<1>1. CASE p = "BufferMode"
  BY <1>1 DEF Writes
<1>2. CASE p = "Quantization"
  BY <1>2 DEF Writes
<1>3. CASE p \in {"MaxPictureSize", "MaxPictureSizeInBits"}
  BY <1>3 DEF Writes, SetMaxPictureSizes
<1>4. CASE p \in Windows
  <2>1. Writes(p, port, c, v) = <<Write(WindowOf(port)[p].index, v)>>
    BY <1>4, WindowsApart DEF Writes
  <2>2. QED
    BY <2>1
<1>5. QED
  BY <1>1, <1>2, <1>3, <1>4 DEF OneWrite, Parameters

\* one write, refused, changes nothing
LEMMA OneWriteRefused ==
  ASSUME NEW p \in OneWrite, NEW port \in Ports, NEW c, NEW v, NEW m, Apply(p, port, c, v, m).error # "None"
  PROVE  Apply(p, port, c, v, m).media = m
<1>1. PICK idx, x : Writes(p, port, c, v) = <<Write(idx, x)>>
  BY OneWriteForm
<1>2. Apply(p, port, c, v, m) = WriteWindow(c, Write(idx, x), m)
  BY <1>1, ApplyOne
<1>3. QED
  BY <1>2, WindowTouches

\* the windows on the group of pictures
LEMMA GopWindows == \A p \in Windows : p \in WritesGop <=> WindowOf("input")[p].index = "GROUP_OF_PICTURES"
BY DEF WritesGop

\* one write, set back
LEMMA OneWriteBack ==
  ASSUME NEW p \in OneWrite, NEW port \in Ports, NEW c \in Codecs, NEW m, Sound(c, m), Restorable(c, m), Fit(c, m),
         MustRead(p, port) \subseteq Readable[c], p # "RateControlPlugin"
  PROVE  LET back == Apply(p, port, c, Construct(p, port, c, m), m)
         IN back.error = "None" /\ Differ(back.media, m, Lost(c, p, m))
<1> DEFINE v == Construct(p, port, c, m)
           back == Apply(p, port, c, v, m)
<1>1. CASE p = "BufferMode"
  <2> DEFINE idx == "BUFFER_HANDLES"
             w == Write(idx, Pick({port}, m[idx]))
  <2>1. Writes(p, port, c, v) = <<Write(idx, Pick({port}, m[idx]))>>
    BY <1>1 DEF Writes, Construct
  <2>2. back = WriteWindow(c, w, m)
    BY <2>1, ApplyOne
  <2>3. idx \in Readable[c] /\ idx \in Settable[c] /\ idx \in Stored(c) /\ idx \in DOMAIN m /\ "RESOLUTION" \in DOMAIN m
    BY IndicesOfCodec, MoreIndices DEF Sound, Shaped
  <2>4. HasFields(m[idx], Fields(idx)) /\ Accepted(c, idx, m[idx], m)
    BY <2>3 DEF Restorable
  <2>5. m[idx].input # MaxEnum /\ m[idx].output # MaxEnum
    BY <2>4 DEF Accepted, Accepts, CheckBufferHandles, CropIndices, PictureSizeIndices, EnumIndices, ColourIndices
  <2>6. m[idx][port] # MaxEnum
    BY <2>5 DEF Ports
  <2>7. ~Unconvertible(w) /\ w.index = idx /\ w.value = Pick({port}, m[idx])
    BY <2>6 DEF Unconvertible, Write, Pick
  <2>8. Merge(w.value, m[idx]) = m[idx]
    BY <2>4, <2>7, MergePart
  <2> HIDE DEF w
  <2>9. WriteWindow(c, w, m) = Answered("None", Store(c, idx, m[idx], m))
    BY <2>3, <2>7, <2>8, BackWrite
  <2>10. Differ(m, m, {})
    BY DEF Differ
  <2>11. Differ(Store(c, idx, m[idx], m), m, ({} \cup Touched(idx)) \ {idx})
    BY <2>3, <2>10, StoreBack
  <2>12. ({} \cup Touched(idx)) \ {idx} = {}
    BY DEF Touched
  <2>13. Differ(Store(c, idx, m[idx], m), m, Lost(c, p, m))
    BY <2>11, <2>12 DEF Differ
  <2> HIDE DEF back
  <2>14. QED
    BY <2>2, <2>9, <2>13 DEF Answered, back
<1> DEFINE Read(idx, F, x) ==
             /\ Writes(p, port, c, v) = <<Write(idx, x)>> /\ x = Pick(F, Get(c, idx, m))
             /\ idx \in (Readable[c] \cap Settable[c])
                          \ {"FORMAT", "RESOLUTION", "BUFFER_HANDLES", "LOOP_FILTER", "CONSTRAINED_INTRA_PREDICTION"}
             /\ idx # "RATE_CONTROL_PLUGIN" /\ Touched(idx) \ {idx} \subseteq Lost(c, p, m)
<1>2. ASSUME NEW idx, NEW F, NEW x, Read(idx, F, x)
      PROVE  back.error = "None" /\ Differ(back.media, m, Lost(c, p, m))
  <2> DEFINE w == Write(idx, x)
  <2>1. back = WriteWindow(c, w, m)
    BY <1>2, ApplyOne
  <2>2. w.index = idx /\ w.value = x
    BY DEF Write
  <2> HIDE DEF w, back, v
  <2>3. WriteWindow(c, w, m).error = "None" /\ Differ(WriteWindow(c, w, m).media, m, Touched(idx) \ {idx})
    BY <1>2, <2>2, WindowRestored
  <2>4. QED
    BY <1>2, <2>1, <2>3 DEF Differ
<1>3. CASE p = "Quantization"
  <2> DEFINE idx == "QUANTIZATION_PARAMETER"
             q == m[idx]
             x == QuantizationToMedia(QuantizationToOMX(q))
             F == {"initial", "deltaIP", "deltaPB"}
  <2>1. Writes(p, port, c, v) = <<Write(idx, x)>>
    BY <1>3 DEF Writes, Construct
  <2>2. idx \in Readable[c] /\ idx \in Settable[c] /\ idx \in Stored(c)
    BY <1>3, IndicesOfCodec, MoreIndices DEF MustRead
  <2>3. q.initial \in Int /\ q.deltaIP \in Int /\ q.deltaPB \in Int
    BY <2>2 DEF Restorable, Steady, WholeFields, PictureSizeIndices
  <2>4. Get(c, idx, m) = q
    BY DEF Get
  <2> HIDE DEF q
  <2>5. \A a, b \in Int : (a + b) - a = b
    OBVIOUS
  <2>6. x = [initial |-> q.initial, deltaIP |-> q.deltaIP, deltaPB |-> q.deltaPB]
    BY <2>3, <2>5 DEF QuantizationToMedia, QuantizationToOMX
  <2>7. x = Pick(F, q)
    BY <2>6 DEF Pick
  <2>8. Touched(idx) \ {idx} = {}
    BY DEF Touched
  <2>9. Read(idx, F, x)
    <3> HIDE DEF x, v
    <3>1. QED
      BY <2>1, <2>2, <2>4, <2>7, <2>8
  <2> HIDE DEF Read
  <2>10. QED
    BY <1>2, <2>9
<1>4. CASE p \in {"MaxPictureSize", "MaxPictureSizeInBits"}
  <2> DEFINE idx == IF p = "MaxPictureSize" THEN "MAX_PICTURE_SIZES" ELSE "MAX_PICTURE_SIZES_IN_BITS"
             x == Get(c, idx, m)
             F == {"i", "p", "b"}
  <2>1. v = x /\ MustRead(p, port) = {idx}
    BY <1>4, OneSizeIndex
  <2>2. idx \in Readable[c] /\ idx \in Settable[c]
    BY <2>1, MoreIndices
  <2>3. Fields(idx) = F
    BY DEF Fields, CropIndices, PictureSizeIndices
  <2>4. HasFields(x, F)
    BY <2>2, <2>3, GetWhole
  <2>5. x = Pick(F, x) /\ "size" \notin DOMAIN x
    <3> HIDE DEF x
    <3>1. QED
      BY <2>4 DEF HasFields, Pick
  <2>6. Writes(p, port, c, v) = <<Write(idx, x)>>
    <3>1. Writes(p, port, c, v) = SetMaxPictureSizes(p, v)
      BY <1>4 DEF Writes
    <3> HIDE DEF v, x
    <3>2. QED
      BY <2>1, <2>5, <3>1 DEF SetMaxPictureSizes
  <2>7. Touched(idx) \ {idx} \subseteq Lost(c, p, m)
    <3>1. p \notin WritesGop
      BY <1>4, WindowsApart DEF WritesGop
    <3>2. QED
      BY <1>4, <3>1 DEF Touched, Lost
  <2>8. Read(idx, F, x)
    <3>1. idx \in (Readable[c] \cap Settable[c])
                   \ {"FORMAT", "RESOLUTION", "BUFFER_HANDLES", "LOOP_FILTER", "CONSTRAINED_INTRA_PREDICTION"}
      BY <2>2
    <3>2. x = Pick(F, Get(c, idx, m)) /\ idx # "RATE_CONTROL_PLUGIN"
      BY <2>5
    <3> HIDE DEF x, v, idx
    <3>3. QED
      BY <2>6, <2>7, <3>1, <3>2
  <2> HIDE DEF Read
  <2>9. QED
    BY <1>2, <2>8
<1>5. CASE p \in Windows
  <2> DEFINE idx == WindowOf(port)[p].index
             F == WindowOf(port)[p].fields
  <2>1. Writes(p, port, c, v) = <<Write(idx, v)>>
    BY <1>5, WindowsApart DEF Writes
  <2>2. v = Pick(F, Get(c, idx, m)) /\ MustRead(p, port) = {idx}
    BY <1>5, WindowsApart DEF Construct, MustRead
  <2>3. idx \in Readable[c]
    BY <2>2
  <2>4. /\ idx \notin {"FORMAT", "RESOLUTION", "BUFFER_HANDLES", "LOOP_FILTER", "CONSTRAINED_INTRA_PREDICTION",
                       "ENTROPY_CODING", "LOG2_CODING_UNIT"}
        /\ idx # "RATE_CONTROL_PLUGIN"
        /\ idx = "GROUP_OF_PICTURES" => p \in WritesGop
    BY <1>5, WindowsApart, WindowIndices
  <2>5. idx \in Settable[c]
    BY <2>3, <2>4, MoreIndices
  <2>6. idx = "MAX_PICTURE_SIZES" => p = "MaxPictureSizes"
    BY <1>5, WindowFields
  <2>7. Touched(idx) \ {idx} \subseteq Lost(c, p, m)
    <3>1. p = "MaxPictureSizes" => p \notin WritesGop
      BY DEF WritesGop, WindowOf, VideoMaxPictureSizes, Window
    <3>2. idx # "FORMAT" /\ (idx = "GROUP_OF_PICTURES" => p \in WritesGop) /\ (idx = "MAX_PICTURE_SIZES" => p = "MaxPictureSizes")
      BY <2>4, <2>6
    <3> HIDE DEF idx
    <3>3. CASE idx = "GROUP_OF_PICTURES"
      BY <1>5, <3>1, <3>2, <3>3, WindowsApart DEF Touched, Lost
    <3>4. CASE idx = "MAX_PICTURE_SIZES"
      BY <3>1, <3>2, <3>4 DEF Touched, Lost
    <3>5. CASE idx \notin {"GROUP_OF_PICTURES", "MAX_PICTURE_SIZES"}
      BY <3>2, <3>5 DEF Touched
    <3>6. QED
      BY <3>3, <3>4, <3>5
  <2>8. Read(idx, F, v)
    <3>1. idx \in (Readable[c] \cap Settable[c])
                   \ {"FORMAT", "RESOLUTION", "BUFFER_HANDLES", "LOOP_FILTER", "CONSTRAINED_INTRA_PREDICTION"}
      BY <2>3, <2>4, <2>5
    <3>2. v = Pick(F, Get(c, idx, m))
      BY <2>2
    <3> HIDE DEF idx, v, F
    <3>3. QED
      BY <2>1, <2>4, <2>7, <3>1, <3>2
  <2> HIDE DEF Read
  <2>9. QED
    BY <1>2, <2>8
<1>6. QED
  BY <1>1, <1>3, <1>4, <1>5 DEF OneWrite, Parameters
-----------------------------------------------------------------------------
(* A parameter of several writes: each gives back what it can.                *)
LEMMA BackStep ==
  ASSUME NEW c \in Codecs, NEW m, Sound(c, m), Restorable(c, m), NEW D, NEW sofar, sofar.error = "None",
         Differ(sofar.media, m, D), NEW w, NEW idx, w.index = idx,
         idx \in (Readable[c] \cap Settable[c])
                   \ {"RESOLUTION", "MAX_PICTURE_SIZES", "RATE_CONTROL_PLUGIN", "CONSTRAINED_INTRA_PREDICTION",
                      "LOOP_FILTER"},
         ~Unconvertible(w), Merge(w.value, sofar.media[idx]) = m[idx],
         idx = "BITRATE" => ~DividesByZero(m[idx], sofar.media.CLOCK) /\ CheckBitrate(m[idx], sofar.media.CLOCK)
  PROVE  /\ AfterWrite(c, w, sofar).error = "None"
         /\ Differ(AfterWrite(c, w, sofar).media, m, (D \cup Touched(idx)) \ {idx})
<1> DEFINE n == sofar.media
           now == WriteWindow(c, w, n)
<1>1. now = Answered("None", Store(c, idx, m[idx], n))
  BY BackWrite
<1>2. idx \in DOMAIN m /\ "RESOLUTION" \in DOMAIN m
  BY IndicesOfCodec DEF Sound, Shaped
<1>3. Differ(Store(c, idx, m[idx], n), m, (D \cup Touched(idx)) \ {idx})
  BY <1>2, StoreBack
<1>4. now.error = "None" /\ now.media = Store(c, idx, m[idx], n)
  BY <1>1 DEF Answered
<1>5. AfterWrite(c, w, sofar) = IF w.optional /\ now.error = "UnsupportedIndex" THEN sofar ELSE now
  BY DEF AfterWrite
<1>6. AfterWrite(c, w, sofar) = now
  BY <1>4, <1>5
<1>7. QED
  BY <1>3, <1>4, <1>6

\* what a class does not have is skipped
LEMMA SkipStep ==
  ASSUME NEW c, NEW sofar, NEW w, w.optional, w.index \notin Readable[c] \cup Settable[c],
         w.index \notin {"FORMAT", "BUFFER_HANDLES"}
  PROVE  AfterWrite(c, w, sofar) = sofar
<1>1. WriteWindow(c, w, sofar.media) = Answered("UnsupportedIndex", sofar.media)
  BY DEF WriteWindow, Unconvertible, Set
<1>2. QED
  BY <1>1 DEF AfterWrite, Answered

\* the fields of a write
LEMMA WrittenFields == \A index, value :
  /\ Write(index, value).index = index /\ Write(index, value).value = value /\ ~Write(index, value).optional
  /\ IfKnown(index, value).index = index /\ IfKnown(index, value).value = value /\ IfKnown(index, value).optional
BY DEF Write, IfKnown

\* the clock and the format, from what was read
LEMMA ClockStep ==
  ASSUME NEW c \in Codecs, NEW m, Sound(c, m), Restorable(c, m), NEW D, NEW sofar, sofar.error = "None",
         Differ(sofar.media, m, D), DOMAIN sofar.media.CLOCK = Fields("CLOCK"),
         NEW rate, rate = ConvertMediaToOMXFramerate(m.CLOCK)
  PROVE  LET a == AfterWrite(c, Write("CLOCK", ConvertOMXToMediaClock(rate)), sofar)
         IN a.error = "None" /\ Differ(a.media, m, D \ {"CLOCK"})
<1> DEFINE w == Write("CLOCK", ConvertOMXToMediaClock(rate))
           n == sofar.media
<1>1. "CLOCK" \in Readable[c] /\ "CLOCK" \in Settable[c] /\ "CLOCK" \in Stored(c)
  BY IndicesOfCodec, MoreIndices
<1>2. HasFields(m.CLOCK, Fields("CLOCK")) /\ SteadyClock(m.CLOCK)
  BY <1>1 DEF Restorable, Steady
<1>3. w.index = "CLOCK" /\ w.value = m.CLOCK
  BY <1>2, WrittenFields DEF SteadyClock
<1>5. Merge(w.value, n.CLOCK) = m.CLOCK
  BY <1>2, <1>3, MergeAll
<1>6. ~Unconvertible(w)
  BY <1>3 DEF Unconvertible
<1> HIDE DEF w
<1>7. /\ AfterWrite(c, w, sofar).error = "None"
      /\ Differ(AfterWrite(c, w, sofar).media, m, (D \cup Touched("CLOCK")) \ {"CLOCK"})
  BY <1>1, <1>3, <1>5, <1>6, BackStep
<1>8. (D \cup Touched("CLOCK")) \ {"CLOCK"} = D \ {"CLOCK"}
  BY DEF Touched
<1>9. QED
  BY <1>7, <1>8 DEF w

\* setting the format back
LEMMA FormatStep ==
  ASSUME NEW c \in Codecs, NEW m, Sound(c, m), Restorable(c, m), NEW D, NEW sofar, sofar.error = "None",
         Differ(sofar.media, m, D), DOMAIN sofar.media.FORMAT = Fields("FORMAT"), D = {} \/ "RESOLUTION" \in D
  PROVE  LET a == AfterWrite(c, Write("FORMAT", m.FORMAT), sofar)
         IN a.error = "None" /\ Differ(a.media, m, D \ {"FORMAT"})
<1> DEFINE w == Write("FORMAT", m.FORMAT)
           n == sofar.media
           now == WriteWindow(c, w, n)
<1>1. "FORMAT" \in Readable[c] /\ "FORMAT" \in Settable[c] /\ "FORMAT" \in Stored(c) /\ {"RESOLUTION", "FORMAT"} \subseteq DOMAIN m
  BY IndicesOfCodec, MoreIndices DEF Sound, Shaped
<1>2. HasFields(m.FORMAT, Fields("FORMAT")) /\ Accepted(c, "FORMAT", m.FORMAT, m)
  BY <1>1 DEF Restorable
<1>3. w.index = "FORMAT" /\ w.value = m.FORMAT /\ ~w.optional
  BY WrittenFields
<1>5. Merge(w.value, n.FORMAT) = m.FORMAT
  BY <1>2, <1>3, MergeAll
<1>6. m.FORMAT # NoFormat
  <2>1. m.FORMAT.color \in Colors
    BY <1>2 DEF Accepted, Accepts, CheckFormat, CropIndices, PictureSizeIndices, EnumIndices, ColourIndices
  <2>2. NoFormat.color \notin Colors
    BY DEF NoFormat, Colors
  <2>3. QED
    BY <2>1, <2>2
<1>7. ~Unconvertible(w)
  BY <1>3, <1>6 DEF Unconvertible
<1> HIDE DEF w
<1>8. CASE "RESOLUTION" \in D
  <2>1. /\ AfterWrite(c, w, sofar).error = "None"
        /\ Differ(AfterWrite(c, w, sofar).media, m, (D \cup Touched("FORMAT")) \ {"FORMAT"})
    BY <1>1, <1>3, <1>5, <1>7, BackStep
  <2>2. (D \cup Touched("FORMAT")) \ {"FORMAT"} = D \ {"FORMAT"}
    BY <1>8 DEF Touched
  <2>3. QED
    BY <2>1, <2>2 DEF w
<1>9. CASE D = {}
  <2>1. now = Answered("None", Store(c, "FORMAT", m.FORMAT, n))
    BY <1>1, <1>3, <1>5, <1>7, BackWrite
  <2>2. Differ(Store(c, "FORMAT", m.FORMAT, n), m, {})
    BY <1>1, <1>9, FormatBack DEF Sound
  <2>3. AfterWrite(c, w, sofar) = now
    BY <1>3 DEF AfterWrite
  <2>4. D \ {"FORMAT"} = {}
    BY <1>9
  <2>5. QED
    BY <2>1, <2>2, <2>3, <2>4 DEF Answered, w
<1>10. QED
  BY <1>8, <1>9

-----------------------------------------------------------------------------
(* The format of a port.                                                      *)
LEMMA PortFormatRefused ==
  ASSUME NEW port, NEW c, NEW v, NEW m, Apply("PortFormat", port, c, v, m).error # "None"
  PROVE  Differ(Apply("PortFormat", port, c, v, m).media, m, {"CLOCK"})
<1> DEFINE w == Write("CLOCK", ConvertOMXToMediaClock(v.xFramerate))
           u == Write("FORMAT", v.format)
           none == Answered("None", m)
           a == AfterWrite(c, w, none)
           b == AfterWrite(c, u, a)
<1>1. Writes("PortFormat", port, c, v) = <<w, u>>
  BY DEF Writes, SetVideoPortFormat
<1>2. Len(Writes("PortFormat", port, c, v)) = 2 /\ Writes("PortFormat", port, c, v)[1] = w /\ Writes("PortFormat", port, c, v)[2] = u
  BY <1>1
<1>3. Apply("PortFormat", port, c, v, m) = b
  BY <1>2, TwoAnswers
<1>4. w.index = "CLOCK" /\ none.media = m
  BY WrittenFields DEF Answered
<1> HIDE DEF w, u, none
<1>5. Differ(a.media, m, Touched("CLOCK"))
  BY <1>4, StepTouches
<1>6. b.error # "None" => b.media = a.media
  BY StepTouches
<1> HIDE DEF a, b
<1>7. Touched("CLOCK") = {"CLOCK"}
  BY DEF Touched
<1>8. QED
  BY <1>3, <1>5, <1>6, <1>7

\* the clock and the format, set back
LEMMA PortFormatBack ==
  ASSUME NEW port, NEW c \in Codecs, NEW m, Sound(c, m), Restorable(c, m), NEW n, Sound(c, n), Differ(n, m, {"CLOCK"})
  PROVE  LET back == Apply("PortFormat", port, c, Construct("PortFormat", port, c, m), n)
         IN back.error = "None" /\ Differ(back.media, m, {})
<1> DEFINE v == Construct("PortFormat", port, c, m)
           rate == ConvertMediaToOMXFramerate(m.CLOCK)
           w == Write("CLOCK", ConvertOMXToMediaClock(rate))
           u == Write("FORMAT", m.FORMAT)
           none == Answered("None", n)
           a == AfterWrite(c, w, none)
           b == AfterWrite(c, u, a)
<1>0. v.xFramerate = rate /\ v.format = m.FORMAT
  BY DEF Construct, ConstructVideoPortCurrentFormat
<1>1. Writes("PortFormat", port, c, v) = <<w, u>>
  BY <1>0 DEF Writes, SetVideoPortFormat
<1>2. Len(Writes("PortFormat", port, c, v)) = 2 /\ Writes("PortFormat", port, c, v)[1] = w /\ Writes("PortFormat", port, c, v)[2] = u
  BY <1>1
<1>3. Apply("PortFormat", port, c, v, n) = b
  BY <1>2, TwoAnswers
<1>4. none.error = "None" /\ none.media = n
  BY DEF Answered
<1> HIDE DEF none
<1>5. DOMAIN n.CLOCK = Fields("CLOCK") /\ "FORMAT" \in DOMAIN m
  BY IndicesOfCodec DEF Sound, Shaped
<1>6. a.error = "None" /\ Differ(a.media, m, {"CLOCK"} \ {"CLOCK"})
  BY <1>4, <1>5, ClockStep
<1>7. DOMAIN a.media.FORMAT = Fields("FORMAT")
  BY <1>5, <1>6, IndicesOfCodec DEF Differ, Sound, Shaped
<1>8. {"CLOCK"} \ {"CLOCK"} = {} /\ {} \ {"FORMAT"} = {}
  OBVIOUS
<1> HIDE DEF a, w
<1>9. b.error = "None" /\ Differ(b.media, m, {} \ {"FORMAT"})
  BY <1>6, <1>7, <1>8, FormatStep
<1>10. QED
  BY <1>3, <1>8, <1>9
-----------------------------------------------------------------------------
(* The definition of a port.                                                  *)
Measures == {"width", "height", "stride", "sliceHeight"}
DefinitionBefore == {"FORMAT", "RESOLUTION", "CLOCK"}

\* the four writes of a definition
LEMMA DefinitionWrites ==
  ASSUME NEW port, NEW c, NEW v, NEW m
  PROVE  Apply("PortDefinition", port, c, v, m) =
           AfterWrite(c, IfKnown("BITRATE", [target |-> v.bitrate]),
             AfterWrite(c, Write("RESOLUTION", Pick(Measures, v)),
               AfterWrite(c, Write("CLOCK", ConvertOMXToMediaClock(v.xFramerate)),
                 AfterWrite(c, Write("FORMAT", v.format), Answered("None", m)))))
<1> DEFINE w1 == Write("FORMAT", v.format)
           w2 == Write("CLOCK", ConvertOMXToMediaClock(v.xFramerate))
           w3 == Write("RESOLUTION", Pick(Measures, v))
           w4 == IfKnown("BITRATE", [target |-> v.bitrate])
<1>1. Writes("PortDefinition", port, c, v) = <<w1, w2, w3, w4>>
  BY DEF Writes, SetPortDefinition, Measures
<1> HIDE DEF w1, w2, w3, w4
<1>4. LET all == Writes("PortDefinition", port, c, v)
      IN Len(all) = 4 /\ all[1] = w1 /\ all[2] = w2 /\ all[3] = w3 /\ all[4] = w4
  BY <1>1
<1>2. Apply("PortDefinition", port, c, v, m) =
        AfterWrite(c, w4, AfterWrite(c, w3, AfterWrite(c, w2, AfterWrite(c, w1, Answered("None", m)))))
  BY <1>4, FourAnswers
<1>3. QED
  BY <1>2 DEF w1, w2, w3, w4

\* two changes, one after the other
LEMMA DifferTwice ==
  ASSUME NEW x, NEW n, NEW m, NEW D, NEW E, Differ(x, n, D), Differ(n, m, E)
  PROVE  Differ(x, m, D \cup E)
BY DEF Differ

\* what a refused definition has changed
LEMMA DefinitionRefused ==
  ASSUME NEW port, NEW c, NEW v, NEW m, Apply("PortDefinition", port, c, v, m).error # "None"
  PROVE  Differ(Apply("PortDefinition", port, c, v, m).media, m, DefinitionBefore)
<1> DEFINE w1 == Write("FORMAT", v.format)
           w2 == Write("CLOCK", ConvertOMXToMediaClock(v.xFramerate))
           w3 == Write("RESOLUTION", Pick(Measures, v))
           w4 == IfKnown("BITRATE", [target |-> v.bitrate])
           a0 == Answered("None", m)
           a1 == AfterWrite(c, w1, a0)
           a2 == AfterWrite(c, w2, a1)
           a3 == AfterWrite(c, w3, a2)
           a4 == AfterWrite(c, w4, a3)
<1>1. Apply("PortDefinition", port, c, v, m) = a4
  BY DefinitionWrites
<1>2. w1.index = "FORMAT" /\ w2.index = "CLOCK" /\ w3.index = "RESOLUTION" /\ a0.media = m
  BY WrittenFields DEF Answered
<1> HIDE DEF w1, w2, w3, w4, a0
<1>3. Differ(a1.media, m, Touched("FORMAT"))
  BY <1>2, StepTouches
<1> HIDE DEF a1
<1>4. Differ(a2.media, a1.media, Touched("CLOCK"))
  BY <1>2, StepTouches
<1> HIDE DEF a2
<1>5. Differ(a3.media, a2.media, Touched("RESOLUTION"))
  BY <1>2, StepTouches
<1> HIDE DEF a3
<1>6. a4.error # "None" => a4.media = a3.media
  BY StepTouches
<1>7. Differ(a3.media, m, Touched("RESOLUTION") \cup (Touched("CLOCK") \cup Touched("FORMAT")))
  BY <1>3, <1>4, <1>5, DifferTwice
<1>8. Touched("RESOLUTION") \cup (Touched("CLOCK") \cup Touched("FORMAT")) = DefinitionBefore
  BY DEF Touched, DefinitionBefore
<1> HIDE DEF a4
<1>9. QED
  BY <1>1, <1>6, <1>7, <1>8

\* a size that fits is given back as it is
LEMMA Multiple ==
  ASSUME NEW k \in Nat, NEW a \in Nat \ {0}, k % a = 0
  PROVE  \E q \in Nat : k = a * q
<1>1. k = a * (k \div a)
  BY SMTT(30)
<1>2. k \div a \in Nat
  BY SMTT(30)
<1>3. QED
  BY <1>1, <1>2

\* a multiple is rounded to itself
LEMMA RoundUpSame ==
  ASSUME NEW n \in Nat, NEW a \in Nat \ {0}, n % a = 0
  PROVE  RoundUp(n, a) = n
<1>1. PICK q \in Nat : n = a * q
  BY Multiple
<1>2. (n + a - 1) \div a = q
  <2>1. a * q <= n + a - 1 /\ n + a - 1 < a * (q + 1)
    <3>1. a * q \in Nat /\ a * (q + 1) = a * q + a
      BY <1>1
    <3>2. QED
      BY <1>1, <3>1
  <2>2. QED
    BY <2>1, QuotientIs
<1>3. q * a = a * q
  OBVIOUS
<1>4. QED
  BY <1>1, <1>2, <1>3 DEF RoundUp

\* rounding up stays below every multiple above
LEMMA MultipleAbove ==
  ASSUME NEW n \in Nat, NEW k \in Nat, NEW a \in Nat \ {0}, k % a = 0, n <= k
  PROVE  RoundUp(n, a) \in Int /\ RoundUp(n, a) <= k
<1>1. PICK q \in Nat : k = a * q
  BY Multiple
<1> DEFINE r == (n + a - 1) \div a
<1>2. r \in Int /\ a * r <= n + a - 1
  BY Quotient
<1> HIDE DEF r
<1>3. a * q \in Nat /\ a * (q + 1) = a * q + a /\ a * r \in Int /\ q + 1 \in Int
  BY <1>1, <1>2
<1>4. a * r < a * (q + 1)
  BY <1>1, <1>2, <1>3
<1>5. r < q + 1
  BY <1>1, <1>2, <1>3, <1>4, LessFactor
<1>6. r <= q
  BY <1>1, <1>2, <1>5
<1>7. r * a <= q * a /\ r * a \in Int
  BY <1>1, <1>2, <1>6, SMTT(30)
<1>8. q * a = a * q
  BY <1>1
<1>9. QED
  BY <1>1, <1>7, <1>8 DEF RoundUp, r

\* the strides of the settings are large enough for their own picture
LEMMA ResolutionBack ==
  ASSUME NEW m, Fits(m), {"RESOLUTION", "FORMAT"} \subseteq DOMAIN m, NEW n, Differ(n, m, {"RESOLUTION"})
  PROVE  UpdateResolution(m.RESOLUTION, n).RESOLUTION = m.RESOLUTION
<1> DEFINE r == m.RESOLUTION
           x == UpdateResolution(m.RESOLUTION, n)
<1>1. /\ r \in Sizes /\ r.stride >= MinStride(r.width, m.FORMAT) /\ r.stride % HAlign = 0
      /\ r.sliceHeight >= r.height /\ r.sliceHeight % VAlign = 0
  BY DEF Fits
<1>2. n.FORMAT = m.FORMAT /\ "RESOLUTION" \in DOMAIN n
  BY DEF Differ
<1>3. x.RESOLUTION = [width |-> r.width, height |-> r.height,
                      stride |-> Larger(MinStride(r.width, m.FORMAT), RoundUp(r.stride, HAlign)),
                      sliceHeight |-> Larger(RoundUp(r.height, VAlign), RoundUp(r.sliceHeight, VAlign))]
  BY <1>2 DEF UpdateResolution
<1> HIDE DEF r, x
<1>4. r.width \in Nat /\ r.height \in Nat /\ r.stride \in Nat /\ r.sliceHeight \in Nat
  BY <1>1 DEF Sizes
<1>5. RoundUp(r.stride, HAlign) = r.stride /\ RoundUp(r.sliceHeight, VAlign) = r.sliceHeight
  BY <1>1, <1>4, RoundUpSame, AlignmentsAssumption
<1>6. MinStride(r.width, m.FORMAT) \in Int
  BY <1>4, MinStrideFacts
<1>7. RoundUp(r.height, VAlign) \in Int /\ RoundUp(r.height, VAlign) <= r.sliceHeight
  BY <1>1, <1>4, MultipleAbove, AlignmentsAssumption
<1>8. Larger(MinStride(r.width, m.FORMAT), r.stride) = r.stride /\ Larger(RoundUp(r.height, VAlign), r.sliceHeight) = r.sliceHeight
  BY <1>1, <1>4, <1>6, <1>7 DEF Larger
<1>9. r = [width |-> r.width, height |-> r.height, stride |-> r.stride, sliceHeight |-> r.sliceHeight]
  BY <1>1 DEF Sizes
<1>10. QED
  BY <1>3, <1>5, <1>8, <1>9 DEF r, x

\* setting the size back; the height of a tiled picture is lost
LEMMA ResolutionStep ==
  ASSUME NEW c \in Codecs, NEW m, Sound(c, m), NEW sofar, sofar.error = "None",
         Differ(sofar.media, m, {"RESOLUTION"}), Sound(c, sofar.media), NEW value, value = Pick(Measures, Get(c, "RESOLUTION", m))
  PROVE  LET a == AfterWrite(c, Write("RESOLUTION", value), sofar)
         IN a.error = "None" /\ Differ(a.media, m, Lost(c, "PortDefinition", m))
<1> DEFINE w == Write("RESOLUTION", value)
           n == sofar.media
           old == Get(c, "RESOLUTION", n)
           r == Get(c, "RESOLUTION", m)
           now == WriteWindow(c, w, n)
<1>1. "RESOLUTION" \in Readable[c] /\ "RESOLUTION" \in Settable[c] /\ {"RESOLUTION", "FORMAT"} \subseteq DOMAIN m
  BY IndicesOfCodec, MoreIndices DEF Sound, Shaped
<1>2. w.index = "RESOLUTION" /\ w.value = value /\ ~w.optional
  BY WrittenFields
<1>3. DOMAIN old = Measures /\ DOMAIN r = Measures /\ r \in Sizes
  <2>1. Fields("RESOLUTION") = Measures
    BY DEF Fields, CropIndices, PictureSizeIndices, Measures
  <2>2. QED
    BY <1>1, <2>1, GetFields DEF Typed
<1> HIDE DEF w, old, r
<1>4. value = r
  BY <1>3 DEF Pick, Sizes, Measures, r
<1>5. Merge(value, old) = r
  <2>1. HasFields(r, Measures)
    BY <1>3 DEF HasFields, Sizes, Measures
  <2>2. QED
    BY <1>3, <1>4, <2>1, MergeAll
<1>6. now = Set(c, "RESOLUTION", r, n)
  BY <1>1, <1>2, <1>5 DEF WriteWindow, Unconvertible, old
<1>7. Set(c, "RESOLUTION", r, n) = Answered("None", UpdateResolution(r, n))
  BY <1>1 DEF Set, Accepts, Store, CropIndices, PictureSizeIndices, EnumIndices, ColourIndices
<1>8. AfterWrite(c, w, sofar) = now
  BY <1>2 DEF AfterWrite
<1>9. now.error = "None" /\ now.media = UpdateResolution(r, n)
  BY <1>6, <1>7 DEF Answered
<1> HIDE DEF now
<1>10. Differ(UpdateResolution(r, n), m, {"RESOLUTION"})
  BY DEF UpdateResolution, Differ
<1>11. CASE c \in Encoders /\ Tiled(m.FORMAT)
  <2>1. Lost(c, "PortDefinition", m) = {"RESOLUTION"}
    BY <1>11, WindowsApart DEF Lost, WritesGop, Ports
  <2>2. QED
    BY <1>8, <1>9, <1>10, <2>1 DEF w
<1>12. CASE ~(c \in Encoders /\ Tiled(m.FORMAT))
  <2>1. r = m.RESOLUTION
    BY <1>12 DEF Get, r
  <2>2. UpdateResolution(r, n).RESOLUTION = m.RESOLUTION
    BY <1>1, <2>1, ResolutionBack DEF Sound
  <2>3. Differ(UpdateResolution(r, n), m, Lost(c, "PortDefinition", m))
    <3> DEFINE x == UpdateResolution(r, n)
    <3> HIDE DEF x
    <3>1. Differ(x, m, {"RESOLUTION"}) /\ x.RESOLUTION = m.RESOLUTION
      BY <1>10, <2>2 DEF x
    <3>2. Differ(x, m, Lost(c, "PortDefinition", m))
      BY <3>1 DEF Differ
    <3>3. QED
      BY <3>2 DEF x
  <2>4. QED
    BY <1>8, <1>9, <2>3 DEF w
<1>13. QED
  BY <1>11, <1>12

\* setting the target back; a decoder has none
LEMMA BitrateStep ==
  ASSUME NEW c \in Codecs, NEW m, Sound(c, m), Restorable(c, m), Fit(c, m), NEW D, D \subseteq {"RESOLUTION"},
         NEW sofar, sofar.error = "None", Differ(sofar.media, m, D),
         NEW value, c \in Encoders => value = [target |-> m.BITRATE.target]
  PROVE  LET a == AfterWrite(c, IfKnown("BITRATE", value), sofar)
         IN a.error = "None" /\ Differ(a.media, m, D)
<1> DEFINE w == IfKnown("BITRATE", value)
           n == sofar.media
<1>1. w.index = "BITRATE" /\ w.value = value /\ w.optional
  BY WrittenFields
<1> HIDE DEF w
<1>2. CASE c \notin Encoders
  <2>1. "BITRATE" \notin Readable[c] \cup Settable[c]
    BY <1>2, MoreIndices
  <2>2. AfterWrite(c, w, sofar) = sofar
    BY <1>1, <2>1, SkipStep
  <2>3. QED
    BY <2>2 DEF w
<1>3. CASE c \in Encoders
  <2>1. "BITRATE" \in Readable[c] /\ "BITRATE" \in Settable[c] /\ "BITRATE" \in Stored(c) /\ {"BITRATE", "CLOCK"} \subseteq DOMAIN m
    BY <1>3, MoreIndices, IndicesOfCodec DEF Sound, Shaped
  <2>2. n.BITRATE = m.BITRATE /\ n.CLOCK = m.CLOCK
    BY <2>1 DEF Differ
  <2>3. ~DividesByZero(m.BITRATE, n.CLOCK) /\ CheckBitrate(m.BITRATE, n.CLOCK)
    BY <1>3, <2>2 DEF Fit
  <2>4. HasFields(m.BITRATE, Fields("BITRATE"))
    BY <2>1 DEF Restorable
  <2>5. value = Pick({"target"}, m.BITRATE)
    BY <1>3 DEF Pick
  <2>6. Merge(w.value, n.BITRATE) = m.BITRATE
    BY <1>1, <2>2, <2>4, <2>5, MergePart
  <2>7. ~Unconvertible(w)
    BY <1>1 DEF Unconvertible
  <2>8. /\ AfterWrite(c, w, sofar).error = "None"
        /\ Differ(AfterWrite(c, w, sofar).media, m, (D \cup Touched("BITRATE")) \ {"BITRATE"})
    BY <1>1, <2>1, <2>3, <2>6, <2>7, BackStep
  <2>9. (D \cup Touched("BITRATE")) \ {"BITRATE"} = D
    BY DEF Touched
  <2>10. QED
    BY <2>8, <2>9 DEF w
<1>4. QED
  BY <1>2, <1>3

\* the format, the clock, the size and the target, set back
LEMMA DefinitionBack ==
  ASSUME NEW port, NEW c \in Codecs, NEW m, Sound(c, m), Restorable(c, m), Fit(c, m),
         NEW n, Sound(c, n), Differ(n, m, DefinitionBefore)
  PROVE  LET back == Apply("PortDefinition", port, c, Construct("PortDefinition", port, c, m), n)
         IN back.error = "None" /\ Differ(back.media, m, Lost(c, "PortDefinition", m))
<1> DEFINE v == Construct("PortDefinition", port, c, m)
           rate == ConvertMediaToOMXFramerate(m.CLOCK)
           r == Get(c, "RESOLUTION", m)
           size == Pick(Measures, v)
           bits == [target |-> v.bitrate]
           w1 == Write("FORMAT", m.FORMAT)
           w2 == Write("CLOCK", ConvertOMXToMediaClock(rate))
           w3 == Write("RESOLUTION", size)
           w4 == IfKnown("BITRATE", bits)
           a0 == Answered("None", n)
           a1 == AfterWrite(c, w1, a0)
           a2 == AfterWrite(c, w2, a1)
           a3 == AfterWrite(c, w3, a2)
           a4 == AfterWrite(c, w4, a3)
<1>1. v = ConstructPortDefinition(c, m)
  BY DEF Construct
<1>2. /\ v.xFramerate = rate /\ v.format = m.FORMAT
      /\ \A f \in Measures : v[f] = r[f]
      /\ c \in Encoders => v.bitrate = m.BITRATE.target
  BY <1>1 DEF ConstructPortDefinition, Measures
<1>3. size = Pick(Measures, r) /\ (c \in Encoders => bits = [target |-> m.BITRATE.target])
  BY <1>2 DEF Pick
<1>4. Apply("PortDefinition", port, c, v, n) = a4
  <2> HIDE DEF v
  <2>1. QED
    BY <1>2, DefinitionWrites
<1>5. a0.error = "None" /\ a0.media = n
  BY DEF Answered
<1>6. /\ DOMAIN n.FORMAT = Fields("FORMAT") /\ DOMAIN n.CLOCK = Fields("CLOCK")
      /\ {"FORMAT", "CLOCK", "RESOLUTION"} \subseteq Stored(c) /\ DOMAIN m = Stored(c) /\ DOMAIN n = Stored(c)
  BY IndicesOfCodec DEF Sound, Shaped
<1> HIDE DEF v, size, bits, rate, a0
<1>7. a1.error = "None" /\ Differ(a1.media, m, DefinitionBefore \ {"FORMAT"})
  BY <1>5, <1>6, FormatStep DEF DefinitionBefore
<1>8. Sound(c, a1.media)
  <2>1. Numbers(w1)
    BY DEF Numbers, NumberFields, Write
  <2>2. QED
    BY <1>5, <2>1, AfterWriteKeeps
<1> HIDE DEF a1, w1
<1>9. DOMAIN a1.media.CLOCK = Fields("CLOCK")
  BY <1>6, <1>8 DEF Sound, Shaped
<1>10. a2.error = "None" /\ Differ(a2.media, m, (DefinitionBefore \ {"FORMAT"}) \ {"CLOCK"})
  BY <1>7, <1>9, ClockStep DEF rate
<1>11. Sound(c, a2.media)
  <2>1. HasFields(m.CLOCK, Fields("CLOCK")) /\ ConvertOMXToMediaClock(rate) = m.CLOCK /\ Good("CLOCK", m.CLOCK)
    BY <1>6 DEF Restorable, Steady, SteadyClock, Sound, Counted, rate
  <2>2. Numbers(w2)
    BY <2>1 DEF Numbers, NumberFields, Write, Good
  <2>3. QED
    BY <1>8, <2>2, AfterWriteKeeps
<1> HIDE DEF a2, w2
<1>12. (DefinitionBefore \ {"FORMAT"}) \ {"CLOCK"} = {"RESOLUTION"}
  BY DEF DefinitionBefore
<1>13. Differ(a2.media, m, {"RESOLUTION"})
  BY <1>10, <1>12
<1>14. a3.error = "None" /\ Differ(a3.media, m, Lost(c, "PortDefinition", m))
  BY <1>3, <1>10, <1>11, <1>13, ResolutionStep
<1> HIDE DEF a3, w3
<1>15. Lost(c, "PortDefinition", m) \subseteq {"RESOLUTION"}
  <2>1. "PortDefinition" \notin WritesGop
    BY WindowsApart DEF WritesGop, Ports
  <2>2. QED
    BY <2>1 DEF Lost
<1>16. a4.error = "None" /\ Differ(a4.media, m, Lost(c, "PortDefinition", m))
  BY <1>3, <1>14, <1>15, BitrateStep
<1> HIDE DEF a4
<1>17. QED
  BY <1>4, <1>16 DEF v
-----------------------------------------------------------------------------
(* The expertise: profile, group of pictures and tools.                       *)
ExpertiseBefore == {"PROFILE_LEVEL", "GROUP_OF_PICTURES", "RECOVERY_POINT_SEI", "ENTROPY_CODING", "CONSTRAINED_INTRA_PREDICTION"}
GopWrite(v) == IfKnown("GROUP_OF_PICTURES", [b |-> ConvertOMXToMediaBFrames(v.nB, v.nP),
                                             length |-> ConvertOMXToMediaGopLength(v.nB, v.nP)])
ProfileWrite(v) == Write("PROFILE_LEVEL", Pick({"profile", "level"}, v))
EntropyWrite(v) == IfKnown("ENTROPY_CODING", [value |-> v.entropy])
IntraWrite(v) == IfKnown("CONSTRAINED_INTRA_PREDICTION", [value |-> v.intra])
FilterWrite(v) == IfKnown("LOOP_FILTER", [value |-> v.filter])
AfterEntropy(c, v, sofar) == IF c \in {"enc_avc", "dec_avc"} THEN AfterWrite(c, EntropyWrite(v), sofar) ELSE sofar

\* the writes of the expertise
LEMMA ExpertiseWrites ==
  ASSUME NEW port, NEW c, NEW v, NEW m
  PROVE  Apply("Expertise", port, c, v, m) =
           AfterWrite(c, FilterWrite(v), AfterWrite(c, IntraWrite(v), AfterEntropy(c, v,
             AfterWrite(c, GopWrite(v), AfterWrite(c, ProfileWrite(v), Answered("None", m))))))
<1> DEFINE w1 == ProfileWrite(v)
           w2 == GopWrite(v)
           w3 == EntropyWrite(v)
           w4 == IntraWrite(v)
           w5 == FilterWrite(v)
           none == Answered("None", m)
<1>1. Writes("Expertise", port, c, v)
        = <<w1, w2>> \o (IF c \in {"enc_avc", "dec_avc"} THEN <<w3>> ELSE <<>>) \o <<w4, w5>>
  BY DEF Writes, SetExpertise, GopWrite, ProfileWrite, EntropyWrite, IntraWrite, FilterWrite
<1> HIDE DEF w1, w2, w3, w4, w5
<1>2. CASE c \in {"enc_avc", "dec_avc"}
  <2> DEFINE all == <<w1, w2>> \o <<w3>> \o <<w4, w5>>
  <2>1. Len(all) = 5 /\ all[1] = w1 /\ all[2] = w2 /\ all[3] = w3 /\ all[4] = w4 /\ all[5] = w5
    OBVIOUS
  <2>2. Writes("Expertise", port, c, v) = all
    BY <1>1, <1>2
  <2> HIDE DEF all
  <2>3. Apply("Expertise", port, c, v, m) =
          AfterWrite(c, w5, AfterWrite(c, w4, AfterWrite(c, w3, AfterWrite(c, w2, AfterWrite(c, w1, none)))))
    BY <2>1, <2>2, FiveAnswers
  <2>4. QED
    BY <1>2, <2>3 DEF AfterEntropy, w1, w2, w3, w4, w5
<1>3. CASE c \notin {"enc_avc", "dec_avc"}
  <2> DEFINE all == <<w1, w2>> \o <<>> \o <<w4, w5>>
  <2>1. Len(all) = 4 /\ all[1] = w1 /\ all[2] = w2 /\ all[3] = w4 /\ all[4] = w5
    OBVIOUS
  <2>2. Writes("Expertise", port, c, v) = all
    BY <1>1, <1>3
  <2> HIDE DEF all
  <2>3. Apply("Expertise", port, c, v, m) =
          AfterWrite(c, w5, AfterWrite(c, w4, AfterWrite(c, w2, AfterWrite(c, w1, none))))
    BY <2>1, <2>2, FourAnswers
  <2>4. QED
    BY <1>3, <2>3 DEF AfterEntropy, w1, w2, w3, w4, w5
<1>4. QED
  BY <1>2, <1>3

\* their fields
LEMMA ExpertiseIndices == \A v :
  /\ ProfileWrite(v).index = "PROFILE_LEVEL" /\ ~ProfileWrite(v).optional
  /\ ProfileWrite(v).value = Pick({"profile", "level"}, v)
  /\ GopWrite(v).index = "GROUP_OF_PICTURES" /\ GopWrite(v).optional
  /\ GopWrite(v).value = [b |-> ConvertOMXToMediaBFrames(v.nB, v.nP), length |-> ConvertOMXToMediaGopLength(v.nB, v.nP)]
  /\ EntropyWrite(v).index = "ENTROPY_CODING" /\ EntropyWrite(v).value = [value |-> v.entropy] /\ EntropyWrite(v).optional
  /\ IntraWrite(v).index = "CONSTRAINED_INTRA_PREDICTION" /\ IntraWrite(v).optional
  /\ FilterWrite(v).index = "LOOP_FILTER" /\ FilterWrite(v).value = [value |-> v.filter] /\ FilterWrite(v).optional
BY WrittenFields DEF ProfileWrite, GopWrite, EntropyWrite, IntraWrite, FilterWrite

\* only the frames between two pictures of a kind are written
GopRest(n, m) ==
  \A f \in Fields("GROUP_OF_PICTURES") \ {"b", "length"} : n.GROUP_OF_PICTURES[f] = m.GROUP_OF_PICTURES[f]

\* the writes of the expertise leave the other fields of the group of pictures
LEMMA GopStepKeeps ==
  ASSUME NEW c \in Codecs, NEW v, NEW sofar, "GROUP_OF_PICTURES" \in DOMAIN sofar.media,
         DOMAIN sofar.media.GROUP_OF_PICTURES = Fields("GROUP_OF_PICTURES")
  PROVE  GopRest(AfterWrite(c, GopWrite(v), sofar).media, sofar.media)
<1> DEFINE w == GopWrite(v)
           n == sofar.media
           old == n.GROUP_OF_PICTURES
           merged == Merge(w.value, old)
           now == WriteWindow(c, w, n)
<1>0. w.value = [b |-> ConvertOMXToMediaBFrames(v.nB, v.nP), length |-> ConvertOMXToMediaGopLength(v.nB, v.nP)]
  BY ExpertiseIndices
<1>1. w.index = "GROUP_OF_PICTURES" /\ DOMAIN w.value = {"b", "length"} /\ w.optional
  BY <1>0, ExpertiseIndices
<1> HIDE DEF w
<1>2. \A f \in Fields("GROUP_OF_PICTURES") \ {"b", "length"} : merged[f] = old[f]
  BY <1>1 DEF Merge
<1>3. CASE "GROUP_OF_PICTURES" \notin Readable[c] \cup Settable[c]
  <2>1. AfterWrite(c, w, sofar) = sofar
    BY <1>1, <1>3, SkipStep
  <2>2. QED
    BY <2>1 DEF GopRest, w
<1>4. CASE "GROUP_OF_PICTURES" \in Readable[c] \cup Settable[c]
  <2>1. "GROUP_OF_PICTURES" \in Readable[c]
    BY <1>4, IndicesOfCodec
  <2>2. Get(c, "GROUP_OF_PICTURES", n) = old
    BY DEF Get
  <2> HIDE DEF merged
  <2>3. now = Set(c, "GROUP_OF_PICTURES", merged, n)
    BY <1>1, <2>1, <2>2 DEF WriteWindow, Unconvertible, merged
  <2>4. now.media \in {n, UpdateGroupOfPictures(merged, n)}
    BY <2>3 DEF Set, Store, Answered
  <2> HIDE DEF now
  <2>5. UpdateGroupOfPictures(merged, n).GROUP_OF_PICTURES = merged
    BY DEF UpdateGroupOfPictures
  <2>7. GopRest(now.media, n)
    BY <1>2, <2>4, <2>5 DEF GopRest
  <2>8. AfterWrite(c, w, sofar) \in {sofar, now}
    BY DEF AfterWrite, now
  <2>9. QED
    BY <2>7, <2>8 DEF GopRest, w
<1>5. QED
  BY <1>3, <1>4

\* the entropy coding, which only AVC writes
LEMMA EntropyTouches ==
  ASSUME NEW c, NEW v, NEW sofar
  PROVE  Differ(AfterEntropy(c, v, sofar).media, sofar.media, {"ENTROPY_CODING"})
<1>1. Differ(sofar.media, sofar.media, {"ENTROPY_CODING"})
  BY DEF Differ
<1>2. Touched("ENTROPY_CODING") = {"ENTROPY_CODING"}
  BY DEF Touched
<1>3. EntropyWrite(v).index = "ENTROPY_CODING"
  BY ExpertiseIndices
<1>4. Differ(AfterWrite(c, EntropyWrite(v), sofar).media, sofar.media, {"ENTROPY_CODING"})
  BY <1>2, <1>3, StepTouches
<1>5. QED
  BY <1>1, <1>4 DEF AfterEntropy

\* what a refused expertise has changed
LEMMA ExpertiseRefused ==
  ASSUME NEW port, NEW c \in Codecs, NEW v, NEW m, Sound(c, m), Apply("Expertise", port, c, v, m).error # "None"
  PROVE  LET n == Apply("Expertise", port, c, v, m).media
         IN Differ(n, m, ExpertiseBefore) /\ (c \in Encoders => GopRest(n, m))
<1> DEFINE w1 == ProfileWrite(v)
           w2 == GopWrite(v)
           w4 == IntraWrite(v)
           a0 == Answered("None", m)
           a1 == AfterWrite(c, w1, a0)
           a2 == AfterWrite(c, w2, a1)
           a3 == AfterEntropy(c, v, a2)
           a4 == AfterWrite(c, w4, a3)
           a5 == AfterWrite(c, FilterWrite(v), a4)
<1>1. Apply("Expertise", port, c, v, m) = a5
  BY ExpertiseWrites
<1>2. a0.media = m /\ w1.index = "PROFILE_LEVEL" /\ w2.index = "GROUP_OF_PICTURES" /\ w4.index = "CONSTRAINED_INTRA_PREDICTION"
  BY ExpertiseIndices DEF Answered
<1>3. /\ Touched("PROFILE_LEVEL") = {"PROFILE_LEVEL"}
      /\ Touched("GROUP_OF_PICTURES") = {"GROUP_OF_PICTURES", "RECOVERY_POINT_SEI"}
      /\ Touched("CONSTRAINED_INTRA_PREDICTION") = {"CONSTRAINED_INTRA_PREDICTION"}
  BY DEF Touched
<1> HIDE DEF a0, w1, w4
<1>4. Differ(a1.media, m, Touched("PROFILE_LEVEL"))
  BY <1>2, StepTouches
<1> HIDE DEF a1
<1>5. Differ(a2.media, a1.media, Touched("GROUP_OF_PICTURES"))
  <2> HIDE DEF w2
  <2>1. QED
    BY <1>2, StepTouches
<1>6. c \in Encoders => /\ {"GROUP_OF_PICTURES"} \subseteq DOMAIN m
                        /\ DOMAIN m.GROUP_OF_PICTURES = Fields("GROUP_OF_PICTURES")
  BY IndicesOfCodec DEF Sound, Shaped
<1>7. c \in Encoders => GopRest(a2.media, m)
  <2> SUFFICES ASSUME c \in Encoders PROVE GopRest(a2.media, m)
    OBVIOUS
  <2>1. a1.media.GROUP_OF_PICTURES = m.GROUP_OF_PICTURES
    BY <1>3, <1>4, <1>6 DEF Differ
  <2>2. GopRest(a2.media, a1.media)
    BY <1>3, <1>4, <1>6, <2>1, GopStepKeeps DEF Differ
  <2> HIDE DEF a2
  <2>3. QED
    BY <2>1, <2>2 DEF GopRest
<1> HIDE DEF a2
<1>8. Differ(a3.media, a2.media, {"ENTROPY_CODING"})
  BY EntropyTouches
<1> HIDE DEF a3
<1>9. Differ(a4.media, a3.media, Touched("CONSTRAINED_INTRA_PREDICTION"))
  BY <1>2, StepTouches
<1> HIDE DEF a4
<1>10. a5.error # "None" => a5.media = a4.media
  BY StepTouches
<1> HIDE DEF a5
<1>11. Differ(a4.media, m, ExpertiseBefore)
  BY <1>3, <1>4, <1>5, <1>8, <1>9 DEF Differ, ExpertiseBefore
<1>12. c \in Encoders => GopRest(a4.media, m)
  <2> SUFFICES ASSUME c \in Encoders PROVE GopRest(a4.media, m)
    OBVIOUS
  <2>1. a4.media.GROUP_OF_PICTURES = a2.media.GROUP_OF_PICTURES
    BY <1>3, <1>4, <1>5, <1>6, <1>8, <1>9 DEF Differ
  <2>2. QED
    BY <1>7, <2>1 DEF GopRest
<1>13. QED
  BY <1>1, <1>10, <1>11, <1>12
-----------------------------------------------------------------------------
(* The expertise, from what was read.                                         *)
LEMMA ExpertiseOf ==
  ASSUME NEW c \in Codecs, HasExpertise(c)
  PROVE  /\ "PROFILE_LEVEL" \in Readable[c] \cap Settable[c] \cap Stored(c)
         /\ c \in Encoders => c \in {"enc_avc", "enc_hevc"}
         /\ c \in Encoders => {"GROUP_OF_PICTURES", "CONSTRAINED_INTRA_PREDICTION", "LOOP_FILTER"}
                                 \subseteq Readable[c] \cap Settable[c] \cap Stored(c)
         /\ c = "enc_avc" => "ENTROPY_CODING" \in Readable[c] \cap Settable[c] \cap Stored(c)
         /\ c # "enc_avc" => "ENTROPY_CODING" \notin Readable[c] \cup Settable[c] \cup Stored(c)
         /\ c \notin Encoders =>
              {"GROUP_OF_PICTURES", "ENTROPY_CODING", "CONSTRAINED_INTRA_PREDICTION", "LOOP_FILTER", "RECOVERY_POINT_SEI"}
                 \cap (Readable[c] \cup Settable[c] \cup Stored(c)) = {}
BY DEF HasExpertise, Codecs, Encoders, Decoders, Stored, Readable, Settable, EncSettingsAVC_Get, EncSettingsAVC_Set,
  EncSettingsHEVC_Get, EncSettingsHEVC_Set, EncSettingsMJPEG_Get, EncSettingsMJPEG_Set, DecSettingsAVC_Get,
  DecSettingsAVC_Set, DecSettingsHEVC_Get, DecSettingsHEVC_Set, DecSettingsJPEG_Get, DecSettingsJPEG_Set,
  ItuEncoderIndices, EncoderIndices, DecoderIndices, CommonIndices, SeiIndices, ColourIndices,
  FilterOffsetIndices, CropIndices, PictureSizeIndices

\* setting the profile back
LEMMA ProfileStep ==
  ASSUME NEW c \in Codecs, HasExpertise(c), NEW m, Sound(c, m), Restorable(c, m), NEW D, NEW sofar, sofar.error = "None",
         Differ(sofar.media, m, D), DOMAIN sofar.media.PROFILE_LEVEL = Fields("PROFILE_LEVEL"),
         NEW x, x.profile = m.PROFILE_LEVEL.profile, x.level = m.PROFILE_LEVEL.level
  PROVE  LET a == AfterWrite(c, ProfileWrite(x), sofar)
         IN a.error = "None" /\ Differ(a.media, m, D \ {"PROFILE_LEVEL"})
<1> DEFINE idx == "PROFILE_LEVEL"
           w == ProfileWrite(x)
<1>1. w.index = idx /\ w.value = Pick({"profile", "level"}, x)
  BY ExpertiseIndices
<1>2. idx \in Readable[c] /\ idx \in Settable[c] /\ idx \in Stored(c)
  BY ExpertiseOf
<1>3. HasFields(m.PROFILE_LEVEL, Fields(idx)) /\ Fields(idx) = {"profile", "level"}
  BY <1>2 DEF Restorable, Fields, CropIndices, PictureSizeIndices
<1>4. Pick({"profile", "level"}, x) = m.PROFILE_LEVEL
  BY <1>3 DEF HasFields, Pick
<1> HIDE DEF w
<1>5. Merge(w.value, sofar.media[idx]) = m[idx]
  BY <1>1, <1>3, <1>4, MergeAll
<1>6. ~Unconvertible(w)
  BY <1>1 DEF Unconvertible
<1>7. /\ AfterWrite(c, w, sofar).error = "None"
      /\ Differ(AfterWrite(c, w, sofar).media, m, (D \cup Touched(idx)) \ {idx})
  BY <1>1, <1>2, <1>5, <1>6, BackStep
<1>8. (D \cup Touched(idx)) \ {idx} = D \ {idx}
  BY DEF Touched
<1>9. QED
  BY <1>7, <1>8 DEF w

\* setting the group of pictures back
LEMMA GopStep ==
  ASSUME NEW c \in Codecs, HasExpertise(c), NEW m, Sound(c, m), Restorable(c, m), NEW D, NEW sofar, sofar.error = "None",
         Differ(sofar.media, m, D), "RECOVERY_POINT_SEI" \in D,
         c \in Encoders => GopRest(sofar.media, m) /\ DOMAIN sofar.media.GROUP_OF_PICTURES = Fields("GROUP_OF_PICTURES"),
         NEW x, c \in Encoders => /\ x.nB = ConvertMediaToOMXBFrames(m.GROUP_OF_PICTURES)
                                  /\ x.nP = ConvertMediaToOMXPFrames(m.GROUP_OF_PICTURES)
  PROVE  LET a == AfterWrite(c, GopWrite(x), sofar)
         IN a.error = "None" /\ Differ(a.media, m, D \ {"GROUP_OF_PICTURES"})
<1> DEFINE idx == "GROUP_OF_PICTURES"
           w == GopWrite(x)
           n == sofar.media
           gop == m.GROUP_OF_PICTURES
<1>1. w.index = idx /\ w.optional
  BY ExpertiseIndices
<1>2. w.value = [b |-> ConvertOMXToMediaBFrames(x.nB, x.nP), length |-> ConvertOMXToMediaGopLength(x.nB, x.nP)]
  BY ExpertiseIndices
<1> HIDE DEF w
<1>3. CASE c \notin Encoders
  <2>1. idx \notin Readable[c] \cup Settable[c] /\ idx \notin DOMAIN m
    BY <1>3, ExpertiseOf DEF Sound, Shaped
  <2>2. AfterWrite(c, w, sofar) = sofar
    BY <1>1, <2>1, SkipStep
  <2>3. Differ(n, m, D \ {idx})
    BY <2>1 DEF Differ
  <2>4. QED
    BY <2>2, <2>3 DEF w
<1>4. CASE c \in Encoders
  <2>1. idx \in Readable[c] /\ idx \in Settable[c] /\ idx \in Stored(c)
    BY <1>4, ExpertiseOf
  <2>2. HasFields(gop, Fields(idx)) /\ SteadyGop(gop) /\ Good(idx, gop)
    BY <2>1 DEF Restorable, Steady, Sound, Counted
  <2>3. gop.b \in Nat /\ gop.length \in Nat
    BY <2>2 DEF Good
  <2> HIDE DEF gop
  <2>4. x.nP = (gop.length - 1) \div (gop.b + 1) /\ x.nB = gop.length - x.nP - 1
    BY <1>4 DEF ConvertMediaToOMXBFrames, ConvertMediaToOMXPFrames, gop
  <2>5. x.nP \in Int /\ gop.b + 1 \in Nat \ {0}
    BY <2>3, <2>4
  <2>6. ConvertOMXToMediaGopLength(x.nB, x.nP) = gop.length
    BY <2>3, <2>4, <2>5 DEF ConvertOMXToMediaGopLength
  <2>7. ConvertOMXToMediaBFrames(x.nB, x.nP) = gop.b
    BY <1>4, <2>2 DEF SteadyGop, gop
  <2>8. DOMAIN w.value = {"b", "length"} /\ w.value["b"] = gop.b /\ w.value["length"] = gop.length
    BY <1>2, <2>6, <2>7
  <2>9. Merge(w.value, n[idx]) = m[idx]
    <3>1. DOMAIN n[idx] = Fields(idx) /\ \A f \in Fields(idx) \ {"b", "length"} : n[idx][f] = gop[f]
      BY <1>4 DEF GopRest, gop
    <3>2. \A f \in Fields(idx) : (IF f \in {"b", "length"} THEN w.value[f] ELSE n[idx][f]) = gop[f]
      BY <2>8, <3>1
    <3>3. Merge(w.value, n[idx]) = [f \in Fields(idx) |-> gop[f]]
      BY <2>8, <3>1, <3>2 DEF Merge
    <3>4. QED
      BY <2>2, <3>3 DEF HasFields, gop
  <2>10. ~Unconvertible(w)
    BY <1>1 DEF Unconvertible
  <2>11. /\ AfterWrite(c, w, sofar).error = "None"
         /\ Differ(AfterWrite(c, w, sofar).media, m, (D \cup Touched(idx)) \ {idx})
    BY <1>1, <2>1, <2>9, <2>10, BackStep
  <2>12. (D \cup Touched(idx)) \ {idx} = D \ {idx}
    BY DEF Touched
  <2>13. QED
    BY <2>11, <2>12 DEF w
<1>5. QED
  BY <1>3, <1>4

\* setting the entropy coding back
LEMMA EntropyStep ==
  ASSUME NEW c \in Codecs, HasExpertise(c), NEW m, Sound(c, m), Restorable(c, m), NEW D, NEW sofar, sofar.error = "None",
         Differ(sofar.media, m, D), c = "enc_avc" => DOMAIN sofar.media.ENTROPY_CODING = Fields("ENTROPY_CODING"),
         NEW x, c = "enc_avc" => x.entropy = m.ENTROPY_CODING.value
  PROVE  LET a == AfterEntropy(c, x, sofar)
         IN a.error = "None" /\ Differ(a.media, m, D \ {"ENTROPY_CODING"})
<1> DEFINE idx == "ENTROPY_CODING"
           w == EntropyWrite(x)
           n == sofar.media
<1>1. w.index = idx /\ w.value = [value |-> x.entropy] /\ w.optional
  BY ExpertiseIndices
<1> HIDE DEF w
<1>2. CASE c # "enc_avc"
  <2>1. idx \notin Readable[c] \cup Settable[c] /\ idx \notin DOMAIN m
    BY <1>2, ExpertiseOf DEF Sound, Shaped
  <2>2. AfterWrite(c, w, sofar) = sofar
    BY <1>1, <2>1, SkipStep
  <2>3. AfterEntropy(c, x, sofar) = sofar
    BY <2>2 DEF AfterEntropy, w
  <2>4. Differ(n, m, D \ {idx})
    BY <2>1 DEF Differ
  <2>5. QED
    BY <2>3, <2>4
<1>3. CASE c = "enc_avc"
  <2>1. idx \in Readable[c] /\ idx \in Settable[c] /\ idx \in Stored(c)
    BY <1>3, ExpertiseOf
  <2>2. HasFields(m[idx], Fields(idx)) /\ Fields(idx) = {"value"}
    BY <2>1 DEF Restorable, Fields, CropIndices, PictureSizeIndices
  <2>3. w.value = m[idx]
    BY <1>1, <1>3, <2>2 DEF HasFields
  <2>4. Merge(w.value, n[idx]) = m[idx]
    BY <1>3, <2>2, <2>3, MergeAll
  <2>5. ~Unconvertible(w)
    BY <1>1 DEF Unconvertible
  <2>6. /\ AfterWrite(c, w, sofar).error = "None"
        /\ Differ(AfterWrite(c, w, sofar).media, m, (D \cup Touched(idx)) \ {idx})
    BY <1>1, <2>1, <2>4, <2>5, BackStep
  <2>7. (D \cup Touched(idx)) \ {idx} = D \ {idx}
    BY DEF Touched
  <2>8. AfterEntropy(c, x, sofar) = AfterWrite(c, w, sofar)
    BY <1>3 DEF AfterEntropy, w
  <2>9. QED
    BY <2>6, <2>7, <2>8
<1>4. QED
  BY <1>2, <1>3

\* switched on and never off: what is lost
LEMMA IntraStep ==
  ASSUME NEW c \in Codecs, HasExpertise(c), NEW m, NEW D, "CONSTRAINED_INTRA_PREDICTION" \in D,
         NEW sofar, sofar.error = "None", Differ(sofar.media, m, D), NEW x
  PROVE  LET a == AfterWrite(c, IntraWrite(x), sofar)
         IN a.error = "None" /\ Differ(a.media, m, D)
<1> DEFINE idx == "CONSTRAINED_INTRA_PREDICTION"
           w == IntraWrite(x)
           now == WriteWindow(c, w, sofar.media)
<1>1. w.index = idx /\ w.optional
  BY ExpertiseIndices
<1> HIDE DEF w
<1>2. Differ(AfterWrite(c, w, sofar).media, sofar.media, Touched(idx))
  BY <1>1, StepTouches
<1>3. Touched(idx) \subseteq D
  BY DEF Touched
<1>4. Differ(AfterWrite(c, w, sofar).media, m, D)
  BY <1>2, <1>3 DEF Differ
<1>5. now.error \in {"None", "UnsupportedIndex"}
  <2>1. \A v, n : Set(c, idx, v, n).error \in {"None", "UnsupportedIndex"}
    BY DEF Set, Answered, Accepts, CropIndices, PictureSizeIndices, EnumIndices, ColourIndices
  <2>2. \E v : now = Set(c, idx, v, sofar.media)
    BY <1>1 DEF WriteWindow, Unconvertible
  <2> HIDE DEF now
  <2>3. QED
    BY <2>1, <2>2
<1>6. AfterWrite(c, w, sofar) = IF now.error = "UnsupportedIndex" THEN sofar ELSE now
  BY <1>1 DEF AfterWrite
<1> HIDE DEF now
<1>7. AfterWrite(c, w, sofar).error = "None"
  BY <1>5, <1>6
<1>8. QED
  BY <1>4, <1>7 DEF w

\* setting the loop filter back
LEMMA FilterStep ==
  ASSUME NEW c \in Codecs, HasExpertise(c), NEW m, Sound(c, m), Restorable(c, m), NEW D, "LOOP_FILTER" \notin D,
         NEW sofar, sofar.error = "None", Differ(sofar.media, m, D), NEW x, c \in Encoders => x.filter = m.LOOP_FILTER.value
  PROVE  LET a == AfterWrite(c, FilterWrite(x), sofar)
         IN a.error = "None" /\ Differ(a.media, m, D)
<1> DEFINE idx == "LOOP_FILTER"
           w == FilterWrite(x)
           n == sofar.media
           now == WriteWindow(c, w, n)
<1>1. w.index = idx /\ w.value = [value |-> x.filter] /\ w.optional
  BY ExpertiseIndices
<1> HIDE DEF w
<1>2. CASE c \notin Encoders
  <2>1. idx \notin Readable[c] \cup Settable[c]
    BY <1>2, ExpertiseOf
  <2>2. AfterWrite(c, w, sofar) = sofar
    BY <1>1, <2>1, SkipStep
  <2>3. QED
    BY <2>2 DEF w
<1>3. CASE c \in Encoders
  <2>1. idx \in Readable[c] /\ idx \in Settable[c] /\ idx \in Stored(c) /\ idx \in DOMAIN m
    BY <1>3, ExpertiseOf DEF Sound, Shaped
  <2>2. HasFields(m[idx], Fields(idx))
    BY <2>1 DEF Restorable
  <2>3. n[idx] = m[idx]
    BY <2>1 DEF Differ
  <2>4. w.value = Pick({"value"}, m[idx])
    BY <1>1, <1>3 DEF Pick
  <2>5. Merge(w.value, n[idx]) = m[idx]
    BY <2>2, <2>3, <2>4, MergePart
  <2>6. ~Unconvertible(w)
    BY <1>1 DEF Unconvertible
  <2>7. now = Answered("None", Store(c, idx, m[idx], n))
    BY <1>1, <2>1, <2>5, <2>6, BackWrite
  <2>8. Store(c, idx, m[idx], n) = UpdateLoopFilter(c, m[idx], n)
    BY DEF Store
  <2>9. Differ(UpdateLoopFilter(c, m[idx], n), m, D)
    BY DEF UpdateLoopFilter, Differ
  <2>10. now.error = "None" /\ Differ(now.media, m, D)
    BY <2>7, <2>8, <2>9 DEF Answered
  <2>11. AfterWrite(c, w, sofar) = IF w.optional /\ now.error = "UnsupportedIndex" THEN sofar ELSE now
    BY DEF AfterWrite
  <2> HIDE DEF now
  <2>12. QED
    BY <2>10, <2>11 DEF w
<1>4. QED
  BY <1>2, <1>3

\* the expertise, set back
LEMMA ExpertiseBack ==
  ASSUME NEW port, NEW c \in Codecs, HasExpertise(c), NEW m, Sound(c, m), Restorable(c, m),
         NEW n, Sound(c, n), Differ(n, m, ExpertiseBefore), c \in Encoders => GopRest(n, m)
  PROVE  LET back == Apply("Expertise", port, c, Construct("Expertise", port, c, m), n)
         IN back.error = "None" /\ Differ(back.media, m, Lost(c, "Expertise", m))
<1> DEFINE x == GetExpertise(c, m)
           w1 == ProfileWrite(x)
           w2 == GopWrite(x)
           w4 == IntraWrite(x)
           w5 == FilterWrite(x)
           a0 == Answered("None", n)
           a1 == AfterWrite(c, w1, a0)
           a2 == AfterWrite(c, w2, a1)
           a3 == AfterEntropy(c, x, a2)
           a4 == AfterWrite(c, w4, a3)
           a5 == AfterWrite(c, w5, a4)
           D1 == ExpertiseBefore \ {"PROFILE_LEVEL"}
           D2 == D1 \ {"GROUP_OF_PICTURES"}
           D3 == D2 \ {"ENTROPY_CODING"}
<1>1. /\ x.profile = m.PROFILE_LEVEL.profile /\ x.level = m.PROFILE_LEVEL.level
      /\ c = "enc_avc" => x.entropy = m.ENTROPY_CODING.value
      /\ c \in Encoders => x.filter = m.LOOP_FILTER.value
  BY DEF GetExpertise
<1>2. c \in Encoders => x.nB = ConvertMediaToOMXBFrames(m.GROUP_OF_PICTURES) /\ x.nP = ConvertMediaToOMXPFrames(m.GROUP_OF_PICTURES)
  BY DEF GetExpertise
<1>3. Apply("Expertise", port, c, Construct("Expertise", port, c, m), n) = a5
  BY ExpertiseWrites DEF Construct
<1>4. a0.error = "None" /\ a0.media = n
  BY DEF Answered
<1>5. w1.index = "PROFILE_LEVEL" /\ w2.index = "GROUP_OF_PICTURES"
  BY ExpertiseIndices
<1>6. /\ DOMAIN n.PROFILE_LEVEL = Fields("PROFILE_LEVEL") /\ DOMAIN n = DOMAIN m /\ DOMAIN m = Stored(c)
      /\ c \in Encoders => /\ DOMAIN n.GROUP_OF_PICTURES = Fields("GROUP_OF_PICTURES")
                           /\ "GROUP_OF_PICTURES" \in DOMAIN m
      /\ c = "enc_avc" => DOMAIN n.ENTROPY_CODING = Fields("ENTROPY_CODING") /\ "ENTROPY_CODING" \in DOMAIN m
  BY ExpertiseOf DEF Sound, Shaped
<1>7. /\ "RECOVERY_POINT_SEI" \in D1 /\ "CONSTRAINED_INTRA_PREDICTION" \in D3 /\ "LOOP_FILTER" \notin D3
      /\ D3 = Lost(c, "Expertise", m)
  <2>1. "Expertise" \notin WritesGop
    BY WindowsApart DEF WritesGop, Ports
  <2>2. QED
    BY <2>1 DEF ExpertiseBefore, Lost
<1> HIDE DEF x, a0, w4, w5
<1>8. a1.error = "None" /\ Differ(a1.media, m, D1)
  BY <1>1, <1>4, <1>6, ProfileStep
<1> HIDE DEF w1
<1>9. Differ(a1.media, n, Touched("PROFILE_LEVEL"))
  BY <1>4, <1>5, StepTouches
<1> HIDE DEF a1, D1
<1>10. c \in Encoders => /\ GopRest(a1.media, m)
                         /\ DOMAIN a1.media.GROUP_OF_PICTURES = Fields("GROUP_OF_PICTURES")
  <2> SUFFICES ASSUME c \in Encoders
               PROVE  GopRest(a1.media, m) /\ DOMAIN a1.media.GROUP_OF_PICTURES = Fields("GROUP_OF_PICTURES")
    OBVIOUS
  <2>1. a1.media.GROUP_OF_PICTURES = n.GROUP_OF_PICTURES
    BY <1>6, <1>9 DEF Differ, Touched
  <2>2. QED
    BY <1>6, <2>1 DEF GopRest
<1>11. a2.error = "None" /\ Differ(a2.media, m, D2)
  BY <1>2, <1>7, <1>8, <1>10, GopStep
<1> HIDE DEF w2
<1>12. Differ(a2.media, a1.media, Touched("GROUP_OF_PICTURES"))
  BY <1>5, StepTouches
<1> HIDE DEF a2, D2
<1>13. c = "enc_avc" => DOMAIN a2.media.ENTROPY_CODING = Fields("ENTROPY_CODING")
  <2> SUFFICES ASSUME c = "enc_avc" PROVE DOMAIN a2.media.ENTROPY_CODING = Fields("ENTROPY_CODING")
    OBVIOUS
  <2>1. a1.media.ENTROPY_CODING = n.ENTROPY_CODING /\ DOMAIN a1.media = DOMAIN m
    BY <1>6, <1>9 DEF Differ, Touched
  <2>2. a2.media.ENTROPY_CODING = a1.media.ENTROPY_CODING
    BY <1>6, <1>12, <2>1 DEF Differ, Touched
  <2>3. QED
    BY <1>6, <2>1, <2>2
<1>14. a3.error = "None" /\ Differ(a3.media, m, D3)
  BY <1>1, <1>11, <1>13, EntropyStep
<1> HIDE DEF a3, D3
<1>15. a4.error = "None" /\ Differ(a4.media, m, D3)
  BY <1>7, <1>14, IntraStep DEF w4
<1> HIDE DEF a4
<1>16. a5.error = "None" /\ Differ(a5.media, m, D3)
  BY <1>1, <1>7, <1>15, FilterStep DEF w5
<1> HIDE DEF a5
<1>17. QED
  BY <1>3, <1>7, <1>16
-----------------------------------------------------------------------------
(* A call that is refused.                                                    *)
LEMMA BackRestores ==
  ASSUME NEW p \in Parameters, NEW port \in Ports, NEW c \in Codecs, p \in NeedsExpertise => HasExpertise(c),
         NEW v, Measured(p, port, v), NEW m, Sound(c, m), Restorable(c, m), Fit(c, m),
         MustRead(p, port) \subseteq Readable[c], Apply(p, port, c, v, m).error # "None", p # "RateControlPlugin"
  PROVE  LET back == SetBack(p, port, c, m, Apply(p, port, c, v, m))
         IN back.error = "None" /\ Differ(back.media, m, Lost(c, p, m))
<1> DEFINE n == Apply(p, port, c, v, m).media
           back == SetBack(p, port, c, m, Apply(p, port, c, v, m))
<1>1. back = Apply(p, port, c, Construct(p, port, c, m), n)
  BY DEF SetBack
<1>2. Sound(c, n)
  BY ApplyKeeps
<1>3. CASE p \in OneWrite
  <2>1. n = m
    BY <1>3, OneWriteRefused
  <2>2. LET b == Apply(p, port, c, Construct(p, port, c, m), m)
        IN b.error = "None" /\ Differ(b.media, m, Lost(c, p, m))
    BY <1>3, OneWriteBack
  <2>3. QED
    BY <1>1, <2>1, <2>2
<1>4. CASE p = "PortFormat"
  <2>1. Differ(n, m, {"CLOCK"})
    BY <1>4, PortFormatRefused
  <2> HIDE DEF n
  <2>2. LET b == Apply("PortFormat", port, c, Construct("PortFormat", port, c, m), n)
        IN b.error = "None" /\ Differ(b.media, m, {})
    BY <1>2, <2>1, PortFormatBack
  <2>3. Differ(back.media, m, {})
    BY <1>1, <1>4, <2>2
  <2>4. Differ(back.media, m, Lost(c, p, m))
    <3> HIDE DEF back
    <3>1. QED
      BY <2>3 DEF Differ
  <2>5. QED
    BY <1>1, <1>4, <2>2, <2>4
<1>5. CASE p = "PortDefinition"
  <2>1. Differ(n, m, DefinitionBefore)
    BY <1>5, DefinitionRefused
  <2> HIDE DEF n
  <2>2. LET b == Apply("PortDefinition", port, c, Construct("PortDefinition", port, c, m), n)
        IN b.error = "None" /\ Differ(b.media, m, Lost(c, "PortDefinition", m))
    BY <1>2, <2>1, DefinitionBack
  <2>3. QED
    BY <1>1, <1>5, <2>2
<1>6. CASE p = "Expertise"
  <2>1. Differ(n, m, ExpertiseBefore) /\ (c \in Encoders => GopRest(n, m))
    BY <1>6, ExpertiseRefused
  <2>2. HasExpertise(c)
    BY <1>6 DEF NeedsExpertise
  <2> HIDE DEF n
  <2>3. LET b == Apply("Expertise", port, c, Construct("Expertise", port, c, m), n)
        IN b.error = "None" /\ Differ(b.media, m, Lost(c, "Expertise", m))
    BY <1>2, <2>1, <2>2, ExpertiseBack
  <2>4. QED
    BY <1>1, <1>6, <2>3
<1>7. QED
  BY <1>3, <1>4, <1>5, <1>6 DEF OneWrite, Parameters

\* the answer of a call is that of its own writes, and one refused takes back what it can
LEMMA CallRestores ==
  ASSUME NEW p \in Parameters, NEW port \in Ports, NEW c \in Codecs, p \in NeedsExpertise => HasExpertise(c),
         NEW v, Measured(p, port, v), NEW m, Sound(c, m), Restorable(c, m), Fit(c, m)
  PROVE  LET set == SetValue(p, port, c, v, m)
             first == Apply(p, port, c, v, m)
         IN /\ Refused(set) => Differ(set.media, m, Lost(c, p, m))
            /\ Refused(set) \/ set.error = first.error
<1> DEFINE set == SetValue(p, port, c, v, m)
           first == Apply(p, port, c, v, m)
           back == SetBack(p, port, c, m, first)
<1>1. Differ(m, m, Lost(c, p, m))
  BY DEF Differ
<1>2. CASE WrongPort(p, port) \/ ~(MustRead(p, port) \subseteq Readable[c])
  <2>1. set \in {Answered("BadParameter", m), Answered("UnsupportedIndex", m)}
    BY <1>2 DEF SetValue
  <2> HIDE DEF set, first
  <2>2. QED
    BY <1>1, <2>1 DEF Answered, Refused, set, first
<1>3. CASE ~WrongPort(p, port) /\ MustRead(p, port) \subseteq Readable[c]
  <2>1. set = Restored(p, port, c, m, first)
    BY <1>3 DEF SetValue, SetAndRestore
  <2>2. CASE ~Refused(first)
    <3>1. set = first
      BY <2>1, <2>2 DEF Restored
    <3>2. QED
      BY <2>2, <3>1
  <2>3. CASE Refused(first) /\ p = "RateControlPlugin"
    <3>1. set = first
      BY <2>1, <2>3 DEF Restored
    <3>2. p \in OneWrite
      BY <2>3 DEF OneWrite
    <3>3. first.error # "None"
      BY <2>3 DEF Refused
    <3>4. first.media = m
      BY <3>2, <3>3, OneWriteRefused
    <3>5. QED
      BY <1>1, <2>3, <3>1, <3>4
  <2>4. CASE Refused(first) /\ p # "RateControlPlugin"
    <3>1. first.error # "None"
      BY <2>4 DEF Refused
    <3>2. back.error = "None" /\ Differ(back.media, m, Lost(c, p, m))
      BY <1>3, <2>4, <3>1, BackRestores
    <3>3. set = RestoredOnce(p, port, c, first, back)
      BY <2>1, <2>4 DEF Restored
    <3> HIDE DEF first, back, set
    <3>4. ~Refused(back)
      BY <3>2 DEF Refused
    <3>5. set = Answered(first.error, back.media)
      BY <3>2, <3>3, <3>4 DEF RestoredOnce, Outer
    <3>6. set.error = first.error /\ set.media = back.media
      BY <3>5 DEF Answered
    <3>7. QED
      BY <3>2, <3>6 DEF set, first
  <2>5. QED
    BY <2>2, <2>3, <2>4
<1>4. QED
  BY <1>2, <1>3

\* the property speaks of settings whose rate control fits the clock
LEMMA CoherentFits == Coherent => Fit(codec, media)
BY DEF Coherent, Fit

\* what a step of the client may do
RefusedKeeps ==
  calls' # calls /\ last'.answer \in {"BadParameter", "UnsupportedIndex"} /\ Coherent
    => \A idx \in DOMAIN media \ LostByRollback(last'.param, media) : media'[idx] = media[idx]
KnownReturns ==
  calls' # calls /\ Known(last') /\ Coherent => last'.answer \notin {"recursing", "unsettled", "crash", "throws"}

\* the other calls are taken, or refused by the state
LEMMA OtherStepsAnswer ==
  ASSUME [Next]_vars, ~SetParameter, vars' # vars
  PROVE  last'.answer \in {"None", "IncorrectStateOperation"}
<1>1. CASE SetRole
  BY <1>1 DEF SetRole, Call
<1>2. CASE StartOrStop
  BY <1>2 DEF StartOrStop, Silent
<1>3. ASSUME NEW port \in Ports, GetPortDefinition(port) \/ SwitchPort(port) PROVE last'.answer \in {"None", "IncorrectStateOperation"}
  BY <1>3 DEF GetPortDefinition, SwitchPort, Silent
<1>4. QED
  BY <1>1, <1>2, <1>3 DEF Next

\* a parameter that is refused
LEMMA SetParameterKeepsRefused ==
  ASSUME KInv, SteadyRates, SetParameter
  PROVE  RefusedKeeps
<1> SUFFICES ASSUME Coherent, last'.answer \in {"BadParameter", "UnsupportedIndex"},
                    NEW idx \in DOMAIN media \ LostByRollback(last'.param, media)
             PROVE  media'[idx] = media[idx]
  BY DEF RefusedKeeps
<1>1. PICK call \in Clients[client].calls :
        LET set == SetValue(call.param, call.port, codec, call.value, media)
            refused == RefusedByState(call.port)
            few == TooFew(call.param, call.port, call.value)
        IN /\ last' = Call(call.param, call.port, call.value,
                           IF refused THEN "IncorrectStateOperation" ELSE IF few THEN "BadParameter" ELSE set.error)
           /\ media' = IF ~refused /\ ~few THEN set.media ELSE media
  BY DEF SetParameter
<1> DEFINE p == call.param
           set == SetValue(p, call.port, codec, call.value, media)
<1>2. /\ client \in DOMAIN Clients /\ codec \in Codecs /\ Sound(codec, media) /\ Restorable(codec, media)
      /\ WellFormed(call) /\ p \in Parameters /\ call.port \in Ports /\ Measured(p, call.port, call.value)
  BY CallFacts DEF KInv, SInv, WellFormed
<1>3. CASE RefusedByState(call.port) \/ TooFew(p, call.port, call.value)
  BY <1>1, <1>3
<1>4. CASE ~RefusedByState(call.port) /\ ~TooFew(p, call.port, call.value)
  <2>1. media' = set.media /\ last'.answer = set.error /\ last'.param = p
    BY <1>1, <1>4 DEF Call
  <2>2. p \in NeedsExpertise => HasExpertise(codec)
    BY <2>1 DEF SetValue, Answered
  <2>3. Refused(set)
    BY <2>1 DEF Refused
  <2>4. Differ(set.media, media, Lost(codec, p, media))
    BY <1>2, <2>2, <2>3, CoherentFits, CallRestores
  <2>5. LostByRollback(p, media) = Lost(codec, p, media)
    BY DEF LostByRollback, Lost
  <2>6. QED
    BY <2>1, <2>4, <2>5 DEF Differ
<1>5. QED
  BY <1>3, <1>4

(* When the clocks a client asks for are those their own frame rates give: a     *)
(* call that is refused leaves the settings as they were, but for what is never  *)
(* read back, while the rate control fits the clock (the rollbacks of Set... in  *)
(* omx_component_getset.cpp).                                                   *)
THEOREM FailedSetKeepsHolds ==
  ASSUME SteadyRates
  PROVE  Spec => FailedSetKeeps
<1>1. KInv /\ [Next]_vars => [RefusedKeeps]_vars
  <2> SUFFICES ASSUME KInv, [Next]_vars, vars' # vars PROVE RefusedKeeps
    OBVIOUS
  <2>1. CASE SetParameter
    BY <2>1, SetParameterKeepsRefused
  <2>2. CASE ~SetParameter
    <3>1. last'.answer \in {"None", "IncorrectStateOperation"}
      BY <2>2, OtherStepsAnswer
    <3>2. QED
      BY <3>1 DEF RefusedKeeps
  <2>3. QED
    BY <2>1, <2>2
<1>2. Spec => []KInv
  BY RestorableInductive
<1>3. Spec => [][RefusedKeeps]_vars
  BY <1>1, <1>2, PTL DEF Spec
<1>4. QED
  BY <1>3 DEF FailedSetKeeps, RefusedKeeps
-----------------------------------------------------------------------------
(* A call that returns.                                                       *)
Soft == {"None", "BadParameter", "UnsupportedIndex"}

\* Set takes, refuses or does not know the index
LEMMA SoftSet ==
  ASSUME NEW c, NEW idx, NEW v, NEW m, idx # "BITRATE" \/ FramesPerSecond(m.CLOCK) # 0 \/ "BITRATE" \notin Settable[c]
  PROVE  Set(c, idx, v, m).error \in Soft
BY DEF Set, Answered, Soft, DividesByZero

\* so does a write among others
LEMMA SoftStep ==
  ASSUME NEW c, NEW w, NEW sofar, sofar.error \in Soft, sofar.error = "None" => ~Unconvertible(w),
         \/ w.index # "BITRATE"
         \/ sofar.error = "None" => FramesPerSecond(sofar.media.CLOCK) # 0
         \/ "BITRATE" \notin Settable[c]
  PROVE  AfterWrite(c, w, sofar).error \in Soft
<1> DEFINE now == WriteWindow(c, w, sofar.media)
<1>1. CASE sofar.error # "None"
  BY <1>1 DEF AfterWrite
<1>2. CASE sofar.error = "None"
  <2>1. \E v : now = Set(c, w.index, v, sofar.media)
    BY <1>2 DEF WriteWindow
  <2> HIDE DEF now
  <2>2. now.error \in Soft
    BY <1>2, <2>1, SoftSet
  <2>3. AfterWrite(c, w, sofar) \in {sofar, now}
    BY DEF AfterWrite, now
  <2>4. QED
    BY <2>2, <2>3
<1>3. QED
  BY <1>1, <1>2

\* the conversions that may throw are those of formats and of buffer modes
LEMMA PlainConvertible ==
  ASSUME NEW w, w.index \notin {"FORMAT", "BUFFER_HANDLES"}
  PROVE  ~Unconvertible(w)
BY DEF Unconvertible

\* the remainder
LEMMA RemainderIs ==
  ASSUME NEW k \in Nat, NEW a \in Nat \ {0}
  PROVE  k % a = k - a * (k \div a)
BY Z3

\* a clock of at least one frame a second
LEMMA FramesOfClock ==
  ASSUME NEW rate \in Nat, rate >= Q16, NEW clock, clock = ConvertOMXToMediaClock(rate), clock.clockratio > 0
  PROVE  FramesPerSecond(clock) # 0
<1> DEFINE f == CeilDiv(rate, Q16)
           F == f * 1000
           a == F * Q16
           q == a \div rate
           r == RoundDiv(a, rate)
<1>1. Q16 \in Nat /\ Q16 > 0 /\ rate > 0
  BY Q16Assumption
<1>2. f \in Nat /\ f >= 1
  <2>1. f \in Int /\ Q16 * f <= rate + Q16 - 1 /\ rate + Q16 - 1 < Q16 * (f + 1)
    BY <1>1, Quotient DEF CeilDiv
  <2> HIDE DEF f
  <2>2. Q16 * 1 < Q16 * (f + 1)
    BY <1>1, <2>1
  <2>3. 1 < f + 1
    BY <1>1, <2>1, <2>2, LessFactor
  <2>4. QED
    BY <2>1, <2>3
<1>3. clock = [framerate |-> f, clockratio |-> r]
  BY <1>2 DEF ConvertOMXToMediaClock
<1> HIDE DEF f
<1>4. F \in Nat /\ F >= 1
  BY <1>2
<1> HIDE DEF F
<1>5. a \in Nat /\ a <= F * rate
  BY <1>1, <1>4, SMTT(30)
<1>6. q \in Int /\ rate * q <= a /\ a < rate * (q + 1)
  BY <1>1, <1>5, Quotient
<1>7. r = q + (IF 2 * (a % rate) >= rate THEN 1 ELSE 0)
  BY DEF RoundDiv
<1> HIDE DEF a
<1>8. a % rate = a - rate * q
  BY <1>1, <1>5, RemainderIs
<1> HIDE DEF q, r
<1>9. r \in Int /\ r <= F
  <2>1. F * rate = rate * F /\ rate * F \in Int /\ rate * q \in Int /\ rate * (F + 1) = rate * F + rate
    BY <1>1, <1>4, <1>6
  <2>2. rate * q < rate * (F + 1)
    BY <1>1, <1>4, <1>5, <1>6, <2>1
  <2>3. q < F + 1
    BY <1>1, <1>4, <1>6, <2>2, LessFactor
  <2>4. CASE q = F
    <3>1. a % rate <= 0
      BY <1>5, <1>6, <1>8, <2>1, <2>4
    <3>2. r = q
      BY <1>1, <1>5, <1>6, <1>7, <1>8, <2>1, <3>1
    <3>3. QED
      BY <1>4, <2>4, <3>2
  <2>5. CASE q # F
    <3>1. q + 1 <= F
      BY <1>4, <1>6, <2>3, <2>5
    <3>2. r = q \/ r = q + 1
      BY <1>6, <1>7
    <3>3. QED
      BY <1>4, <1>6, <3>1, <3>2
  <2>6. QED
    BY <2>4, <2>5
<1>10. r > 0
  BY <1>3
<1>11. FramesPerSecond(clock) = F \div r
  BY <1>3 DEF FramesPerSecond, F
<1>12. F \div r \in Int /\ F < r * ((F \div r) + 1)
  BY <1>4, <1>9, <1>10, Quotient
<1>13. F \div r # 0
  BY <1>4, <1>9, <1>10, <1>12
<1>14. QED
  BY <1>11, <1>13

\* the clock of a definition that an encoder has taken
LEMMA ClockTaken ==
  ASSUME NEW c \in Encoders, NEW sofar, DOMAIN sofar.media.CLOCK = Fields("CLOCK"), "CLOCK" \in DOMAIN sofar.media,
         NEW rate \in Nat, rate \notin 1 .. Q16 - 1,
         NEW a, a = AfterWrite(c, Write("CLOCK", ConvertOMXToMediaClock(rate)), sofar), a.error = "None"
  PROVE  FramesPerSecond(a.media.CLOCK) # 0
<1> DEFINE clock == ConvertOMXToMediaClock(rate)
           w == Write("CLOCK", clock)
           n == sofar.media
           now == WriteWindow(c, w, n)
<1>0. c \in Codecs
  BY DEF Codecs
<1>1. w.index = "CLOCK" /\ w.value = clock /\ ~w.optional
  BY WrittenFields
<1>2. Merge(clock, n.CLOCK) = clock
  <2>1. Fields("CLOCK") = {"framerate", "clockratio"}
    BY DEF Fields, CropIndices, PictureSizeIndices
  <2>2. HasFields(clock, Fields("CLOCK"))
    BY <2>1, ClockFields
  <2> HIDE DEF clock
  <2>3. QED
    BY <2>2, MergeAll
<1>3. Get(c, "CLOCK", n) = n.CLOCK
  BY DEF Get
<1>4. "CLOCK" \in Readable[c]
  BY <1>0, IndicesOfCodec
<1> HIDE DEF w, clock
<1>5. now = Set(c, "CLOCK", clock, n)
  BY <1>1, <1>2, <1>3, <1>4 DEF WriteWindow, Unconvertible
<1>6. a = now /\ now.error = "None"
  BY <1>1 DEF AfterWrite, w, clock
<1>7. Accepts(c, "CLOCK", clock, n) /\ now = Answered("None", Store(c, "CLOCK", clock, n))
  <2> HIDE DEF now
  <2>1. now \in {Answered("UnsupportedIndex", n), Answered("BadParameter", n), Answered("None", Store(c, "CLOCK", clock, n))}
    BY <1>5 DEF Set
  <2>2. QED
    BY <1>5, <1>6, <2>1 DEF Set, Answered
<1>8. clock.framerate # 0 /\ clock.clockratio > 0
  BY <1>7 DEF Accepts, CheckClock, EnumIndices, ColourIndices, PictureSizeIndices, CropIndices
<1>9. a.media.CLOCK = clock
  BY <1>6, <1>7 DEF Store, Answered
<1>10. rate # 0
  <2>1. Q16 \in Nat /\ Q16 > 0
    BY Q16Assumption
  <2>2. CeilDiv(0, Q16) = 0
    BY <2>1 DEF CeilDiv
  <2>3. QED
    BY <1>8, <2>2 DEF clock, ConvertOMXToMediaClock
<1>11. rate >= Q16
  BY <1>10, Q16Assumption
<1>12. QED
  BY <1>8, <1>9, <1>11, FramesOfClock DEF clock
-----------------------------------------------------------------------------
Divisible(c, m) == FramesPerSecond(m.CLOCK) # 0 \/ "BITRATE" \notin Settable[c]

\* where the rate control fits the clock nothing is divided by zero
LEMMA FitDivisible ==
  ASSUME NEW c \in Codecs, NEW m, Fit(c, m)
  PROVE  Divisible(c, m)
BY MoreIndices DEF Fit, Divisible, DividesByZero, CheckBitrate

\* a write whose value can be converted is taken or refused
LEMMA WriteSoft ==
  ASSUME NEW c, NEW w, NEW m, Divisible(c, m), ~Unconvertible(w)
  PROVE  WriteWindow(c, w, m).error \in Soft
<1> DEFINE now == WriteWindow(c, w, m)
<1>1. \E v : now = Set(c, w.index, v, m)
  BY DEF WriteWindow
<1> HIDE DEF now
<1>2. now.error \in Soft
  BY <1>1, SoftSet DEF Divisible
<1>3. QED
  BY <1>2 DEF now

\* values the conversions know
KnownValue(p, port, v) ==
  /\ p \in {"PortDefinition", "PortFormat"} => v.format # NoFormat /\ v.xFramerate \notin 1 .. Q16 - 1
  /\ p = "BufferMode" => HasFields(v, {port}) /\ v[port] # MaxEnum

\* a parameter of one write is taken or refused
LEMMA OneWriteSoft ==
  ASSUME NEW p \in OneWrite, NEW port \in Ports, NEW c \in Codecs, NEW v, KnownValue(p, port, v), NEW m, Fit(c, m)
  PROVE  Apply(p, port, c, v, m).error \in Soft
<1>1. \E idx, x : Writes(p, port, c, v) = <<Write(idx, x)>> /\ ~Unconvertible(Write(idx, x))
  <2>1. CASE p = "BufferMode"
    <3>1. Writes(p, port, c, v) = <<Write("BUFFER_HANDLES", v)>>
      BY <2>1 DEF Writes
    <3>2. v[port] # MaxEnum /\ DOMAIN v = {port}
      BY <2>1 DEF KnownValue, HasFields
    <3>3. ~Unconvertible(Write("BUFFER_HANDLES", v))
      BY <3>2, WrittenFields DEF Unconvertible
    <3>4. QED
      BY <3>1, <3>3
  <2>2. CASE p = "Quantization"
    <3>1. Writes(p, port, c, v) = <<Write("QUANTIZATION_PARAMETER", QuantizationToMedia(v))>>
      BY <2>2 DEF Writes
    <3>2. ~Unconvertible(Write("QUANTIZATION_PARAMETER", QuantizationToMedia(v)))
      BY WrittenFields DEF Unconvertible
    <3>3. QED
      BY <3>1, <3>2
  <2>3. CASE p \in {"MaxPictureSize", "MaxPictureSizeInBits"}
    <3>1. PICK idx \in {"MAX_PICTURE_SIZES", "MAX_PICTURE_SIZES_IN_BITS"} : \E x : Writes(p, port, c, v) = <<Write(idx, x)>>
      BY <2>3 DEF Writes, SetMaxPictureSizes
    <3>2. PICK x : Writes(p, port, c, v) = <<Write(idx, x)>>
      BY <3>1
    <3>3. ~Unconvertible(Write(idx, x))
      BY WrittenFields DEF Unconvertible
    <3>4. QED
      BY <3>2, <3>3
  <2>4. CASE p \in Windows
    <3> DEFINE idx == WindowOf(port)[p].index
    <3>1. Writes(p, port, c, v) = <<Write(idx, v)>>
      BY <2>4, WindowsApart DEF Writes
    <3>2. idx \notin {"FORMAT", "BUFFER_HANDLES"}
      BY <2>4, WindowIndices
    <3> HIDE DEF idx
    <3>3. ~Unconvertible(Write(idx, v))
      BY <3>2, WrittenFields DEF Unconvertible
    <3>4. QED
      BY <3>1, <3>3
  <2>5. QED
    BY <2>1, <2>2, <2>3, <2>4 DEF OneWrite, Parameters
<1>2. PICK idx, x : Writes(p, port, c, v) = <<Write(idx, x)>> /\ ~Unconvertible(Write(idx, x))
  BY <1>1
<1>3. Apply(p, port, c, v, m) = WriteWindow(c, Write(idx, x), m)
  BY <1>2, ApplyOne
<1>4. WriteWindow(c, Write(idx, x), m).error \in Soft
  BY <1>2, FitDivisible, WriteSoft
<1>5. QED
  BY <1>3, <1>4

\* a format the conversion knows
LEMMA FormatConvertible ==
  ASSUME NEW f, f # NoFormat
  PROVE  ~Unconvertible(Write("FORMAT", f))
BY WrittenFields DEF Unconvertible

\* so is the format of a port
LEMMA PortFormatSoft ==
  ASSUME NEW port, NEW c, NEW v, v.format # NoFormat, NEW m
  PROVE  Apply("PortFormat", port, c, v, m).error \in Soft
<1> DEFINE w == Write("CLOCK", ConvertOMXToMediaClock(v.xFramerate))
           u == Write("FORMAT", v.format)
           a == AfterWrite(c, w, Answered("None", m))
           b == AfterWrite(c, u, a)
<1>1. Writes("PortFormat", port, c, v) = <<w, u>>
  BY DEF Writes, SetVideoPortFormat
<1>2. w.index = "CLOCK" /\ u.index = "FORMAT" /\ ~Unconvertible(u)
  BY FormatConvertible, WrittenFields
<1> HIDE DEF w, u
<1>3. Apply("PortFormat", port, c, v, m) = b
  BY <1>1, TwoAnswers
<1>4. a.error \in Soft
  BY <1>2, PlainConvertible, SoftStep DEF Answered, Soft
<1> HIDE DEF a
<1>5. b.error \in Soft
  BY <1>2, <1>4, SoftStep
<1>6. QED
  BY <1>3, <1>5

\* so is the expertise
LEMMA ExpertiseSoft ==
  ASSUME NEW port, NEW c, NEW v, NEW m
  PROVE  Apply("Expertise", port, c, v, m).error \in Soft
<1> DEFINE pw == ProfileWrite(v)
           gw == GopWrite(v)
           ew == EntropyWrite(v)
           iw == IntraWrite(v)
           fw == FilterWrite(v)
           a == AfterWrite(c, pw, Answered("None", m))
           b == AfterWrite(c, gw, a)
           d == AfterEntropy(c, v, b)
           e == AfterWrite(c, iw, d)
           g == AfterWrite(c, fw, e)
<1>1. Apply("Expertise", port, c, v, m) = g
  BY ExpertiseWrites
<1>2. /\ pw.index = "PROFILE_LEVEL" /\ gw.index = "GROUP_OF_PICTURES" /\ ew.index = "ENTROPY_CODING"
      /\ iw.index = "CONSTRAINED_INTRA_PREDICTION" /\ fw.index = "LOOP_FILTER"
  BY ExpertiseIndices
<1>3. d = IF c \in {"enc_avc", "dec_avc"} THEN AfterWrite(c, ew, b) ELSE b
  BY DEF AfterEntropy
<1> HIDE DEF pw, gw, ew, iw, fw, d
<1>4. a.error \in Soft
  BY <1>2, PlainConvertible, SoftStep DEF Answered, Soft
<1> HIDE DEF a
<1>5. b.error \in Soft
  BY <1>2, <1>4, PlainConvertible, SoftStep
<1> HIDE DEF b
<1>6. AfterWrite(c, ew, b).error \in Soft
  BY <1>2, <1>5, PlainConvertible, SoftStep
<1>7. d.error \in Soft
  BY <1>3, <1>5, <1>6
<1>8. e.error \in Soft
  BY <1>2, <1>7, PlainConvertible, SoftStep
<1> HIDE DEF e
<1>9. g.error \in Soft
  BY <1>2, <1>8, PlainConvertible, SoftStep
<1>10. QED
  BY <1>1, <1>9

\* so is a definition, whose new clock is one the new target is divided by
LEMMA DefinitionSoft ==
  ASSUME NEW port, NEW c \in Codecs, NEW v, v.format # NoFormat, v.xFramerate \in Nat, v.xFramerate \notin 1 .. Q16 - 1,
         NEW m, Sound(c, m)
  PROVE  Apply("PortDefinition", port, c, v, m).error \in Soft
<1> DEFINE rate == v.xFramerate
           fw == Write("FORMAT", v.format)
           cw == Write("CLOCK", ConvertOMXToMediaClock(rate))
           rw == Write("RESOLUTION", Pick(Measures, v))
           bw == IfKnown("BITRATE", [target |-> v.bitrate])
           a == AfterWrite(c, fw, Answered("None", m))
           b == AfterWrite(c, cw, a)
           d == AfterWrite(c, rw, b)
           e == AfterWrite(c, bw, d)
<1>1. Apply("PortDefinition", port, c, v, m) = e
  BY DefinitionWrites
<1>2. fw.index = "FORMAT" /\ cw.index = "CLOCK" /\ rw.index = "RESOLUTION" /\ bw.index = "BITRATE" /\ ~Unconvertible(fw)
  BY FormatConvertible, WrittenFields
<1>3. "CLOCK" \in DOMAIN m /\ DOMAIN m.CLOCK = Fields("CLOCK")
  BY IndicesOfCodec DEF Sound, Shaped
<1>4. Differ(a.media, m, {"FORMAT", "RESOLUTION"})
  <2> HIDE DEF fw
  <2>1. Differ(a.media, Answered("None", m).media, Touched("FORMAT"))
    BY <1>2, StepTouches
  <2>2. QED
    BY <2>1 DEF Touched, Answered
<1> HIDE DEF fw
<1>5. a.error \in Soft
  BY <1>2, SoftStep DEF Answered, Soft
<1> HIDE DEF a
<1>6. "CLOCK" \in DOMAIN a.media /\ DOMAIN a.media.CLOCK = Fields("CLOCK")
  BY <1>3, <1>4 DEF Differ
<1>7. c \in Encoders /\ b.error = "None" => FramesPerSecond(b.media.CLOCK) # 0
  BY <1>6, ClockTaken
<1>8. "CLOCK" \in DOMAIN b.media
  <2> HIDE DEF cw
  <2>1. Differ(b.media, a.media, Touched("CLOCK"))
    BY <1>2, StepTouches
  <2>2. QED
    BY <1>6, <2>1 DEF Differ
<1> HIDE DEF cw
<1>9. b.error \in Soft
  BY <1>2, <1>5, PlainConvertible, SoftStep
<1> HIDE DEF b
<1>10. Differ(d.media, b.media, {"RESOLUTION"})
  <2> HIDE DEF rw
  <2>1. Differ(d.media, b.media, Touched("RESOLUTION"))
    BY <1>2, StepTouches
  <2>2. QED
    BY <2>1 DEF Touched
<1> HIDE DEF rw
<1>11. d.error \in Soft
  BY <1>2, <1>9, PlainConvertible, SoftStep
<1>12. d.error = "None" => b.error = "None"
  BY DEF AfterWrite
<1>13. d.media.CLOCK = b.media.CLOCK
  BY <1>8, <1>10 DEF Differ
<1> HIDE DEF d, bw
<1>14. (d.error = "None" => FramesPerSecond(d.media.CLOCK) # 0) \/ "BITRATE" \notin Settable[c]
  <2>1. CASE c \in Encoders
    BY <1>7, <1>12, <1>13, <2>1
  <2>2. CASE c \notin Encoders
    BY <2>2, MoreIndices
  <2>3. QED
    BY <2>1, <2>2
<1>15. e.error \in Soft
  BY <1>2, <1>11, <1>14, PlainConvertible, SoftStep
<1>16. QED
  BY <1>1, <1>15

\* so is every parameter
LEMMA CallSoft ==
  ASSUME NEW p \in Parameters, NEW port \in Ports, NEW c \in Codecs, NEW v, Measured(p, port, v), KnownValue(p, port, v),
         NEW m, Sound(c, m), Fit(c, m)
  PROVE  Apply(p, port, c, v, m).error \in Soft
<1>1. CASE p \in OneWrite
  BY <1>1, OneWriteSoft
<1>2. CASE p = "PortFormat"
  <2>1. v.format # NoFormat
    BY <1>2 DEF KnownValue
  <2>2. QED
    BY <1>2, <2>1, PortFormatSoft
<1>3. CASE p = "Expertise"
  BY <1>3, ExpertiseSoft
<1>4. CASE p = "PortDefinition"
  <2>1. v.format # NoFormat /\ v.xFramerate \in Nat /\ v.xFramerate \notin 1 .. Q16 - 1
    BY <1>4 DEF KnownValue, Measured
  <2>2. QED
    BY <1>4, <2>1, DefinitionSoft
<1>5. QED
  BY <1>1, <1>2, <1>3, <1>4 DEF OneWrite

\* a call of the client returns
LEMMA SetParameterReturns ==
  ASSUME KInv, SteadyRates, SetParameter
  PROVE  KnownReturns
<1> SUFFICES ASSUME Coherent, Known(last')
             PROVE  last'.answer \notin {"recursing", "unsettled", "crash", "throws"}
  BY DEF KnownReturns
<1>1. PICK call \in Clients[client].calls :
        LET set == SetValue(call.param, call.port, codec, call.value, media)
            refused == RefusedByState(call.port)
            few == TooFew(call.param, call.port, call.value)
        IN last' = Call(call.param, call.port, call.value,
                        IF refused THEN "IncorrectStateOperation" ELSE IF few THEN "BadParameter" ELSE set.error)
  BY DEF SetParameter
<1> DEFINE p == call.param
           port == call.port
           v == call.value
           set == SetValue(p, port, codec, v, media)
           first == Apply(p, port, codec, v, media)
<1>2. /\ client \in DOMAIN Clients /\ codec \in Codecs /\ Sound(codec, media) /\ Restorable(codec, media)
      /\ WellFormed(call) /\ p \in Parameters /\ port \in Ports /\ Measured(p, port, v)
  BY CallFacts DEF KInv, SInv, WellFormed
<1>3. last'.param = p /\ last'.port = port /\ last'.value = v
      /\ last'.answer \in {"IncorrectStateOperation", "BadParameter", set.error}
  BY <1>1 DEF Call
<1>4. (p \in NeedsExpertise => HasExpertise(codec)) /\ KnownValue(p, port, v)
  BY <1>2, <1>3 DEF Known, KnownValue, WellFormed
<1>5. Fit(codec, media)
  BY CoherentFits
<1>6. first.error \in Soft
  BY <1>2, <1>4, <1>5, CallSoft
<1>7. Refused(set) \/ set.error = first.error
  BY <1>2, <1>4, <1>5, CallRestores
<1> HIDE DEF set, first
<1>8. QED
  BY <1>3, <1>6, <1>7 DEF Refused, Soft

(* When the clocks a client asks for are those their own frame rates give, while *)
(* the rate control fits the clock: a call that names formats and modes the      *)
(* conversions know, and at least one frame a second, is answered; it neither    *)
(* calls itself for ever nor divides by zero nor lets an exception out (Set...   *)
(* and SetParameter of omx_component_getset.cpp, CheckBitrate).                  *)
THEOREM CoherentCallsReturnHolds ==
  ASSUME SteadyRates
  PROVE  Spec => CoherentCallsReturn
<1>1. KInv /\ [Next]_vars => [KnownReturns]_vars
  <2> SUFFICES ASSUME KInv, [Next]_vars, vars' # vars PROVE KnownReturns
    OBVIOUS
  <2>1. CASE SetParameter
    BY <2>1, SetParameterReturns
  <2>2. CASE ~SetParameter
    <3>1. last'.answer \in {"None", "IncorrectStateOperation"}
      BY <2>2, OtherStepsAnswer
    <3>2. QED
      BY <3>1 DEF KnownReturns
  <2>3. QED
    BY <2>1, <2>2
<1>2. Spec => []KInv
  BY RestorableInductive
<1>3. Spec => [][KnownReturns]_vars
  BY <1>1, <1>2, PTL DEF Spec
<1>4. QED
  BY <1>3 DEF CoherentCallsReturn, KnownReturns
=============================================================================
