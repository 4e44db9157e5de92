---------------------------- MODULE Conversions ----------------------------
(***************************************************************************)
(* What a client sets travels from its OpenMAX IL form to the media form   *)
(* of the settings and on to the form of the codec library, and back when  *)
(* it is read.  The three layers number their enumerations differently; a  *)
(* value is known here by its name, a conversion is the partial map of its *)
(* switch, and a value without a case becomes the target's MAX_ENUM.       *)
(* Where the layers call one thing by one name a set of names is the whole *)
(* table; where they differ, the table is a set of pairs.                  *)
(***************************************************************************)
EXTENDS Integers, Sequences

\* MAX_ENUM of every enumeration, a thrown std::invalid_argument, the contents of storage nobody wrote, a value
\* no switch has a case for, OMX_COLOR_FormatMax and OMX_COLOR_FormatUnused.
CONSTANTS MaxEnum, Throws, Unset, Unknown, FormatMax, FormatUnused

Named(names, x) == IF x \in names THEN x ELSE MaxEnum
Paired(pairs, x, otherwise) ==
  IF \E p \in pairs : p[1] = x THEN (CHOOSE p \in pairs : p[1] = x)[2] ELSE otherwise
Back(pairs) == {<<p[2], p[1]>> : p \in pairs}

-----------------------------------------------------------------------------
(***************************************************************************)
(* Enumerations with the same names on all three layers.                   *)
(***************************************************************************)
GopControls == {"DEFAULT", "DEFAULT_B", "PYRAMIDAL", "PYRAMIDAL_B", "ADAPTIVE", "LOW_DELAY_P", "LOW_DELAY_B"}
Gdrs == {"OFF", "VERTICAL", "HORIZONTAL"}
QpControls == {"NONE", "AUTO", "ADAPTIVE_AUTO"}
QpTables == {"NONE", "ABSOLUTE", "RELATIVE"}
ScalingLists == {"DEFAULT", "FLAT"}
Alignments == {"AUTO", "3_BYTES", "4_BYTES"}
PictureBuffers == {"NORMAL", "NO_REORDERING"}
Ratios == {"NONE", "1_1", "4_3", "16_9", "AUTO"}
Qualities == {"HIGH", "MEDIUM", "LOW", "DONT_CARE", "INTRA"}
BufferModes == {"FRAME", "FRAME_NO_REORDERING", "SLICE"}
Primaries == {"UNSPECIFIED", "RESERVED", "BT_470_NTSC", "BT_601_NTSC", "BT_601_PAL", "BT_709", "BT_2020",
  "SMPTE_240M", "SMPTE_ST_428", "SMPTE_RP_431", "SMPTE_EG_432", "EBU_3213", "GENERIC_FILM"}
Transfers == {"BT_709", "UNSPECIFIED", "BT_470_SYSTEM_M", "BT_470_SYSTEM_B", "BT_601", "SMPTE_240M", "LINEAR",
  "LOG", "LOG_EXTENDED", "IEC_61966_2_4", "BT_1361", "IEC_61966_2_1", "BT_2020_10B", "BT_2020_12B",
  "BT_2100_PQ", "SMPTE_428", "BT_2100_HLG"}
Matrices == {"GBR", "BT_709", "UNSPECIFIED", "USFCC_CFR", "BT_601_625", "BT_601_525", "BT_SMPTE_240M",
  "BT_YCGCO", "BT_2100_YCBCR", "BT_2020_CLS", "SMPTE_2085", "CHROMA_DERIVED_NCLS", "CHROMA_DERIVED_CLS",
  "BT_2100_ICTCP"}

ConvertOMXToMediaGopControl(x) == Named(GopControls, x)
ConvertMediaToOMXGopControl(x) == Named(GopControls, x)
ConvertModuleToSoftGopControl(x) == Named(GopControls, x)
ConvertSoftToModuleGopControl(x) == Named(GopControls, x)
ConvertOMXToMediaGdr(x) == Named(Gdrs, x)
ConvertMediaToOMXGdr(x) == Named(Gdrs, x)
ConvertModuleToSoftGdr(x) == Named(Gdrs, x)
ConvertSoftToModuleGdr(x) == Named(Gdrs, x)
ConvertOMXToMediaQpCtrlMode(x) == Named(QpControls, x)
ConvertMediaToOMXQpCtrlMode(x) == Named(QpControls, x)
ConvertModuleToSoftQPControl(x) == Named(QpControls, x)
ConvertSoftToModuleQPControl(x) == Named(QpControls, x)
ConvertOMXToMediaQpTable(x) == Named(QpTables, x)
ConvertMediaToOMXQpTable(x) == Named(QpTables, x)
ConvertModuleToSoftQPTable(x) == Named(QpTables, x)
ConvertSoftToModuleQPTable(x) == Named(QpTables, x)
ConvertOMXToMediaScalingList(x) == Named(ScalingLists, x)
ConvertMediaToOMXScalingList(x) == Named(ScalingLists, x)
ConvertModuleToSoftScalingList(x) == Named(ScalingLists, x)
ConvertSoftToModuleScalingList(x) == Named(ScalingLists, x)
ConvertOMXToMediaStartCodeBytesAlignment(x) == Named(Alignments, x)
ConvertMediaToOMXStartCodeBytesAlignment(x) == Named(Alignments, x)
ConvertModuleToSoftStartCodeBytesAlignment(x) == Named(Alignments, x)
ConvertSoftToModuleStartCodeBytesAlignment(x) == Named(Alignments, x)
ConvertOMXToMediaDecodedPictureBuffer(x) == Named(PictureBuffers, x)
ConvertMediaToOMXDecodedPictureBuffer(x) == Named(PictureBuffers, x)
ConvertModuleToSoftDecodedPictureBuffer(x) == Named(PictureBuffers, x)
ConvertSoftToModuleDecodedPictureBuffer(x) == Named(PictureBuffers, x)
ConvertOMXToMediaColorPrimaries(x) == Named(Primaries, x)
ConvertMediaToOMXColorPrimaries(x) == Named(Primaries, x)
ConvertModuleToSoftColorPrimaries(x) == Named(Primaries, x)
ConvertSoftToModuleColorPrimaries(x) == Named(Primaries, x)
ConvertOMXToMediaTransferCharacteristics(x) == Named(Transfers, x)
ConvertMediaToOMXTransferCharacteristics(x) == Named(Transfers, x)
ConvertModuleToSoftTransferCharacteristics(x) == Named(Transfers, x)
ConvertSoftToModuleTransferCharacteristics(x) == Named(Transfers, x)
ConvertOMXToMediaColourMatrix(x) == Named(Matrices, x)
ConvertMediaToOMXColourMatrix(x) == Named(Matrices, x)
ConvertModuleToSoftColourMatrix(x) == Named(Matrices, x)
ConvertSoftToModuleColourMatrix(x) == Named(Matrices, x)
ConvertOMXToMediaAspectRatio(x) == Named(Ratios, x)
ConvertMediaToOMXAspectRatio(x) == Named(Ratios, x)
ConvertModuleToSoftAspectRatio(x) == IF x \in Ratios THEN x ELSE "NONE"
ConvertSoftToModuleAspectRatio(x) == Named(Ratios, x)
ConvertOMXToMediaQualityPreset(x) == Named(Qualities, x)
ConvertModuleToSoftQualityByPreset(x) == Named(Qualities, x)
ConvertOMXToMediaBufferMode(x) == Named(BufferModes, x)
ConvertMediaToOMXBufferMode(x) == Named(BufferModes, x)

-----------------------------------------------------------------------------
(***************************************************************************)
(* Enumerations whose names, or members, differ between the layers.        *)
(***************************************************************************)
Rates == {<<"Disable", "CONSTANT_QUANTIZATION">>, <<"Constant", "CONSTANT_BITRATE">>,
  <<"Variable", "VARIABLE_BITRATE">>, <<"VariableCapped", "VARIABLE_CAPPED_BITRATE">>,
  <<"LowLatency", "LOW_LATENCY">>, <<"Plugin", "PLUGIN">>}
LibraryRates == {<<"CONSTANT_QUANTIZATION", "CONST_QP">>, <<"CONSTANT_BITRATE", "CBR">>,
  <<"VARIABLE_BITRATE", "VBR">>, <<"VARIABLE_CAPPED_BITRATE", "CAPPED_VBR">>,
  <<"LOW_LATENCY", "LOW_LATENCY">>, <<"PLUGIN", "PLUGIN">>}
ConvertOMXToMediaControlRate(x) == Paired(Rates, x, MaxEnum)
ConvertMediaToOMXControlRate(x) == Paired(Back(Rates), x, MaxEnum)
ConvertModuleToSoftRateControl(x) == Paired(LibraryRates, x, MaxEnum)
ConvertSoftToModuleRateControl(x) == Paired(Back(LibraryRates), x, MaxEnum)

\* The library knows no sequence of frames and fields.
Sequences4 == {"UNKNOWN", "FRAME", "FIELD", "FRAME_AND_FIELD"}
LibrarySequences == {<<"UNKNOWN", "UNKNOWN">>, <<"FRAME", "PROGRESSIVE">>, <<"FIELD", "INTERLACED">>}
ConvertOMXToMediaSequencePictureMode(x) == Named(Sequences4, x)
ConvertMediaToOMXSequencePictureMode(x) == Named(Sequences4, x)
ConvertModuleToSoftSequenceMode(x) == Paired(LibrarySequences, x, MaxEnum)
ConvertSoftToModuleSequenceMode(x) == Paired(Back(LibrarySequences), x, MaxEnum)

Interlaces == {<<"Progressive", "PROGRESSIVE">>, <<"TopFieldFirst", "ALTERNATE_TOP_BOTTOM_FIELD">>,
  <<"BottomFieldFirst", "ALTERNATE_BOTTOM_TOP_FIELD">>}
LibraryModes == {<<"PROGRESSIVE", "PROGRESSIVE">>, <<"ALTERNATE_TOP_BOTTOM_FIELD", "INTERLACED_TOP">>,
  <<"ALTERNATE_BOTTOM_TOP_FIELD", "INTERLACED_BOTTOM">>}
\* Another flag is an assertion of the code; a build without assertions goes on with MAX_ENUM.
ConvertOMXToMediaVideoMode(x) == Paired(Interlaces, x, MaxEnum)
ConvertMediaToOMXInterlaceFlag(x) == Paired(Back(Interlaces), x, 0)
ConvertModuleToSoftVideoMode(x) == Paired(LibraryModes, x, MaxEnum)
ConvertSoftToModuleVideoMode(x) == Paired(Back(LibraryModes), x, MaxEnum)

\* The loop filter has one media form and two forms of the client; the library keeps it as a set of tools.
AVCFilters == {<<"Disable", "DISABLE">>, <<"DisableSliceBoundary", "ENABLE">>, <<"Enable", "ENABLE_CROSS_SLICE">>}
HEVCFilters == {<<"Disable", "DISABLE">>, <<"Enable", "ENABLE_CROSS_TILE_AND_SLICE">>,
  <<"DisableCrossSlice", "ENABLE_CROSS_TILE">>, <<"DisableCrossTile", "ENABLE_CROSS_SLICE">>,
  <<"DisableCrossSliceAndTile", "ENABLE">>}
Tools == {<<"ENABLE", {"LF"}>>, <<"ENABLE_CROSS_SLICE", {"LF", "X_SLICE"}>>,
  <<"ENABLE_CROSS_TILE", {"LF", "X_TILE"}>>, <<"ENABLE_CROSS_TILE_AND_SLICE", {"LF", "X_SLICE", "X_TILE"}>>}
ConvertOMXToMediaAVCLoopFilter(x) == Paired(AVCFilters, x, MaxEnum)
ConvertMediaToOMXAVCLoopFilter(x) == Paired(Back(AVCFilters), x, MaxEnum)
ConvertOMXToMediaHEVCLoopFilter(x) == Paired(HEVCFilters, x, MaxEnum)
ConvertMediaToOMXHEVCLoopFilter(x) == Paired(Back(HEVCFilters), x, MaxEnum)
ConvertModuleToSoftLoopFilter(x) == Paired(Tools, x, {})
\* slip: the single filter is tested before the wider ones it is a part of
ConvertSoftToModuleLoopFilterNarrowFirst(tools) ==
  IF tools \cap {"LF", "X_SLICE", "X_TILE"} = {} THEN "DISABLE"
  ELSE IF "LF" \in tools THEN "ENABLE" ELSE MaxEnum
ConvertSoftToModuleLoopFilter(tools) ==
  LET asked == tools \cap {"LF", "X_SLICE", "X_TILE"} IN
  IF asked = {} THEN "DISABLE" ELSE Paired(Back(Tools), asked, MaxEnum)

ConvertOMXToMediaEntropyCoding(isCabac) == IF isCabac THEN "CABAC" ELSE "CAVLC"
ConvertMediaToOMXEntropyCoding(mode) == mode = "CABAC"
ConvertModuleToSoftEntropyCoding(mode) == Named({"CABAC", "CAVLC"}, mode)
ConvertSoftToModuleEntropyCoding(mode) == Named({"CABAC", "CAVLC"}, mode)

DecodeUnits == {<<"FRAME", "AU_UNIT">>, <<"SLICE", "VCL_NAL_UNIT">>}
ConvertModuleToSoftDecodeUnit(x) == Paired(DecodeUnits, x, MaxEnum)
ConvertSoftToModuleDecodeUnit(x) == Paired(Back(DecodeUnits), x, MaxEnum)

\* Two names are swapped on the way to the library and swapped back on the way from it.
JpegProfiles == {<<"JPEG", "JPEG">>, <<"EXT_HUFF", "JPEG_LOSSLESS">>, <<"LOSSLESS", "JPEG_EXT_HUFF">>}
ConvertModuleToSoftJPEGProfile(x) == Paired(JpegProfiles, x, "JPEG")
ConvertSoftToModuleJPEGProfile(x) == Paired(Back(JpegProfiles), x, MaxEnum)

\* These have no MAX_ENUM to fall back to: they throw, and the caller turns that into an error.
Compressions == {"Unused", "AVC", "MJPEG", "HEVC", "VP9", "Max"}
Handles == {<<"NORMAL", "CHAR_PTR">>, <<"DMA", "FD">>}
ConvertOMXToMediaCompression(x) == IF x \in Compressions THEN x ELSE Throws
ConvertMediaToOMXCompression(x) == IF x \in Compressions THEN x ELSE Throws
ConvertOMXToMediaBufferHandle(x) == Paired(Handles, x, Throws)
ConvertMediaToOMXBufferHandle(x) == Paired(Back(Handles), x, Throws)
ConvertOMXToMediaBool(x) == Paired({<<"FALSE", FALSE>>, <<"TRUE", TRUE>>}, x, Throws)
ConvertMediaToOMXBool(x) == IF x THEN "TRUE" ELSE "FALSE"

-----------------------------------------------------------------------------
(***************************************************************************)
(* Profiles and levels.  AVC has a list of profiles; HEVC has one per      *)
(* tier, its tier following from the level in the client's form, from the  *)
(* profile in the media form and from a flag beside it in the library.     *)
(***************************************************************************)
AVCProfiles == {"BASELINE", "MAIN", "EXTENDED", "HIGH", "HIGH_10", "HIGH_422", "HIGH_444_PREDICTIVE",
  "CONSTRAINED_BASELINE", "PROGRESSIVE_HIGH", "CONSTRAINED_HIGH", "HIGH_10_INTRA", "HIGH_422_INTRA",
  "HIGH_444_INTRA", "CAVLC_444_INTRA", "XAVC_HIGH10_INTRA_CBG", "XAVC_HIGH10_INTRA_VBR",
  "XAVC_HIGH_422_INTRA_CBG", "XAVC_HIGH_422_INTRA_VBR", "XAVC_LONG_GOP_MAIN_MP4",
  "XAVC_LONG_GOP_HIGH_MP4", "XAVC_LONG_GOP_HIGH_MXF", "XAVC_LONG_GOP_HIGH_422_MXF"}
AVCLevels == {9} \cup 10 .. 13 \cup 20 .. 22 \cup 30 .. 32 \cup 40 .. 42 \cup 50 .. 52 \cup 60 .. 62
ConvertOMXToMediaAVCProfile(x) == Named(AVCProfiles, x)
ConvertMediaToOMXAVCProfile(x) == Named(AVCProfiles, x)
ConvertModuleToSoftAVCProfile(x) == IF x \in AVCProfiles THEN x ELSE "AL_PROFILE_AVC"
ConvertSoftToModuleAVCProfile(x) == Named(AVCProfiles, x)
ConvertOMXToMediaAVCLevel(x) == IF x \in AVCLevels THEN x ELSE 0
ConvertMediaToOMXAVCLevel(x) == Named(AVCLevels, x)
ConvertOMXToMediaAVCProfileLevel(profile, level) ==
  [profile |-> ConvertOMXToMediaAVCProfile(profile), level |-> ConvertOMXToMediaAVCLevel(level)]

StillOf16 == "MAIN_444_16_STILL"
Throughput == "HIGH_THROUGHPUT_444_16_INTRA"
HEVCProfiles == {"MAIN", "MAIN_10", "MAIN_STILL", "MONOCHROME", "MONOCHROME_10", "MONOCHROME_12",
  "MONOCHROME_16", "MAIN_12", "MAIN_422", "MAIN_422_10", "MAIN_422_12", "MAIN_444", "MAIN_444_10",
  "MAIN_444_12", "MAIN_INTRA", "MAIN_10_INTRA", "MAIN_12_INTRA", "MAIN_422_INTRA", "MAIN_422_10_INTRA",
  "MAIN_422_12_INTRA", "MAIN_444_INTRA", "MAIN_444_10_INTRA", "MAIN_444_12_INTRA", "MAIN_444_16_INTRA",
  "MAIN_444_STILL", StillOf16, Throughput}
Tiers == {"main", "high"}
Levels(tier) == IF tier = "main" THEN {10, 20, 21, 30, 31, 40, 41, 50, 51, 52, 60, 61, 62}
                ELSE {40, 41, 50, 51, 52, 60, 61, 62}
NoProfile == [name |-> MaxEnum, tier |-> MaxEnum]
OfTier(x, tier) == IF x \in HEVCProfiles THEN [name |-> x, tier |-> tier] ELSE NoProfile

\* Whether an OpenMAX level, a pair of a tier and a number, is one of the main tier; an unknown one is not.
IsMainTierLevel(level) == level.tier = "main" /\ level.number \in Levels("main")
ConvertOMXToMediaHEVCMainTierProfile(x) == OfTier(x, "main")
ConvertOMXToMediaHEVCHighTierProfile(x) == OfTier(x, "high")
ConvertOMXToMediaHEVCLevel(level) ==
  IF level.tier \in Tiers /\ level.number \in Levels(level.tier) THEN level.number ELSE 0
ConvertOMXToMediaHEVCProfileLevel(profile, level) ==
  [profile |-> IF IsMainTierLevel(level) THEN ConvertOMXToMediaHEVCMainTierProfile(profile)
               ELSE ConvertOMXToMediaHEVCHighTierProfile(profile),
   level |-> ConvertOMXToMediaHEVCLevel(level)]
\* Both still profiles of 4:4:4 are given back as the one of eight bits.
ConvertMediaToOMXHEVCProfile(pl) == IF pl.profile.name = StillOf16 THEN "MAIN_444_STILL" ELSE pl.profile.name
IsMainTierProfile(pl) == pl.profile.tier = "main"
LevelOf(tier, number) ==
  IF number \in Levels(tier) THEN [tier |-> tier, number |-> number] ELSE [tier |-> MaxEnum, number |-> MaxEnum]
ConvertMediaToOMXHEVCMainLevel(pl) == LevelOf("main", pl.level)
ConvertMediaToOMXHEVCHighLevel(pl) == LevelOf("high", pl.level)
ConvertMediaToOMXHEVCLevel(pl) ==
  IF IsMainTierProfile(pl) THEN ConvertMediaToOMXHEVCMainLevel(pl) ELSE ConvertMediaToOMXHEVCHighLevel(pl)

LibraryHEVCProfiles == HEVCProfiles \ {Throughput}
IsHighTierProfile(profile) == profile.tier = "high" /\ profile.name # Throughput
ConvertModuleToSoftHEVCProfile(profile) ==
  IF profile.name \in LibraryHEVCProfiles THEN profile.name ELSE "AL_PROFILE_HEVC"
ConvertSoftToModuleHEVCMainTierProfile(x) == IF x \in LibraryHEVCProfiles THEN OfTier(x, "main") ELSE NoProfile
ConvertSoftToModuleHEVCHighTierProfile(x) == IF x \in LibraryHEVCProfiles THEN OfTier(x, "high") ELSE NoProfile

-----------------------------------------------------------------------------
(***************************************************************************)
(* Picture formats: a colour, a depth and a storage in the media form, one *)
(* enumeration for all three in the client's, with packed variants of the  *)
(* ten-bit raster formats that the media form does not tell apart.         *)
(***************************************************************************)
ColorsOf == {"400", "420", "422", "444"}
Depths == {8, 10, 12}
StoragesOf == {"RASTER", "TILE_32x4", "TILE_64x4"}
PlainFormats == [color : ColorsOf, bitdepth : Depths, storage : StoragesOf, packed : {FALSE}]
PackedFormats == [color : {"400", "420", "422"}, bitdepth : {10}, storage : {"RASTER"}, packed : {TRUE}]
ConvertOMXToMediaFormat(f) ==
  CASE f \in PlainFormats \cup PackedFormats -> [color |-> f.color, bitdepth |-> f.bitdepth, storage |-> f.storage]
    [] f = FormatMax -> [color |-> MaxEnum, bitdepth |-> 0, storage |-> MaxEnum]
    [] OTHER -> Throws
ConvertMediaToOMXFormat(m) ==
  IF m.storage \notin StoragesOf \/ m.bitdepth \notin Depths THEN Throws
  ELSE IF m.color = MaxEnum THEN FormatMax
  ELSE IF m.color \notin ColorsOf THEN Throws
  ELSE [color |-> m.color, bitdepth |-> m.bitdepth, storage |-> m.storage, packed |-> FALSE]
ConvertOMXToMediaBitdepth(f) ==
  CASE f \in PlainFormats \cup PackedFormats -> f.bitdepth
    [] f = FormatUnused -> 0
    [] OTHER -> Throws
ConvertModuleToSoftChroma(x) == Named(ColorsOf, x)
ConvertSoftToModuleColor(x) == Named(ColorsOf, x)
ConvertModuleToSoftStorage(x) == Named(StoragesOf, x)
ConvertSoftToModuleStorage(x) == Named(StoragesOf, x)
ConvertModuleToSoftSrcStorage(x) == Named(StoragesOf, x)
ConvertSoftToModuleSrcStorage(x) == Named(StoragesOf, x)

-----------------------------------------------------------------------------
(***************************************************************************)
(* Numbers and flags.  The client gives three quantisation parameters, the *)
(* media form keeps the first and two differences; the options of the rate *)
(* control are a record of flags here and a set of flags in the library.   *)
(***************************************************************************)
ConvertOMXToMediaQpInitial(qpI) == qpI
ConvertOMXToMediaQpDeltaIP(qpI, qpP) == qpP - qpI
ConvertOMXToMediaQpDeltaPB(qpP, qpB) == qpB - qpP
ConvertMediaToOMXQpI(qps) == qps.initial
ConvertMediaToOMXQpP(qps) == qps.deltaIP + qps.initial
ConvertMediaToOMXQpB(qps) == qps.deltaIP + qps.deltaPB + qps.initial

RateOptions == {"SCN_CHG_RES", "DELAYED", "STATIC_SCENE", "ENABLE_SKIP", "SC_PREVENTION"}
ConvertModuleToSoftRateControlOption(options) == {o \in RateOptions : options[o]}
ConvertSoftToModuleRateControlOption(set) == [o \in RateOptions |-> o \in set]

-----------------------------------------------------------------------------
(***************************************************************************)
(* The messages of high dynamic range.  A message is copied only when its  *)
(* flag is set, an array only as far as its count, and what is behind a    *)
(* flag or past a count is left as the target's storage was: Unset.        *)
(***************************************************************************)
Behind(flag, x) == IF flag THEN x ELSE Unset
First(list, n) == [i \in DOMAIN list |-> IF i <= n THEN list[i] ELSE Unset]

CopyPeakLuminance(p) ==
  [flag |-> p.flag, rows |-> Behind(p.flag, p.rows), cols |-> Behind(p.flag, p.cols),
   peak |-> IF p.flag THEN [i \in DOMAIN p.peak |-> IF i <= p.rows THEN First(p.peak[i], p.cols) ELSE Unset]
            ELSE Unset]
CopySt2094_10(m) ==
  [windowFlag |-> m.windowFlag, window |-> Behind(m.windowFlag, m.window),
   adjustments |-> m.adjustments, adjustment |-> First(m.adjustment, m.adjustments)]
CopyTransform(t) ==
  [percentiles |-> t.percentiles, percentile |-> First(t.percentile, t.percentiles),
   toneMapping |-> t.toneMapping, anchors |-> Behind(t.toneMapping, t.anchors),
   anchor |-> IF t.toneMapping THEN First(t.anchor, t.anchors) ELSE Unset,
   saturationFlag |-> t.saturationFlag, saturation |-> Behind(t.saturationFlag, t.saturation)]
\* The picture is the first window, so there is one processing window less than there are transforms.
CopySt2094_40(m) ==
  [windows |-> m.windows, window |-> First(m.window, m.windows - 1),
   targetPeak |-> CopyPeakLuminance(m.targetPeak), masteringPeak |-> CopyPeakLuminance(m.masteringPeak),
   transform |-> [i \in DOMAIN m.transform |-> IF i <= m.windows THEN CopyTransform(m.transform[i]) ELSE Unset]]

CopySeis(h, Transfer(_)) ==
  [flags |-> h.flags,
   mdcv |-> Behind("mdcv" \in h.flags, h.mdcv), cll |-> Behind("cll" \in h.flags, h.cll),
   atc |-> IF "atc" \in h.flags THEN Transfer(h.atc) ELSE Unset,
   st2094_10 |-> IF "st2094_10" \in h.flags THEN CopySt2094_10(h.st2094_10) ELSE Unset,
   st2094_40 |-> IF "st2094_40" \in h.flags THEN CopySt2094_40(h.st2094_40) ELSE Unset]
ConvertOMXToMediaHDRSEI(h) == CopySeis(h, ConvertOMXToMediaTransferCharacteristics)
ConvertMediaToOMXHDRSEI(h) == CopySeis(h, ConvertMediaToOMXTransferCharacteristics)
ConvertModuleToSoftHDRSEIs(h) == CopySeis(h, ConvertModuleToSoftTransferCharacteristics)
ConvertSoftToModuleHDRSEIs(h) == CopySeis(h, ConvertSoftToModuleTransferCharacteristics)

-----------------------------------------------------------------------------
(***************************************************************************)
(* One value set by the client and kept by the settings.  asked is what    *)
(* the last accepted call gave, held its form in the library; a call whose *)
(* media form is MAX_ENUM, or that throws, is refused and changes nothing. *)
(***************************************************************************)
VARIABLES kind, asked, held
vars == <<kind, asked, held>>

Peaks == {[flag |-> FALSE, rows |-> Unset, cols |-> Unset, peak |-> Unset],
          [flag |-> TRUE, rows |-> 1, cols |-> 2, peak |-> <<<<7, 8>>, Unset>>]}
Transforms == {[percentiles |-> n, percentile |-> First(<<4, 5>>, n), toneMapping |-> tm,
                anchors |-> Behind(tm, 1), anchor |-> IF tm THEN <<6, Unset>> ELSE Unset,
                saturationFlag |-> ~tm, saturation |-> Behind(~tm, 3)] : n \in 0 .. 2, tm \in BOOLEAN}
Messages40 == {[windows |-> n, window |-> First(<<1, 2>>, n - 1), targetPeak |-> p, masteringPeak |-> q,
                transform |-> First(<<t, u, t>>, n)] :
               n \in 1 .. 3, p \in Peaks, q \in Peaks, t \in Transforms, u \in {v \in Transforms : v.percentiles = 1}}
Messages10 == {[windowFlag |-> w, window |-> Behind(w, 1), adjustments |-> n, adjustment |-> First(<<8, 9>>, n)] :
               w \in BOOLEAN, n \in 0 .. 2}
Messages == {[flags |-> f, mdcv |-> Behind("mdcv" \in f, 1), cll |-> Behind("cll" \in f, 2),
              atc |-> Behind("atc" \in f, "BT_2100_HLG"), st2094_10 |-> Behind("st2094_10" \in f, ten),
              st2094_40 |-> Unset] :
             f \in SUBSET {"mdcv", "cll", "atc", "st2094_10"}, ten \in Messages10}
            \cup {[flags |-> {"st2094_40"}, mdcv |-> Unset, cll |-> Unset, atc |-> Unset,
                   st2094_10 |-> Unset, st2094_40 |-> forty] : forty \in Messages40}

\* The values a client may give for each kind; those of one enumeration, Unknown among them, first.
Enumerated == [
  gop |-> GopControls,
  gdr |-> Gdrs,
  qp_control |-> QpControls,
  qp_table |-> QpTables,
  scaling_list |-> ScalingLists,
  alignment |-> Alignments,
  picture_buffer |-> PictureBuffers,
  primaries |-> Primaries,
  transfer |-> Transfers,
  matrix |-> Matrices,
  aspect_ratio |-> Ratios,
  control_rate |-> {r[1] : r \in Rates},
  sequence |-> Sequences4,
  avc_filter |-> {f[1] : f \in AVCFilters}, hevc_filter |-> {f[1] : f \in HEVCFilters},
  interlace |-> {i[1] : i \in Interlaces}, quality |-> Qualities, buffer_mode |-> BufferModes,
  compression |-> Compressions, handle |-> {h[1] : h \in Handles}, bool |-> {"FALSE", "TRUE"},
  decode_unit |-> {u[1] : u \in DecodeUnits}, jpeg |-> {p[1] : p \in JpegProfiles}]
ClientValues(k) ==
  CASE k \in DOMAIN Enumerated -> Enumerated[k] \cup {Unknown}
    [] k = "entropy" -> BOOLEAN
    [] k = "avc" -> [profile : AVCProfiles, level : AVCLevels]
    [] k = "hevc" -> UNION {[profile : HEVCProfiles, level : [tier : {t}, number : Levels(t)]] : t \in Tiers}
    [] k = "format" -> PlainFormats \cup PackedFormats \cup {Unknown}
    [] k = "qps" -> [i : {26, 30}, p : {25, 30}, b : {28, 30, 35}]
    [] k = "options" -> [RateOptions -> BOOLEAN]
    [] k = "hdr" -> Messages
Kinds == DOMAIN Enumerated \cup {"entropy", "avc", "hevc", "format", "qps", "options", "hdr"}

Media(k, x) ==
  CASE k = "gop" -> ConvertOMXToMediaGopControl(x)
    [] k = "gdr" -> ConvertOMXToMediaGdr(x)
    [] k = "qp_control" -> ConvertOMXToMediaQpCtrlMode(x)
    [] k = "qp_table" -> ConvertOMXToMediaQpTable(x)
    [] k = "scaling_list" -> ConvertOMXToMediaScalingList(x)
    [] k = "alignment" -> ConvertOMXToMediaStartCodeBytesAlignment(x)
    [] k = "picture_buffer" -> ConvertOMXToMediaDecodedPictureBuffer(x)
    [] k = "primaries" -> ConvertOMXToMediaColorPrimaries(x)
    [] k = "transfer" -> ConvertOMXToMediaTransferCharacteristics(x)
    [] k = "matrix" -> ConvertOMXToMediaColourMatrix(x)
    [] k = "aspect_ratio" -> ConvertOMXToMediaAspectRatio(x)
    [] k = "control_rate" -> ConvertOMXToMediaControlRate(x)
    [] k = "sequence" -> ConvertOMXToMediaSequencePictureMode(x)
    [] k = "avc_filter" -> ConvertOMXToMediaAVCLoopFilter(x)
    [] k = "hevc_filter" -> ConvertOMXToMediaHEVCLoopFilter(x)
    [] k = "interlace" -> ConvertOMXToMediaVideoMode(x)
    [] k = "quality" -> ConvertOMXToMediaQualityPreset(x)
    [] k = "buffer_mode" -> ConvertOMXToMediaBufferMode(x)
    [] k = "compression" -> ConvertOMXToMediaCompression(x)
    [] k = "handle" -> ConvertOMXToMediaBufferHandle(x)
    [] k = "bool" -> ConvertOMXToMediaBool(x)
    [] k \in {"decode_unit", "jpeg"} -> Named(Enumerated[k], x)
    [] k = "entropy" -> ConvertOMXToMediaEntropyCoding(x)
    [] k = "avc" -> ConvertOMXToMediaAVCProfileLevel(x.profile, x.level)
    [] k = "hevc" -> ConvertOMXToMediaHEVCProfileLevel(x.profile, x.level)
    [] k = "format" -> ConvertOMXToMediaFormat(x)
    [] k = "qps" -> [initial |-> ConvertOMXToMediaQpInitial(x.i), deltaIP |-> ConvertOMXToMediaQpDeltaIP(x.i, x.p),
                      deltaPB |-> ConvertOMXToMediaQpDeltaPB(x.p, x.b)]
    [] k = "options" -> x
    [] k = "hdr" -> ConvertOMXToMediaHDRSEI(x)
Library(k, x) ==
  CASE k = "gop" -> ConvertModuleToSoftGopControl(x)
    [] k = "gdr" -> ConvertModuleToSoftGdr(x)
    [] k = "qp_control" -> ConvertModuleToSoftQPControl(x)
    [] k = "qp_table" -> ConvertModuleToSoftQPTable(x)
    [] k = "scaling_list" -> ConvertModuleToSoftScalingList(x)
    [] k = "alignment" -> ConvertModuleToSoftStartCodeBytesAlignment(x)
    [] k = "picture_buffer" -> ConvertModuleToSoftDecodedPictureBuffer(x)
    [] k = "primaries" -> ConvertModuleToSoftColorPrimaries(x)
    [] k = "transfer" -> ConvertModuleToSoftTransferCharacteristics(x)
    [] k = "matrix" -> ConvertModuleToSoftColourMatrix(x)
    [] k = "aspect_ratio" -> ConvertModuleToSoftAspectRatio(x)
    [] k = "control_rate" -> ConvertModuleToSoftRateControl(x)
    [] k = "sequence" -> ConvertModuleToSoftSequenceMode(x)
    [] k \in {"avc_filter", "hevc_filter"} -> ConvertModuleToSoftLoopFilter(x)
    [] k = "interlace" -> ConvertModuleToSoftVideoMode(x)
    [] k = "quality" -> ConvertModuleToSoftQualityByPreset(x)
    [] k = "entropy" -> ConvertModuleToSoftEntropyCoding(x)
    [] k = "decode_unit" -> ConvertModuleToSoftDecodeUnit(x)
    [] k = "jpeg" -> ConvertModuleToSoftJPEGProfile(x)
    [] k = "avc" -> [profile |-> ConvertModuleToSoftAVCProfile(x.profile), level |-> x.level]
    [] k = "hevc" -> [profile |-> ConvertModuleToSoftHEVCProfile(x.profile), level |-> x.level, high |-> IsHighTierProfile(x.profile)]
    [] k = "format" -> [chroma |-> ConvertModuleToSoftChroma(x.color), bitdepth |-> x.bitdepth,
                         source |-> ConvertModuleToSoftSrcStorage(x.storage), frame |-> ConvertModuleToSoftStorage(x.storage)]
    [] k = "options" -> ConvertModuleToSoftRateControlOption(x)
    [] k = "hdr" -> ConvertModuleToSoftHDRSEIs(x)
    [] k \in {"buffer_mode", "compression", "handle", "bool", "qps"} -> x
MediaOf(k, x) ==
  CASE k = "gop" -> ConvertSoftToModuleGopControl(x)
    [] k = "gdr" -> ConvertSoftToModuleGdr(x)
    [] k = "qp_control" -> ConvertSoftToModuleQPControl(x)
    [] k = "qp_table" -> ConvertSoftToModuleQPTable(x)
    [] k = "scaling_list" -> ConvertSoftToModuleScalingList(x)
    [] k = "alignment" -> ConvertSoftToModuleStartCodeBytesAlignment(x)
    [] k = "picture_buffer" -> ConvertSoftToModuleDecodedPictureBuffer(x)
    [] k = "primaries" -> ConvertSoftToModuleColorPrimaries(x)
    [] k = "transfer" -> ConvertSoftToModuleTransferCharacteristics(x)
    [] k = "matrix" -> ConvertSoftToModuleColourMatrix(x)
    [] k = "aspect_ratio" -> ConvertSoftToModuleAspectRatio(x)
    [] k = "control_rate" -> ConvertSoftToModuleRateControl(x)
    [] k = "sequence" -> ConvertSoftToModuleSequenceMode(x)
    [] k \in {"avc_filter", "hevc_filter"} -> ConvertSoftToModuleLoopFilter(x)
    [] k = "interlace" -> ConvertSoftToModuleVideoMode(x)
    [] k = "entropy" -> ConvertSoftToModuleEntropyCoding(x)
    [] k = "decode_unit" -> ConvertSoftToModuleDecodeUnit(x)
    [] k = "jpeg" -> ConvertSoftToModuleJPEGProfile(x)
    [] k = "avc" -> [profile |-> ConvertSoftToModuleAVCProfile(x.profile), level |-> x.level]
    [] k = "hevc" -> [profile |-> IF x.high THEN ConvertSoftToModuleHEVCHighTierProfile(x.profile)
                                  ELSE ConvertSoftToModuleHEVCMainTierProfile(x.profile), level |-> x.level]
    [] k = "format" -> [color |-> ConvertSoftToModuleColor(x.chroma), bitdepth |-> x.bitdepth, storage |-> ConvertSoftToModuleSrcStorage(x.source)]
    [] k = "options" -> ConvertSoftToModuleRateControlOption(x)
    [] k = "hdr" -> ConvertSoftToModuleHDRSEIs(x)
    [] k \in {"quality", "buffer_mode", "compression", "handle", "bool", "qps"} -> x
Client(k, x) ==
  CASE k = "gop" -> ConvertMediaToOMXGopControl(x)
    [] k = "gdr" -> ConvertMediaToOMXGdr(x)
    [] k = "qp_control" -> ConvertMediaToOMXQpCtrlMode(x)
    [] k = "qp_table" -> ConvertMediaToOMXQpTable(x)
    [] k = "scaling_list" -> ConvertMediaToOMXScalingList(x)
    [] k = "alignment" -> ConvertMediaToOMXStartCodeBytesAlignment(x)
    [] k = "picture_buffer" -> ConvertMediaToOMXDecodedPictureBuffer(x)
    [] k = "primaries" -> ConvertMediaToOMXColorPrimaries(x)
    [] k = "transfer" -> ConvertMediaToOMXTransferCharacteristics(x)
    [] k = "matrix" -> ConvertMediaToOMXColourMatrix(x)
    [] k = "aspect_ratio" -> ConvertMediaToOMXAspectRatio(x)
    [] k = "control_rate" -> ConvertMediaToOMXControlRate(x)
    [] k = "sequence" -> ConvertMediaToOMXSequencePictureMode(x)
    [] k = "avc_filter" -> ConvertMediaToOMXAVCLoopFilter(x)
    [] k = "hevc_filter" -> ConvertMediaToOMXHEVCLoopFilter(x)
    [] k = "interlace" -> ConvertMediaToOMXInterlaceFlag(x)
    [] k = "buffer_mode" -> ConvertMediaToOMXBufferMode(x)
    [] k = "compression" -> ConvertMediaToOMXCompression(x)
    [] k = "handle" -> ConvertMediaToOMXBufferHandle(x)
    [] k = "bool" -> ConvertMediaToOMXBool(x)
    [] k = "entropy" -> ConvertMediaToOMXEntropyCoding(x)
    [] k = "avc" -> [profile |-> ConvertMediaToOMXAVCProfile(x.profile), level |-> ConvertMediaToOMXAVCLevel(x.level)]
    [] k = "hevc" -> [profile |-> ConvertMediaToOMXHEVCProfile(x), level |-> ConvertMediaToOMXHEVCLevel(x)]
    [] k = "format" -> ConvertMediaToOMXFormat(x)
    [] k = "qps" -> [i |-> ConvertMediaToOMXQpI(x), p |-> ConvertMediaToOMXQpP(x), b |-> ConvertMediaToOMXQpB(x)]
    [] k = "hdr" -> ConvertMediaToOMXHDRSEI(x)
    [] k \in {"quality", "decode_unit", "jpeg", "options"} -> x

Init == \E k \in Kinds : kind = k /\ asked = Unset /\ held = Unset

\* The settings refuse MAX_ENUM, and a sequence the library has no word for.
Accepted(k, x) == Media(k, x) \notin {MaxEnum, Throws} /\ ~(k = "sequence" /\ x = "FRAME_AND_FIELD")
Set(x) ==
  IF Accepted(kind, x) THEN asked' = x /\ held' = Library(kind, Media(kind, x)) /\ UNCHANGED kind
  ELSE UNCHANGED vars
Next == \E x \in ClientValues(kind) : Set(x)
Spec == Init /\ [][Next]_vars

(***************************************************************************)
(* What is given up on the way: packed formats come back unpacked, the     *)
(* still profile of sixteen bits as the one of eight, and the high         *)
(* throughput profile, which the library's table leaves out, as none.      *)
(***************************************************************************)
ReadAs(k, x) ==
  CASE k = "format" -> [x EXCEPT !.packed = FALSE]
    [] k = "hevc" /\ x.profile = StillOf16 -> [x EXCEPT !.profile = "MAIN_444_STILL"]
    [] k = "hevc" /\ x.profile = Throughput ->
         [profile |-> MaxEnum, level |-> LevelOf("high", x.level.number)]
    [] OTHER -> x

\* A value the settings accepted is read back as it was set, through both layers and their two directions.
ReadsBack ==
  asked # Unset =>
    /\ Client(kind, MediaOf(kind, held)) = ReadAs(kind, asked)
    /\ kind = "format" => ConvertOMXToMediaBitdepth(asked) = held.bitdepth
                           /\ ConvertSoftToModuleStorage(held.frame) = asked.storage

=============================================================================
