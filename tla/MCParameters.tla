---------------------------- MODULE MCParameters ----------------------------
(* Instances of Parameters: one client per codec that makes any two calls,   *)
(* and encoder clients that make more of the calls whose indices are coupled. *)
EXTENDS Parameters

To(port, p, values) == [param : {p}, port : {port}, value : values]
Out(p, values) == To("output", p, values)
Switch(p) == Out(p, [value : BOOLEAN])
Enum(p, values) == Out(p, [value : values \cup {MaxEnum}])

\* 0, two fifths of a frame, one, fifteen and 29.97 frames a second
Rates == {0, 6554, Q16, 15 * Q16, 491029}
Raster422 == [color |-> "422", bitdepth |-> 10, storage |-> "raster"]
Tile420 == [color |-> "420", bitdepth |-> 10, storage |-> "tile_64x4"]
Formats == {Raster420, Raster422, Tile420, [Raster420 EXCEPT !.color = MaxEnum], NoFormat}

Definition(format, rate, width, height, bitrate, actual) ==
  [format |-> format, xFramerate |-> rate, width |-> width, height |-> height,
   stride |-> width, sliceHeight |-> height, bitrate |-> bitrate, actual |-> actual]
Definitions ==
  {Definition(Raster420, 15 * Q16, 176, 144, 64, 3), Definition(Raster422, 15 * Q16, 200, 100, 128, 4),
   Definition(Tile420, Q16, 64, 70, 64, 8), Definition(Raster422, 15 * Q16, 96, 96, 0, 3),
   Definition([Raster420 EXCEPT !.color = MaxEnum], Q16, 96, 96, 64, 3),
   Definition(Raster420, 0, 64, 64, 64, 3), Definition(Raster420, 15 * Q16, 64, 64, 64, 1)}

Crops == {NoRegion, [x |-> 8, y |-> 8, width |-> 64, height |-> 64],
          [x |-> -1, y |-> 0, width |-> 8, height |-> 8]}

CommonCalls ==
  Out("PortFormat", [format : Formats, xFramerate : Rates])
  \cup Out("PortDefinition", Definitions) \cup To("input", "PortDefinition", Definitions)
  \cup Out("BufferMode", [output : {"char_ptr", "fd", MaxEnum}])
  \cup To("input", "BufferMode", {[input |-> "fd"]}) \cup Switch("Subframe")

Expertises(profiles, filters) ==
  {[profile |-> f[1], level |-> 10, nB |-> f[2], nP |-> f[3], entropy |-> f[4],
    intra |-> f[5], filter |-> f[6]] :
     f \in {<<profile, 0, 29, "cavlc", TRUE, filter>> : profile \in profiles, filter \in filters}
           \cup {<<profile, 4, 2, "cabac", FALSE, "enable">> : profile \in profiles}}

ExpertiseCalls(profiles, filters) ==
  Out("Expertise", Expertises(profiles, filters))
  \cup Out("ProfileLevelCurrent", [profile : profiles, level : {10, 255}])

Sizes == {[i |-> 1500, p |-> 0, b |-> 7], [i |-> 3, p |-> -1, b |-> 2]}
Bitrates == [target : {0, 32, 100}, mode : {"vbr", MaxEnum}]
MaxBitrates == [max : {50, 100}, quality : {5, 21}]
PictureBuffers == [cpb : {10, 100, 2000}, ird : {5, 50}]
Gops == [mode : {"default", "low_delay_p"}, gdr : {"off", "vertical", MaxEnum}]

EncoderCalls ==
  Out("LookAhead", [lookAhead : {0, 4, -1}, sceneChange : {TRUE}])
  \cup Out("TwoPass", [nPass : {0, 1, 3}, sLogFile : {"log"}])
  \cup Out("Bitrate", Bitrates) \cup Out("MaxBitrate", MaxBitrates)
  \cup Out("CodedPictureBuffer", PictureBuffers)
  \cup Out("SceneChangeResilience", [resilient : BOOLEAN])
  \cup Out("SkipFrame", {[skip |-> TRUE, maxSkip |-> 3]})
  \cup Out("QuantizationControl", [ctrl : {"uniform", MaxEnum}])
  \cup Out("QuantizationTable", [table : {"relative", MaxEnum}])
  \cup Out("QuantizationExtension", [min : {10, -1}, max : {5, 40}])
  \cup Out("Quantization", {[nQpI |-> 30, nQpP |-> 32, nQpB |-> 33], [nQpI |-> 30, nQpP |-> 20, nQpB |-> 33],
                            [nQpI |-> -1, nQpP |-> 0, nQpB |-> 0]})
  \cup Out("GopControl", Gops) \cup Out("InstantaneousDecodingRefresh", [idrFrequency : {30, -1}])
  \cup Out("RecoveryPoint", [rpFrequency : {30, -1}])
  \cup Out("LongTerm", [isLongTermEnabled : {TRUE}, ltFrequency : {5, -1}])
  \cup Out("Slices", [num : {0, 4}, size : {0}, dependent : {TRUE}])
  \cup Out("MaxPictureSizes", Sizes) \cup Out("MaxPictureSizesInBits", Sizes)
  \cup Out("MaxPictureSize", [size : {9, -1}]) \cup Out("MaxPictureSizeInBits", [size : {9, -1}])
  \cup Out("LoopFilterBeta", [value : {2}]) \cup Out("LoopFilterTc", [value : {-2}])
  \cup Out("RateControlPlugin", [dmaBuf : {-1, 7, 8}, dmaSize : {64}])
  \cup Out("Crop", Crops) \cup To("input", "Crop", Crops)
  \cup UNION {Switch(p) : p \in {"LowBandwidth", "FullRange", "FillerData", "AccessUnitDelimiter",
       "BufferingPeriodSEI", "PictureTimingSEI", "RecoveryPointSEI", "MasteringDisplayColourVolumeSEI",
       "ContentLightLevelSEI", "AlternativeTransferCharacteristicsSEI", "ST209410SEI", "ST209440SEI",
       "UniformSliceType", "Synchronization", "Realtime", "PrefetchBuffer", "InputParsed"}}
  \cup To("input", "Synchronization", [value : BOOLEAN])
  \cup Enum("AspectRatio", {"4_3"}) \cup Enum("ScalingList", {"flat"})
  \cup Enum("InterlaceFormatCurrent", {"top", "progressive"}) \cup Enum("ColorPrimaries", {"bt_709"})
  \cup Enum("TransferCharacteristics", {"bt_2100_pq"}) \cup Enum("ColorMatrix", {"bt_709"})
  \cup Enum("StartCodeBytesAlignment", {"3_bytes"})

DecoderCalls ==
  Out("InternalEntropyBuffers", [value : {0, 2, 16, 17}])
  \cup Enum("DecodedPictureBuffer", {"no_reordering"})
  \cup Enum("SequencePictureMode", {"field", "unknown"})
  \cup Out("OutputPosition", {[x |-> 4, y |-> -4]}) \cup To("input", "OutputPosition", {[x |-> 1, y |-> 1]})
  \cup UNION {Switch(p) : p \in {"InputParsed", "EarlyCallback", "Realtime", "LowBandwidth"}}

\* the calls on the rate control and the clock, and those on the group of pictures
RateCalls ==
  Out("PortFormat", [format : {Raster420, [Raster420 EXCEPT !.color = MaxEnum]}, xFramerate : {Q16, 15 * Q16}])
  \cup Out("Bitrate", [target : {32, 100}, mode : {"vbr", MaxEnum}])
  \cup Out("MaxBitrate", [max : {50}, quality : {5}])
  \cup Out("CodedPictureBuffer", [cpb : {100, 2000}, ird : {5}])
  \cup Out("PortDefinition", {Definition(Raster422, Q16, 200, 100, 128, 4),
                              Definition(Raster422, 15 * Q16, 200, 100, 0, 4),
                              Definition([Raster420 EXCEPT !.color = MaxEnum], Q16, 96, 96, 64, 3)})
GopCalls ==
  Out("GopControl", Gops) \cup Switch("RecoveryPointSEI")
  \cup Out("Expertise", Expertises({"main"}, {"enable", MaxEnum}))
  \cup Out("Slices", [num : {0, 4}, size : {0}, dependent : {FALSE}]) \cup Switch("Subframe")
  \cup Out("PortDefinition", {Definition(Raster420, 15 * Q16, 176, 144, 64, 8)})

Client(c, set, n) == [codec |-> c, calls |-> set, depth |-> n]
Wide(c) ==
  Client(c, CommonCalls \cup (IF c \in Encoders THEN EncoderCalls ELSE DecoderCalls)
            \cup ExpertiseCalls({"main", "none"}, {"disable", "cross_tile", MaxEnum}), 2)

AllClients ==
  [c \in Codecs |-> Wide(c)]
  @@ [rates |-> Client("enc_avc", RateCalls, 4), gops |-> Client("enc_hevc", GopCalls, 3)]

\* One that sets known modes and formats, and a rate of one frame a second or more.
KnownRateCalls ==
  Out("PortFormat", [format : {Raster420}, xFramerate : {Q16, 15 * Q16}])
  \cup Out("Bitrate", [target : {32, 100}, mode : {"vbr"}])
  \cup Out("CodedPictureBuffer", [cpb : {100, 2000}, ird : {5}])
RateClient == [rates |-> Client("enc_avc", KnownRateCalls, 3)]

StackBuffers == [n \in 1 .. 16 |-> n + 3]
=============================================================================
