SPECIFICATION PartsSpec
CONSTANTS
  Producers = {p1, p2}
  Consumers = {c1, c2}
  Values = {v1, v2}
  Nothing = Nothing
  MaxPushes = 4
  Callers = {app, codec}
  Tasks = {t1, t2}
  Quit = Quit
  HasDelete = TRUE
  MaxTasks = 4
  NoEnum = NoEnum
  Throws = Throws
  Unset = Unset
  Unknown = Unknown
  FormatMax = FormatMax
  FormatUnused = FormatUnused
  Q16 = 16384
  None = None
  Blank = Blank
  LookAhead = 3
  FreqLT = 1
  InFlight = 2
  MaxFrames = 6
  PicWidth = 9
  PicHeight = 8
  LcuSize = 2
  MinQP <- LowestQP
  MaxQP = 31
  Background = 0
  Rectangles <- Regions
  RoiQualities <- RegionQualities
  ByQuality = FALSE
  Static = Static
  Intra = Intra
  MaxRegions = 3
  Pictures <- FirstPass
  Channels <- RateControls
  LookAheadSizes <- LookAheads
  NoControl = NoControl
  SEQUENCE_SIZE_MAX = 4
  MaxPictures = 5
  MaxRestarts = 1
  HAlign = 64
  VAlign = 8
  MinOutput <- StackBuffers
  Importable = {7}
  Separate = TRUE
  DefaultCount = 1
  Clients <- AllClients
INVARIANTS Accounting InOrder DrainedAtJoin AtMostOneLate ReadsBack AppliedWhereAsked RegionsHonoured GuidedByFirstPass SizesFit SetIsRead
PROPERTIES Drains DestroyReturns ApplicationEnds FailedSetKeeps CoherentCallsReturn EnoughUntilMoreNeeded
CHECK_DEADLOCK FALSE
