SPECIFICATION EncoderSpec
CONSTANTS
  Sources = {s1, s2, s3}
  Streams = {o1, o2, o3}
  Tables = {t1, t2}
  None = None
  Eos = Eos
  Settings <- EncSettings
  MaxFailures = 1
  MaxStops = 1
  Headers = {i1, i2}
  Handles = {h1, h2}
  RoiBuffers = {b1, b2}
  Seis = {e1}
  Rois = {r1, r2}
  Null = Null
  MaxPictures = 3
  MaxFlushes = 1
INVARIANTS Ownership ConfigThere LookAheadInOrder TablesUsedOnce StoppedKnowsNothing RoiAccounted ConfigWithItsPicture
CHECK_DEADLOCK FALSE
SYMMETRY Symm
