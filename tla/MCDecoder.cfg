SPECIFICATION DecoderSpec
CONSTANTS
  Inputs = {i1, i2}
  Frames = {o1, o2}
  None = None
  Eos = Eos
  Settings <- DecSettings
  MaxFailures = 1
  MaxStops = 1
  MaxUses = 2
  Stamps = {0, 1}
  MaxFrames = 5
  MaxResets = 2
INVARIANTS Ownership SeisWithTheirPicture ResolutionAnnounced OwnTimeStamp
CHECK_DEADLOCK FALSE
SYMMETRY Symm
