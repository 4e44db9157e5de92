SPECIFICATION Spec
CONSTANTS
  InBuffers = {i1, i2}
  OutBuffers = {o1}
  None = None
  Expected <- TwoOne
  Decoder = TRUE
  ShouldPrealloc = TRUE
  MaySend <- Straight
  SubmitStates = {"Executing"}
  Kinds = {"data", "dataEos", "emptyEos", "empty"}
  Patient = FALSE
  Tidy = FALSE
  MaxCommands = 2
  MaxOutstanding = 1
  MaxEos = 2
  MaxFaults = 0
  MaxMisuse = 0
SYMMETRY Symm
INVARIANTS NothingLost
CHECK_DEADLOCK FALSE
