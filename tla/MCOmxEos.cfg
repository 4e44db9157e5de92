SPECIFICATION Spec
CONSTANTS
  InBuffers = {i1, i2}
  OutBuffers = {o1, o2}
  None = None
  Expected <- TwoEach
  Decoder = TRUE
  ShouldPrealloc = TRUE
  MaySend <- Lifecycle
  SubmitStates = {"Executing", "Pause"}
  Kinds = {"data", "dataEos", "emptyEos", "empty"}
  Patient = TRUE
  Tidy = FALSE
  MaxCommands = 5
  MaxOutstanding = 1
  MaxEos = 2
  MaxFaults = 0
  MaxMisuse = 0
SYMMETRY Symm
INVARIANTS NothingLost PausedIsStill
CHECK_DEADLOCK FALSE
