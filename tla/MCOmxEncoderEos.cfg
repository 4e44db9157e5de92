SPECIFICATION Spec
CONSTANTS
  InBuffers = {i1}
  OutBuffers = {o1}
  None = None
  Expected <- OneEach
  Decoder = FALSE
  ShouldPrealloc = TRUE
  MaySend <- Lifecycle
  SubmitStates = {"Executing"}
  Kinds = {"data", "dataEos"}
  Patient = TRUE
  Tidy = FALSE
  MaxCommands = 4
  MaxOutstanding = 1
  MaxEos = 1
  MaxFaults = 0
  MaxMisuse = 0
INVARIANTS NothingLost
CHECK_DEADLOCK FALSE
