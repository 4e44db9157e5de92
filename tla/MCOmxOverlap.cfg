SPECIFICATION Spec
CONSTANTS
  InBuffers = {i1}
  OutBuffers = {o1}
  None = None
  Expected <- OneEach
  Decoder = TRUE
  ShouldPrealloc = TRUE
  MaySend <- Streams
  SubmitStates = {}
  Kinds = {"data"}
  Patient = FALSE
  Tidy = FALSE
  MaxCommands = 6
  MaxOutstanding = 3
  MaxEos = 0
  MaxFaults = 0
  MaxMisuse = 0
INVARIANTS DataFlows
CHECK_DEADLOCK FALSE
