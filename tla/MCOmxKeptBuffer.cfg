SPECIFICATION FairSpec
CONSTANTS
  InBuffers = {i1}
  OutBuffers = {o1}
  None = None
  Expected <- OneEach
  Decoder = TRUE
  ShouldPrealloc = TRUE
  MaySend <- WithPorts
  SubmitStates = {"Executing"}
  Kinds = {"data"}
  Patient = TRUE
  Tidy = FALSE
  MaxCommands = 3
  MaxOutstanding = 1
  MaxEos = 0
  MaxFaults = 0
  MaxMisuse = 0
PROPERTIES CommandsAnswered
CHECK_DEADLOCK FALSE
