SPECIFICATION FairSpec
CONSTANTS
  InBuffers = {i1}
  OutBuffers = {o1}
  None = None
  Expected <- OneEach
  Decoder = TRUE
  ShouldPrealloc = TRUE
  MaySend <- WithPorts
  SubmitStates = {"Executing", "Pause"}
  Kinds = {"data", "dataEos"}
  Patient = TRUE
  Tidy = TRUE
  MaxCommands = 5
  MaxOutstanding = 1
  MaxEos = 1
  MaxFaults = 0
  MaxMisuse = 0
INVARIANTS PortsPopulated
PROPERTIES CommandsAnswered InputsReturned
CHECK_DEADLOCK FALSE
