SPECIFICATION Spec
CONSTANTS
  InBuffers = {i1}
  OutBuffers = {o1}
  None = None
  Expected <- OneEach
  Decoder = TRUE
  ShouldPrealloc = TRUE
  MaySend <- AnyTime
  SubmitStates <- States
  Kinds = {"data"}
  Patient = FALSE
  Tidy = FALSE
  MaxCommands = 3
  MaxOutstanding = 2
  MaxEos = 0
  MaxFaults = 1
  MaxMisuse = 1
INVARIANTS TypeOK Conservation JoinsTerminate ModuleFollowsState
PROPERTIES ImplementsIL
CHECK_DEADLOCK FALSE
