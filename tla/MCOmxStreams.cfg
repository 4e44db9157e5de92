SPECIFICATION Spec
CONSTANTS
  InBuffers = {i1}
  OutBuffers = {o1, o2}
  None = None
  Expected <- OneTwo
  Decoder = FALSE
  ShouldPrealloc = TRUE
  MaySend <- Streams
  SubmitStates <- States
  Kinds = {"data", "dataEos"}
  Patient = FALSE
  Tidy = FALSE
  MaxCommands = 4
  MaxOutstanding = 2
  MaxEos = 1
  MaxFaults = 0
  MaxMisuse = 0
SYMMETRY Symm
INVARIANTS DataFlows QuietModule
PROPERTIES FlushEmpties
CHECK_DEADLOCK FALSE
