SPECIFICATION Spec
CONSTANTS
  HAlign = 64
  VAlign = 8
  MinOutput <- StackBuffers
  Importable = {7}
  Q16 = 16384
  Separate = TRUE
  DefaultCount = 1
  Clients <- RateClient
INVARIANTS EveryCallReturns
CHECK_DEADLOCK FALSE
