\* One transfer, its handler closed at any step, however late goroutines run.
SPECIFICATION FairSpec
CONSTANTS
  MaxHandlers = 1
  MaxTransfers = 1
  MaxChunks = 1
  TransferMode = "CLIENT"
  ClientModes = {"PASV", "PORT"}
  TransferTLS = TRUE
  Patient = FALSE
  PromptLocal = FALSE
  SessionMayEnd = TRUE
  Timeouts = TRUE
  EarlyMark = FALSE
PROPERTIES
  TransferEnds
CHECK_DEADLOCK FALSE
