\* A client that does not wait for replies, and goroutines that are scheduled late.
SPECIFICATION Spec
CONSTANTS
  MaxHandlers = 2
  MaxTransfers = 1
  MaxChunks = 1
  TransferMode = "CLIENT"
  ClientModes = {"PASV", "PORT"}
  TransferTLS = TRUE
  Patient = FALSE
  PromptLocal = FALSE
  SessionMayEnd = TRUE
  Timeouts = TRUE
  EarlyMark = TRUE
INVARIANTS
  TypeOK
  CopierHasConns
  
CHECK_DEADLOCK FALSE
