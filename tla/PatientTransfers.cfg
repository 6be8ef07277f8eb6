\* A client that ends one transfer before it starts the next.
SPECIFICATION Spec
CONSTANTS
  MaxHandlers = 2
  MaxTransfers = 2
  MaxChunks = 1
  TransferMode = "CLIENT"
  ClientModes = {"PASV"}
  TransferTLS = FALSE
  Patient = TRUE
  PromptLocal = TRUE
  SessionMayEnd = FALSE
  Timeouts = FALSE
  EarlyMark = FALSE
INVARIANTS
  OneDataConnection
  SocketsClosed
  NoTruncation
  BusyMeansTransfer
CHECK_DEADLOCK FALSE
