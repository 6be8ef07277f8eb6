\* A client that waits for its replies, and goroutines that are scheduled late.
SPECIFICATION FairSpec
CONSTANTS
  MaxCommands = 4
  MaxSwitches = 2
  Pipelining = FALSE
  OriginMayClose = TRUE
  PeersMayFail = FALSE
  IdleTimeouts = FALSE
  TLSConfigured = TRUE
  MultiLineGreeting = FALSE
INVARIANTS
  LoginBelongsToOrigin
  HandshakeQuiet
  RepliesInStep
PROPERTIES
  LoggedInStays
  AnsweredOrHung
  EndsOrHung
CHECK_DEADLOCK FALSE
