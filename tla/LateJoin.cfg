\* A dial to the new origin that returns before the old reader has ended.
SPECIFICATION FairSpec
CONSTANTS
  MaxCommands = 3
  MaxSwitches = 2
  Pipelining = FALSE
  OriginMayClose = FALSE
  PeersMayFail = FALSE
  IdleTimeouts = FALSE
  TLSConfigured = TRUE
  MultiLineGreeting = FALSE
PROPERTIES
  CommandAnswered
CHECK_DEADLOCK FALSE
