\* Everything the peers may do, and goroutines that are scheduled late.
SPECIFICATION Spec
CONSTANTS
  MaxCommands = 2
  MaxSwitches = 2
  Pipelining = TRUE
  OriginMayClose = TRUE
  PeersMayFail = TRUE
  IdleTimeouts = TRUE
  TLSConfigured = TRUE
  MultiLineGreeting = TRUE
INVARIANTS
  TypeOK
  DeliverFromCurrent
  FlagsConfined
  NoOriginLeak
PROPERTIES
  OriginLinkSpec
CHECK_DEADLOCK FALSE
