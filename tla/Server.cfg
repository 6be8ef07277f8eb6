SPECIFICATION FairSpec
CONSTANTS
  MaxClients = 4
  MaxConnections = 2
INVARIANTS
  TypeOK
  ServedBounded
  CounterExact
  GracefulReturn
  StopIsClean
PROPERTIES
  AdmissionSpec
  SignalEndsServer
