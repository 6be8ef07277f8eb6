\* The origin's answer to EPSV names no host, and pftp dials none.
SPECIFICATION Spec
CONSTANTS
    NotANumber = NotANumber
    IPv6 = IPv6
    MaxHandlers = 1
    MaxTransfers = 1
    Setups <- MCSetups
    Ephemeral <- MCEphemeral
    PftpIP <- MCPftpIP
    ClientIP <- MCClientIP
    OriginIP <- MCOriginIP
    ClientNames <- MCClientNames
    OriginNames <- MCOriginNames
    FirstPeerPort = 254
INVARIANT DialsAHost
