SPECIFICATION Spec
CONSTANTS
    NotANumber = NotANumber
    IPv6 = IPv6
    MaxHandlers = 2
    MaxTransfers = 1
    Setups <- MCSetups
    Ephemeral <- MCEphemeral
    PftpIP <- MCPftpIP
    ClientIP <- MCClientIP
    OriginIP <- MCOriginIP
    ClientNames <- MCClientNames
    OriginNames <- MCOriginNames
    FirstPeerPort = 254
INVARIANTS
    DialsPeers
    ToldPlacesListen
    RepliesMatch
    NoPanic
    OnlyCurrentListens
