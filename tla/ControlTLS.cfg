SPECIFICATION Spec
CONSTANTS
    MaxCommands = 6
    Setups <- MCSetups
    Protocols <- MCProtocols
INVARIANTS
    TypeOK
    LinksAgree
    ProtectionAgrees
    ReplayInStep
