SPECIFICATION FairSpec
CONSTANTS
    Setups <- MCSetups
    Minute = 1
    Longest = 2
    MaxCommands = 2
    MaxTransfers = 2
    MaxChunks = 2
    Never = Never
INVARIANTS
    IdleIsTimed
    IdleMeansIdle
    OriginUntimed
    SourceCutFairly
PROPERTIES
    SilentClientEnds
CHECK_DEADLOCK FALSE
