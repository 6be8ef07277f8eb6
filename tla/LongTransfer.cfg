\* A source that keeps sending for longer than transfer_timeout.
SPECIFICATION Spec
CONSTANTS
    Setups <- MCSetups
    Minute = 1
    Longest = 2
    MaxCommands = 1
    MaxTransfers = 1
    MaxChunks = 4
    Never = Never
INVARIANT ProgressUncut
CHECK_DEADLOCK FALSE
