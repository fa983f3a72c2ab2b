SPECIFICATION LiveSpec
CONSTANTS
    Pids = {p1, p2}
    NoPid = NoPid
    SelectableMethods <- ALL_LAUNCH_METHODS
    MaxStartingWaits = 2
    MaxAutoRestarts = 1
    Bounds <- RequestBounds
CHECK_DEADLOCK FALSE
INVARIANT EngineAsPublished
INVARIANT LastModeWins
PROPERTY Settles
