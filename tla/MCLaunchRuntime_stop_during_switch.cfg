SPECIFICATION Spec
CONSTANTS
    Pids = {p1, p2}
    NoPid = NoPid
    SelectableMethods <- Zapret2Only
    MaxStartingWaits = 2
    MaxAutoRestarts = 1
    Bounds <- StopDuringSwitchBounds
SYMMETRY Symmetry
CHECK_DEADLOCK FALSE
INVARIANT StopWins
