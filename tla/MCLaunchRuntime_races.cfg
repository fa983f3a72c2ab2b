SPECIFICATION Spec
CONSTANTS
    Pids = {p1, p2}
    NoPid = NoPid
    SelectableMethods <- Zapret2Only
    MaxStartingWaits = 2
    MaxAutoRestarts = 1
    Bounds <- RaceBounds
SYMMETRY Symmetry
CHECK_DEADLOCK FALSE
INVARIANT TypeOK
INVARIANT NothingStranded
INVARIANT RestIsFinal
