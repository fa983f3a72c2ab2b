SPECIFICATION Spec
CONSTANTS
    Presets = {p1, p2, p3}
    NoPreset = NoPreset
    NoOp = NoOp
    Asks <- MCAsks
    Windows <- NoWindows
    MaxClicks = 3
    MaxSelects = 3
    MaxEvents = 4
    MaxFailures = 1
INVARIANTS TypeOK RightPreset NothingForgotten ListCatchesUp
PROPERTIES NothingUndone NewestWins
SYMMETRY Symmetry
CHECK_DEADLOCK FALSE
