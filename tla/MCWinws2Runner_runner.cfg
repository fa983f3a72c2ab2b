SPECIFICATION LiveSpec
CONSTANTS
    p1 = p1
    p2 = p2
    p3 = p3
    Pids <- AllPids
    NoPid = NoPid
    Presets = {a, b}
    NoPreset = NoPreset
    Leftovers <- OneSurvivor
    Windows <- NoWindow
    MaxCommands = 2
    MaxPauses = 1
    MaxDeaths = 1
    MaxRefusals = 1
CHECK_DEADLOCK FALSE
INVARIANT TypeOK
INVARIANT StopIsFinal
INVARIANT NothingBehind
INVARIANT AlarmsRight
PROPERTY ImplementsSlot
