SPECIFICATION MCSpec
CONSTANTS
    Presets = {default, other}
    Default = default
    NoPreset = NoPreset
    Windows <- NoWindows
    MaxWrites = 1
    MaxChanges = 3
    MaxAttempts = 1
INVARIANTS TypeOK SelectionFollowed
PROPERTIES EngineCatchesUp OnlyForeignApplied
CHECK_DEADLOCK FALSE
