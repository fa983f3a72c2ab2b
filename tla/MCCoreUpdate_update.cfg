SPECIFICATION LiveSpec
CONSTANTS
    Replaced <- MCReplaced
    Added <- MCAdded
    Removed <- MCRemoved
    NoFile = NoFile
    Exe = "exe"
    Windows <- NoWindows
    MaxCrashes = 2
    MaxLocks = 4
    MaxSaves = 1
    MaxAttempts = 2
CHECK_DEADLOCK FALSE
INVARIANT TypeOK
INVARIANT WholeVersion
INVARIANT SomeVersionWhole
INVARIANT CanFinish
PROPERTY ReinstallKept
PROPERTY ImplementsAtomic
