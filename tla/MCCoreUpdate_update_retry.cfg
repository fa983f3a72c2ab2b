SPECIFICATION Spec
CONSTANTS
    Replaced <- MCReplaced
    Added <- MCAdded
    Removed <- MCRemoved
    NoFile = NoFile
    Exe = "exe"
    Windows <- RetryWindow
    MaxCrashes = 1
    MaxLocks = 1
    MaxSaves = 0
    MaxAttempts = 2
CHECK_DEADLOCK FALSE
INVARIANT SomeVersionWhole
