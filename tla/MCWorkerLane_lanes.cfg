SPECIFICATION LiveSpec
CONSTANTS
    Runtimes = {lane, page}
    Lanes = {lane}
    Limit = 2
    Windows <- NoWindows
    MaxWorkers = 4
    MaxRequests = 2
INVARIANTS TypeOK GateInOrder OneAtATime LastRequestWins
PROPERTIES EveryoneStarts LaneSettles
CHECK_DEADLOCK FALSE
