SPECIFICATION LiveSpec
CONSTANTS
    a = a
    b = b
    Servers = {a, b}
    NoServer = NoServer
    CONNECT_FAILURE_WINDOW = 1
    CONNECT_FAILURE_LIMIT = 2
    CONNECT_FAILURE_OBSERVATION_WINDOW = 0
    ZERO_RECV_LIMIT = 2
    ZERO_RECV_OBSERVATION_WINDOW = 0
    RETRY_DELAYS <- TwoDelays
    Sessions = {s1, s2}
    Kinds = {"session"}
    Faults = {"leave", "refuse", "timeout"}
    Windows = {}
    Choices <- OneOrder
    ConnectLimit = 1
    MAX_QUEUED_CONNECTIONS = 1
PROPERTY PrimaryReturns
PROPERTY ProbeEnds
PROPERTY AutomaticKeepsData
