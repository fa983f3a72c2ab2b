SPECIFICATION Spec
CONSTANTS
    a = a
    b = b
    Servers = {a, b}
    NoServer = NoServer
    CONNECT_FAILURE_WINDOW = 1
    CONNECT_FAILURE_LIMIT = 2
    CONNECT_FAILURE_OBSERVATION_WINDOW = 1
    ZERO_RECV_LIMIT = 2
    ZERO_RECV_OBSERVATION_WINDOW = 0
    RETRY_DELAYS <- TwoDelays
    Sessions = {s1, s2}
    Kinds = {"session", "raw"}
    Faults = {"leave", "timeout"}
    Windows = {}
    Choices <- OrdersOrOff
    ConnectLimit = 1
    MAX_QUEUED_CONNECTIONS = 1
SYMMETRY Alike
INVARIANT TypeOK
INVARIANT ProbeIsHeld
INVARIANT FallbackJustified
INVARIANT NoneLeftBehind
