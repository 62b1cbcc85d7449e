CONSTANTS
    Capacity = 3
    Generations = 1
    PktsPerRead = 2
    PktsPerPush = 2
    Payload = {p1}
    NoData = NoData
    SocketErrors = FALSE
    LiveRestart = FALSE
    StopRacesStart = TRUE
SPECIFICATION Spec
INVARIANT ShutDownHeard
CHECK_DEADLOCK FALSE
