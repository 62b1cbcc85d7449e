CONSTANTS
    Capacity = 3
    Generations = 1
    PktsPerRead = 2
    PktsPerPush = 2
    Payload = {p1, p2}
    NoData = NoData
    SocketErrors = TRUE
    LiveRestart = FALSE
    StopRacesStart = FALSE
SPECIFICATION Spec
INVARIANT NoMutualStarvation
PROPERTY ImplementsChannel
CHECK_DEADLOCK FALSE
