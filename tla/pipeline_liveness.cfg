CONSTANTS
    Capacity = 3
    Generations = 1
    PktsPerRead = 2
    PktsPerPush = 2
    Payload = {p1}
    NoData = NoData
    SocketErrors = TRUE
    LiveRestart = FALSE
    StopRacesStart = FALSE
SPECIFICATION FairSpec
PROPERTY ReaderServed
PROPERTY BatchProcessed
PROPERTY StopReturnsOrWakeupLost
CHECK_DEADLOCK FALSE
