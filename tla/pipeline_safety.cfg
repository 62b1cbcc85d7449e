CONSTANTS
    Capacity = 2
    Generations = 2
    PktsPerRead = 2
    PktsPerPush = 1
    Payload = {p1}
    NoData = NoData
    SocketErrors = TRUE
    LiveRestart = TRUE
    StopRacesStart = FALSE
SPECIFICATION Spec
INVARIANT TypeOK
INVARIANT NoSharing
INVARIANT PoolConserved
INVARIANT NoMutualStarvation
INVARIANT NoMissedWakeup
INVARIANT KernelWritesOwnBuffers
INVARIANT SocketClosed
INVARIANT ShutDownHeard
INVARIANT NoStalePackets
CHECK_DEADLOCK FALSE
