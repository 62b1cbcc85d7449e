CONSTANTS
    NoName = NoName
    AllNames = AllNames
    NoIp = NoIp
    Networks <- TwoNetworks
    Requests <- SomeRequests
    Hosts = {h1, h2}
    NoHost = NoHost
    Descriptors = {3, 4}
    Sizes = {0, 1}
    DefaultSize = 2
    MaxSize = 3
    OtherSockets <- SomeRows
    Fills = {1}
SYMMETRY Symmetry
SPECIFICATION Spec
INVARIANT TypeOK
INVARIANT NoSocketLeft
INVARIANT ReadsWhatWasAskedFor
INVARIANT JoinedWhereAsked
INVARIANT LowGroupsOpened
INVARIANT BufferSizeTrue
INVARIANT DuplicateSenderWarned
INVARIANT ReadersFound
CHECK_DEADLOCK FALSE
