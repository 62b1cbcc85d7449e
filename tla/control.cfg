CONSTANTS
    a1 = a1
    a2 = a2
    a3 = a3
    s1 = s1
    s2 = s2
    s3 = s3
    reader = reader
    processor = processor
    Addresses = {a1, a2, a3}
    NoAddress = NoAddress
    StreamIds = {s1, s2, s3}
    NoId = NoId
    Sizes = {1, 2}
    NoSession = NoSession
    Cpus = {0, 1, 2, 3}
    Allowed = {0, 1, 3}
    WIDTH = 3
    NoMask = NoMask
    Malformed = Malformed
    Threads = {reader, processor}
    Priorities <- MCPriorities
    SDDS_DATA_SIZE = 2
    CORBA_MAX_XFER_BYTES = 5
    Offers <- MCOffers
SYMMETRY Symmetry
SPECIFICATION CSpec
INVARIANT TypeOK
INVARIANT CTypeOK
INVARIANT SessionOnlyWhenStarted
INVARIANT ReceivesItsSource
INVARIANT BatchKept
INVARIANT AffinityTrue
INVARIANT AttributesKept
INVARIANT OptionsKept
