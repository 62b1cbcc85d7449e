CONSTANTS
    SeqModulus = 8
    ChecksumPeriod = 4
    SDDS_DATA_SIZE = 8
    PktsPerPush = 3
    Resolution = 5
    ErrorTolerance = 4
    NoPacket = NoPacket
    Names <- SriNames
    Offers <- AllOffers
    MaxSlips = 1
SPECIFICATION Spec
INVARIANT TypeOK
INVARIANT DroppedExact
INVARIANT BlocksContiguous
INVARIANT BlocksOfOneTtv
INVARIANT WritesUnderCurrentSri
INVARIANT NoSpin
INVARIANT NoFalseSlips
INVARIANT RateFromHeader
INVARIANT RateFromUpstream
INVARIANT YearFollowed
CHECK_DEADLOCK FALSE
