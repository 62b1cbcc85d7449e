CONSTANTS
    SeqModulus = 8
    ChecksumPeriod = 4
    SDDS_DATA_SIZE = 8
    PktsPerPush = 3
    Resolution = 5
    ErrorTolerance = 4
    NoPacket = NoPacket
    Names <- SriNames
    Offers <- RatelessOffers
    MaxSlips = 1
SPECIFICATION Spec
INVARIANT UsesPackets
CHECK_DEADLOCK FALSE
