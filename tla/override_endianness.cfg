CONSTANTS
    Addresses = {a1, a2}
    NoAddress = NoAddress
    StreamIds = {s1, s2}
    NoId = NoId
    Sizes = {1, 2}
    NoSession = NoSession
SYMMETRY Symmetry
SPECIFICATION Spec
INVARIANT EndiannessOfSource
