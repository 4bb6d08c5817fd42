SPECIFICATION Spec
CONSTANTS
    s1 = s1
    s2 = s2
    Sessions <- OneClient
    Requests <- AllRequests
    AuthTime = 0
    ReadMax = 2
    SleepTime = 1
    MaxSend = 4
    MaxThrow = 1
    MaxTime = 2
SYMMETRY Symmetry
INVARIANTS
    TypeOK
    OneAccept
    SingleReader
    CallbackBalance
    OverlapOnlyAfterExpiry
    NoClientAbandoned
    SuccessIsAuthenticated
    ExpiryRate
PROPERTIES
    DispatchIsFinal
