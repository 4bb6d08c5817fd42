SPECIFICATION Spec
CONSTANTS
    s1 = s1
    s2 = s2
    Sessions <- OneClient
    Requests <- GoodRequests
    AuthTime = 1
    ReadMax = 2
    SleepTime = 1
    MaxSend = 2
    MaxThrow = 0
    MaxTime = 2
INVARIANTS
    FirstRequestInTime
