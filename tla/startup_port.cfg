SPECIFICATION Spec
CONSTANTS
    Files <- SomeFiles
    Number <- SomeNumber
    Bytes <- SomeBytes
    Word = 65536
    Headers <- SomeHeaders
CHECK_DEADLOCK FALSE
INVARIANTS
    FirstValidIsUsed
