SPECIFICATION Spec
CONSTANTS
    x = x
    y = y
    empty = empty
    Creates <- Mixed
    Targets <- Mixed
    Data <- SomeData
    Empty = empty
    Digits <- SomeDigits
    Value <- SomeValue
    Name <- SomeName
    PrefixName = "api"
    RootSlash = TRUE
    MaxId = 2
INVARIANTS
    CreateIsFresh
    AckedOrDirectory
PROPERTIES
    ImplementsStore
