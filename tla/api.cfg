SPECIFICATION Spec
CONSTANTS
    x = x
    y = y
    empty = empty
    Creates <- Entities
    Targets <- Used
    Data <- SomeData
    Empty = empty
    Digits <- SomeDigits
    Value <- SomeValue
    Name <- SomeName
    PrefixName = "api"
    RootSlash = TRUE
    MaxId = 2
INVARIANTS
    AckedDurable
    CreatedIsReadable
    OnlyRefusalsTerminate
PROPERTIES
    ImplementsStore
    OnlyDeleteHides
