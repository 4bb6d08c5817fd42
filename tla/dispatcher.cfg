SPECIFICATION StaticSpec
CONSTANTS
    Chars <- SomeChars
    TypeNames <- SomeTypes
    RootNames <- SomeRoots
    Configs <- SomeConfigs
    Targets <- SomeTargets
    RootText <- SomeRootText
    Regular <- SomeRegular
    Readable <- SomeReadable
    MimeTypes <- SomeMime
INVARIANTS
    LongestPrefix
    AlwaysAnswered
    PathsNormalised
    PrefixOfTarget
    TableFromConfig
    StaticFilesFound
    MimeByName
