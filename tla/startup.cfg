SPECIFICATION Spec
CONSTANTS
    Files <- SomeFiles
    Number <- SomeNumber
    Bytes <- SomeBytes
    Word = 65536
    Headers <- SomeHeaders
CHECK_DEADLOCK FALSE
INVARIANTS
    StackOK
    TreeIsTokens
    AcceptsConfigs
    TextKept
    SettingsArrive
    CredentialsComeFirst
    NoCrash
    DecodesRFC
    AccountsOpen
    OnlyAccountsOpen
