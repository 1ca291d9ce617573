SPECIFICATION OMemSpec
CONSTANTS
    Settings <- MCSettings
    Adapters <- MCAdapters
    Threads <- Probes
    Keys <- MCKeys
    Requests <- MCRequests
    NoKey = NoKey
    TopK = 5
    EncTopK = 5
INVARIANTS
    OMemTypeOK
    BoundedDuplicates
    CacheAccounts
PROPERTY
    ImplementsEngine
CHECK_DEADLOCK FALSE
