SPECIFICATION FocusSpec
CONSTANTS
    Rows = {r1, r2}
    Threads = {h1, h2}
    Wallets = {a1, a2}
    Emails = {e1, e2}
    None = None
    Gone = Gone
    Orphan = Orphan
    Symbols <- MCSymbols
    Statuses <- MCStatuses
    Durations <- MCDurations
    Lifetime = 2
    Inactivity = 1
    NoTable = NoTable
    OldTables <- MCOldTables
    MaxLag = 2
    ShortLag = 1
    MaxTime = 2
    MaxCount = 3
    MaxRecords = 1
    MaxFails = 1
    Requests = {h1, h2}
    NumNodes = 2
    Threshold = 2
    Recovery = 0
    MaxFailures = 2
INVARIANTS
    AuxTypeOK
    VersionsAccounted
    LostOnlyByReset
    NeverOverCounted
    RecordsReachable
    EveryQueryHasIndex
    HeightLostOnlyByFailure
PROPERTIES
    ActiveIsEarned
    LogoutIsFinal
    RightUserUpdated
    MixedOnlyByFailover
SYMMETRY MCSymmetry
CHECK_DEADLOCK FALSE
