SPECIFICATION FairSpec
CONSTANTS
    Callers = {c1, c2}
    NumProviders = 2
    Threshold = 1
    Recovery = 0
    MaxFailures = 1
    MaxRequests = 2
    Metered = {1}
    Attempts <- MCAttempts
INVARIANTS
    TypeOK
    FailureIsEarned
PROPERTIES
    BudgetRespected
    EveryCallEnds
