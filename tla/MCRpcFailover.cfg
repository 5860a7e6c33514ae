SPECIFICATION FairSpec
CONSTANTS
    Callers = {c1, c2}
    NumProviders = 2
    Priority <- MCPriority
    Threshold = 2
    Recovery = 1
    MaxFailures = 3
INVARIANTS
    TypeOK
    BreakerAgreesWithCount
    FailoverComplete
    PriorityRespected
PROPERTIES
    Quarantine
    PrimaryRejoins
