SPECIFICATION Spec
CONSTANTS
    Callers = {c1, c2}
    NumProviders = 2
    Threshold = 2
    Recovery = 0
    MaxFailures = 2
    MaxRequests = 1
    Metered = {}
    Attempts <- MCAttempts
INVARIANT
    NoClientFacingError
