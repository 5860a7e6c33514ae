SPECIFICATION FocusSpec
CONSTANTS
    Handlers = {h1, h2}
    Keys = {k1, k2}
    CatalogNames = {n1, n2}
    Repositories <- MCRepositories
    MaxCatalog = 2
    MaxReply = 2
    Objectives <- MCObjectives
    Replies <- MCReplies
    TTL = 2
    Now = 3
    Addresses = {a1, a2}
    Sanctioned = {a2}
    None = None
    Admins = {h1, h2}
    SecretIds = {k1, k2}
    Notes = {"first", "second"}
INVARIANTS
    FlowTypeOK
    HistoryTellsAnswer
    ReorderIsComplete
    CopyFollowsChoice
    SessionsScreened
PROPERTIES
    NoDeadEnd
    PlanIsForChoice
    SecretKept
SYMMETRY MCSymmetry
CHECK_DEADLOCK FALSE
