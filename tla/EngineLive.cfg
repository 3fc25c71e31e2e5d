SPECIFICATION FairEngineSpec
CONSTANTS
    Null = Null
    c1 = c1
    c2 = c2
    Callers = {c1, c2}
    Unreliable = {c2}
    Cancellable = {c1}
    Chains <- AllChains
    Attempts = {a1, a2}
    Requests = {r1, r2}
    Scopes = {}
    Rows = {u1}
    MaxNanos = 2
    Amounts = {1}
    Costs = {0, 1, 2}
    Limits = {1}
    Openings = {0}
    Expiries = {1}
    MaxBatch = 1
    Day = 1
    MaxTime = 1
INVARIANTS
    NoFallbackWhileUnknown
    DoneIsAccounted
    BillsWithinCap
PROPERTIES
    HoldsAreResolved
CHECK_DEADLOCK FALSE
