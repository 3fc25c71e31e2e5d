SPECIFICATION EngineSpec
CONSTANTS
    Null = Null
    c1 = c1
    c2 = c2
    Callers = {c1}
    Unreliable = {c1}
    Cancellable = {}
    Chains <- TwoPaid
    Attempts = {a1}
    Requests = {r1}
    Scopes = {}
    Rows = {u1}
    MaxNanos = 1
    Amounts = {1}
    Costs = {0}
    Limits = {1}
    Openings = {0}
    Expiries = {1}
    MaxBatch = 1
    Day = 1
    MaxTime = 0
INVARIANTS
    OrphansAreReconcilable
CHECK_DEADLOCK FALSE
