\* Two attempts of a batch or of a retry, linked and unlinked rows, over two windows.
SPECIFICATION Spec
CONSTANTS
    Null = Null
    Attempts = {a1, a2}
    Requests = {r1, r2}
    Scopes = {s1}
    Rows = {u1, u2}
    MaxNanos = 3
    Amounts = {1, 2}
    Costs = {2}
    Limits = {3}
    Openings = {1}
    Expiries = {3}
    MaxBatch = 2
    Day = 1
    MaxTime = 2
SYMMETRY Symmetry
INVARIANTS
    CapsAreKept
    WindowSpend
    RequestsAreOrderly
PROPERTIES
    ImplementsAuthority
    ReleasedByOutcome
CHECK_DEADLOCK FALSE
