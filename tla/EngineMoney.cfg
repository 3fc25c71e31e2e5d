SPECIFICATION EvaluationSpec
CONSTANTS
    Null = Null
    Callers = {c1, e1}
    Evaluators = {e1}
    Unreliable = {c1, e1}
    Cancellable = {}
    Chains <- TwoPaid
    Attempts = {a1, a2, a3}
    Requests = {r1, r2, r3}
    Scopes = {s1}
    Rows = {u1, u2}
    MaxNanos = 6
    Amounts = {1, 2}
    Costs = {0}
    Limits = {2}
    Openings = {0}
    Expiries = {2}
    Budgets = {2}
    MaxBatch = 2
    Day = 0
    MaxTime = 0
SYMMETRY Symmetry
INVARIANTS
    KnownBillIsCovered
    PairIsSettled
    LiabilityCoversBill
PROPERTIES
    RowTellsTheCharges
CHECK_DEADLOCK FALSE
