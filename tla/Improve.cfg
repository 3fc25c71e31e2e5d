\* Two processes and two calls; an entry lives for one unit of time.
SPECIFICATION ImproverSpec
CONSTANTS
    p1 = p1
    p2 = p2
    k1 = k1
    Null = Null
    Processes = {p1, p2}
    Keys = {k1}
    TTL = 1
    MaxCalls = 2
INVARIANTS
    CachedIsRecent
    ServedTextIsFaithful
    OutcomeIsOwn
PROPERTIES
    EveryCallReturns
CHECK_DEADLOCK FALSE
