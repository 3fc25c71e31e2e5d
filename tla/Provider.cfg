SPECIFICATION AdapterSpec
CONSTANTS
    Null = Null
    MaxNanos = 12
    Profiles <- TwoProfiles
    Enabled <- WithKeys
    Tokens = {0, 1, 2}
    QuoteLife = 1
    TariffExpiry = 2
    MaxUtc = 2
    Deadline = 2
    MaxNow = 3
INVARIANTS
    OutcomeCoversBill
    BreachIsRetained
    PostEndsInTime
CHECK_DEADLOCK FALSE
