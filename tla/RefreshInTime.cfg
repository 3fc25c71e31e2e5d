\* Two processes that refresh one source; one refresh may outlast its lease.
SPECIFICATION MCSpec
CONSTANTS
    a = a  b = b  c = c  r = r  x = x  y = y  here = here
    Null = Null  Blank = Blank
    ItemCount = 2
    Bodies = {a, b, c, r, x, y}
    Risky = {r}
    Source <- MCSource
    Title <- MCTitle
    Fingerprint <- MCFingerprint
    Listings <- MCListings
    Upstream <- MCUpstream
    Licensed <- MCLicensed
    WellLaidOut <- MCWellLaidOut
    LocalImports <- MCLocalImports
    MaxImports = 1
    Workers = {r1, r2}
    Timers = {r1}
    Process <- MCProcess
    Acks = {FALSE}
    MaxVersions = 0
    MaxOverruns = 1
INVARIANTS
    OneRefreshInTime
    UnchangedMeansCurrent
    OnlyFitTexts
PROPERTIES
    FeedIsMirrored
