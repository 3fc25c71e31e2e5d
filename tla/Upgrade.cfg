\* Two processes that open a database of any release, with two deaths or restores.
SPECIFICATION UpgradeSpec
CONSTANTS
    Null = Null
    essay = essay
    chore = chore
    Processes = {p1, p2}
    Templates = {essay, chore}
    Releases <- KnownReleases
    MaxFaults = 2
INVARIANTS
    UpIsComplete
    TemplatesAreKept
PROPERTIES
    EventuallyUp
CHECK_DEADLOCK FALSE
