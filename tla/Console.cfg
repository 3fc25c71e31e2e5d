SPECIFICATION Spec
CONSTANTS
    Processes = {a1, a2}
    Actors = {a1, a2}
    ProcessOf <- MCProcessOf
    Templates = {t1, s1}
    Seeds = {s1}
    Learned = {t1}
    Variants <- MCVariants
    Findings <- MCFindings
    Null = Null
    MaxVersion = 2
    MaxRequests = 2
SYMMETRY Symmetry
INVARIANTS
    VersionsAreAppended
    AuditTellsTheTruth
PROPERTIES
    AnswersAreTrue
CHECK_DEADLOCK FALSE
