\* Two workers: at once on one item, or one after the other on three items of two sources.
SPECIFICATION MCSpec
CONSTANTS
    a = a  b = b  r = r  here = here  there = there  chore = chore  essay = essay
    Null = Null  Blank = Blank
    ItemCount = 3
    Bodies = {a, b, r}
    Risky = {r}
    Source <- MCSource
    Title <- MCTitle
    Fingerprint <- MCFingerprint
    Listings <- AllListings
    Workers = {w1, w2}
    Acks = {TRUE, FALSE}
    MaxVersions = 2
SYMMETRY WorkerSymmetry
INVARIANTS
    RiskIsAcknowledged
    PromotionsAreSound
PROPERTIES
    DecisionsFollowTexts
    RejectionStands
