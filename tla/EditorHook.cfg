\* Two prompts, and two rows that may be theirs or somebody else's.
SPECIFICATION HookSpec
CONSTANTS
    None = None
    MaxTurns = 2
    Recording = {2}
    MaxRows = 2
INVARIANTS
    TurnsAreLinked
    SignalsAreTrue
PROPERTIES
    EveryPromptGoesOn
CHECK_DEADLOCK FALSE
