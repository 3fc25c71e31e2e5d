\* Two requests, settings that change, an expiring cooldown and a failing store.
SPECIFICATION Spec
CONSTANTS
    big = big  small = small  home = home  spare = spare  acme = acme  c1 = c1  c2 = c2
    nick = nick  auto = auto
    Null = Null
    Models = {big, small, home, spare}
    Provider <- MCProvider
    Keyed = {acme}
    Native = {big}
    Certified = {small}
    UnitCost <- MCUnitCost
    Settings <- MCSettings
    Names = {nick, auto, small}
    Alias <- MCAlias
    Calls = {c1, c2}
    MaxChunks = 3
INVARIANTS
    OneVoice
    RowTellsTheAnswer
    StreamIsWellFormed
SYMMETRY CallSymmetry
