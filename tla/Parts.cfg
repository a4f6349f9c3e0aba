SPECIFICATION Spec
CONSTANTS
    Game = "game"
    Workers = {"w1", "w2"}
    NumDetours = 2
    Clients = {1}
    ScorePlugins = {"p", "q"}
    NoPlugin = "none"
    Scores = {0, 1}
    Offsets <- MCOffsets
    IntMax = 2
    MaxConnects = 2
    NoRecord = 0
    MaxDepth = 4
    Mediguns = {1}
    Full = 12
    Gain = 2
    Multipliers = {0, 1, 3, 9, 65}
    MaxMultiplier = 64
    Players = {1}
    Times = {5, 9}
    NoTime = 0
    MaxJoined = 2
INVARIANTS TypeOK NothingIsTakenFromUsers StateIsTheOwners ReportsAreCurrent CallsAreKeptApart
PROPERTIES EffectsAreMeant
CHECK_DEADLOCK FALSE
