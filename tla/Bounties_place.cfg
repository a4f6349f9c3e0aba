SPECIFICATION Spec
CONSTANTS
    Players = {p1, p2, p3}
    System = System
    Placers = {p1, p2}
    Hunted = {p2, p3}
    Fighters = {p1}
    Travellers = {p3}
    Stakes = {1}
    StartGems = 1
    AutoStake = 1
    AutoMinimum = 0
    Growth = 1
    MaxWorth = 2
    MaxActive = 1
    Cooldown = 1
    AutoCooldown = 2
    Grace = 1
    Expiry = 2
    Limit = 2
    MaxClock = 2
    MaxPlayed = 2
    MaxRows = 3
    MaxTokens = 6
    MaxMoves = 3
    MaxFailures = 0
    MaxInFlight = 2
INVARIANTS
    TypeOK
    PlacementsAreLimited
CHECK_DEADLOCK FALSE
