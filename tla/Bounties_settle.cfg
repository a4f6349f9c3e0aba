SPECIFICATION PartsSpec
CONSTANTS
    Players = {p1, p2}
    System = System
    Placers = {p1}
    Hunted = {p2}
    Fighters = {p1, p2}
    Travellers = {p2}
    Stakes = {1}
    StartGems = 2
    AutoStake = 1
    AutoMinimum = 0
    Growth = 1
    MaxWorth = 2
    MaxActive = 1
    Cooldown = 1
    AutoCooldown = 2
    Grace = 1
    Expiry = 2
    Limit = 1
    MaxClock = 3
    MaxPlayed = 2
    MaxRows = 2
    MaxTokens = 6
    MaxMoves = 4
    MaxFailures = 0
    MaxInFlight = 2
INVARIANTS
    RowsTellOfTheirTarget
PROPERTIES
    RefundedWereAway
    ImplementsEscrow
    SettlementIsFinal
    BountiesEnd
CHECK_DEADLOCK FALSE
