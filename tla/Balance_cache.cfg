SPECIFICATION FairSpec
CONSTANTS
    Slots = {s1}
    Accounts = {a1, a2}
    Nobody = Nobody
    NoRow = NoRow
    StartBalance = 2
    GrantAmounts = {1}
    SpendAmounts = {1}
    StealAmounts = {}
    CreditAmounts = {1}
    EscrowAmounts = {1}
    MaxPacks = 6
    MaxSessions = 6
    MaxMoves = 3
    MaxFailures = 1
    MaxInFlight = 2
INVARIANTS
    TypeOK
    CacheMatchesLedger
    CacheNeverOverstates
    LoadIsOwned
PROPERTIES
    PublishesOwnRow
    LoadsAreAnswered
