SPECIFICATION Spec
CONSTANTS
    Slots = {s1}
    Accounts = {a1, a2}
    Nobody = Nobody
    NoRow = NoRow
    StartBalance = 2
    GrantAmounts = {1}
    SpendAmounts = {1}
    StealAmounts = {}
    CreditAmounts = {1}
    EscrowAmounts = {}
    MaxPacks = 4
    MaxSessions = 4
    MaxMoves = 3
    MaxFailures = 0
    MaxInFlight = 2
INVARIANTS
    FencedLoadsMatchLedger
