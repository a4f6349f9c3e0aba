SPECIFICATION Spec
CONSTANTS
    Slots = {s1, s2}
    Accounts = {a1, a2}
    Nobody = Nobody
    NoRow = NoRow
    StartBalance = 2
    GrantAmounts = {}
    SpendAmounts = {}
    StealAmounts = {2}
    CreditAmounts = {}
    EscrowAmounts = {2}
    MaxPacks = 4
    MaxSessions = 4
    MaxMoves = 2
    MaxFailures = 0
    MaxInFlight = 2
INVARIANTS
    NoOverdraft
