SPECIFICATION Spec
CONSTANTS
    Slots = {s1, s2}
    Accounts = {a1, a2}
    Nobody = Nobody
    NoRow = NoRow
    StartBalance = 2
    GrantAmounts = {1}
    SpendAmounts = {1, 2}
    StealAmounts = {2}
    CreditAmounts = {}
    EscrowAmounts = {}
    MaxPacks = 5
    MaxSessions = 5
    MaxMoves = 3
    MaxFailures = 0
    MaxInFlight = 2
SYMMETRY Symmetry
INVARIANTS
    NoOverdraft
