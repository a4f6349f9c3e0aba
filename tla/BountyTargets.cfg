SPECIFICATION FairSpec
CONSTANTS
    Players = {p1, p2}
    MaxMoves = 3
    MaxFailures = 1
    MaxReconnects = 1
INVARIANTS
    TypeOK
    RefreshIsServed
    PendingIsOwned
    AnnouncedIsListed
PROPERTIES
    ListConverges
