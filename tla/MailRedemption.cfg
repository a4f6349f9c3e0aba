SPECIFICATION PartsSpec
CONSTANTS
    Servers = {s1, s2}
    Players = {p1}
    Addressee = p1
    Nowhere = Nowhere
    Mails = {1, 2}
    Receiver <- MCReceiver
    Gems <- MCGems
    Expiring = {2}
    MaxMoves = 3
    MaxFailures = 1
    MaxRestarts = 1
    MaxInFlight = 2
INVARIANTS
    TypeOK
    RedeemedWerePaid
    PendingHasWork
PROPERTIES
    ImplementsPayments
    RedemptionsEnd
CHECK_DEADLOCK FALSE
