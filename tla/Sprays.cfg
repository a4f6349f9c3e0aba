SPECIFICATION PartsSpec
CONSTANTS
    MaxClients = 2
    Plugins = {"sprays"}
    NoPlugin = "none"
    MaxSerials = 3
    Paths = {"one", "two"}
    NoPath = "nothing"
    Images = {"good", "bad"}
    ValidImages = {"good"}
    Canonical <- MCCanonical
    Announced = {"good"}
    NoCrc = "none"
    Sprayers = {1}
    PathLimit = 1
    MaxTokens = 2
    MaxEvents = 3
    MaxFiles = 1
INVARIANTS PartsTypeOK UploadsAreOurs PublishedIsSound SpraysReachTheirAudience
PROPERTIES HandoffsAreOrderly
CHECK_DEADLOCK FALSE
