CONSTANTS
    a = a
    b = b
    g1 = g1
    Slugs = {a, b}
    Groups = {g1}
    Streams = {1, 2, 3, 4}
    Registers <- Pair
    MaxRestarts = 1
    MaxUndeleted = 1
    MaxStops = 1
    NoRequest = NoRequest
    NoStream = NoStream
    NoSlug = NoSlug
SPECIFICATION FairSpec
INVARIANTS
    TypeOK
    ListenersMatchGroup
    StaleSocketsOfKilledOnly
PROPERTIES
    ReconnectionNotRefused
    Converges
\* Streams are used once: when all are used nothing is left to do.
CHECK_DEADLOCK FALSE
