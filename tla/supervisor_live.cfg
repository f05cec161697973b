CONSTANTS
    a = a
    b = b
    d = d
    g1 = g1
    g2 = g2
    Slugs = {a, b}
    Groups = {g1}
    Streams = {c1, c2, c3}
    Registers <- Pair
    MaxRestarts = 1
    MaxUndeleted = 1
    NoRequest = NoRequest
SPECIFICATION FairSpec
INVARIANT
    DirsExact
PROPERTIES
    RegisterAnswered
    DeathNoticed
    ImplementsPeerGroups
\* Streams are used once: when all are closed nothing is left to do.
CHECK_DEADLOCK FALSE
