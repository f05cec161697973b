CONSTANTS
    a = a
    b = b
    g1 = g1
    Slugs = {a, b}
    Groups = {g1}
    Streams = {1, 2}
    Registers <- Pair
    MaxRestarts = 0
    MaxUndeleted = 0
    MaxStops = 1
    NoRequest = NoRequest
    NoStream = NoStream
    NoSlug = NoSlug
SPECIFICATION Spec
INVARIANT
    DeadDirectoriesRemoved
CHECK_DEADLOCK FALSE
