CONSTANTS
    a = a
    b = b
    g1 = g1
    Slugs = {a, b}
    Groups = {g1}
    Streams = {1, 2, 3}
    Registers <- Pair
    MaxRestarts = 0
    MaxUndeleted = 0
    MaxStops = 1
    NoRequest = NoRequest
    NoStream = NoStream
    NoSlug = NoSlug
SPECIFICATION Spec
PROPERTY
    StreamLossReconnects
CHECK_DEADLOCK FALSE
