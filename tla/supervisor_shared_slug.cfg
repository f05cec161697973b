CONSTANTS
    a = a
    b = b
    d = d
    g1 = g1
    g2 = g2
    Slugs = {a, b}
    Groups = {g1, g2}
    Streams = {c1, c2}
    Registers <- SharedSlug
    MaxRestarts = 0
    MaxUndeleted = 0
    NoRequest = NoRequest
SPECIFICATION Spec
INVARIANT
    DirOfLiveServer
CHECK_DEADLOCK FALSE
