CONSTANTS
    a = a
    b = b
    d = d
    g1 = g1
    g2 = g2
    Slugs = {a, b, d}
    Groups = {g1, g2}
    Streams = {c1, c2, c3, c4}
    Registers <- ThreeAndShared
    MaxRestarts = 0
    MaxUndeleted = 0
    NoRequest = NoRequest
SYMMETRY PeerSymmetry
SPECIFICATION Spec
INVARIANTS
    TypeOK
    TablesAgree
    ViewsExact
    ResponseFirst
PROPERTY
    NoEviction
\* Streams are used once: when all are closed nothing is left to do.
CHECK_DEADLOCK FALSE
