CONSTANTS
    r1 = r1
    r2 = r2
    s1 = s1
    s2 = s2
    i1 = i1
    i2 = i2
    i3 = i3
    NoFlag = NoFlag
    NoRepo = NoRepo
    Repos = {r1, r2}
    Extensions <- Nested
    Setups <- AllSetups
    NewOrigins <- Changes
    NewArguments <- Arguments
    UnitRoots <- Roots
    Shells = {s1, s2}
    Servers = {i1, i2, i3}
    MaxLapses = 1
    MaxChanges = 1
SYMMETRY ServerSymmetry
CONSTRAINT Bounded
SPECIFICATION Spec
INVARIANTS
    TypeOK
    OneServerPerRepo
    EnteredIsServed
    PinnedClientFindsServer
    DerivedClientFindsServer
