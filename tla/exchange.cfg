CONSTANTS
    k1 = k1
    k2 = k2
    x = x
    y = y
    Repos = {"a", "b"}
    Asker = "a"
    Clients = {k1, k2}
    Results = {x}
    MaxCommands = 4
    MaxFailures = 1
    MaxResults = 2
    MaxIrregular = 1
    Nobody = Nobody
SYMMETRY ClientSymmetry
SPECIFICATION Spec
INVARIANTS
    TypeOK
    AcknowledgedIsDone
    AnsweredIsResolved
    CopiedOnce
    StatusExclusive
    RefIsUnique
\* The bound on commands is reached and all of them are done.
CHECK_DEADLOCK FALSE
