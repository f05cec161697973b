CONSTANTS
    u1 = u1
    u2 = u2
    u3 = u3
    Requests = {u1, u2, u3}
    Attached <- Sent
    BadNames = {"../patch"}
    MaxReceived = 5
    MaxDeaths = 2
    Failed = Failed
    NoRequest = NoRequest
SPECIFICATION Spec
INVARIANTS
    TypeOK
    LeftoversExplained
    NotesAreTrue
    CommittedOnce
    AcknowledgedIsNoted
\* The bound on requests is reached and all are done.
CHECK_DEADLOCK FALSE
