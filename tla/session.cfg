CONSTANTS
    k1 = k1
    k2 = k2
    Notifications <- JoinAndLeave
    Clients = {k1, k2}
    MaxDeaths = 2
    Capacity = 3
    NoLength = NoLength
    NoClient = NoClient
SPECIFICATION FairSpec
INVARIANTS
    TypeOK
    DeliveredIsPrefix
PROPERTIES
    RequestAnswered
    NotificationsArrive
    SupervisorNotHeldUp
CHECK_DEADLOCK FALSE
