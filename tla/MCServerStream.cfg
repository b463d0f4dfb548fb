SPECIFICATION Spec
CONSTANTS
    c1 = c1
    c2 = c2
    Connections <- MCConnections
    Datagram = FALSE
    ReceiveCapacity = 1
    SetupLimit = 1
    Budgets = {2}
    Policies = {"DropNewest", "DropOldest"}
    Panics = TRUE
    ListenerFails = TRUE
    MaxPackets <- StreamPackets
INVARIANTS
    TypeOK
    CauseKept
    DeliveredBeforeEnd
PROPERTIES
    KeepsLifecycle
