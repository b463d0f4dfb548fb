SPECIFICATION Spec
CONSTANTS
    c1 = c1
    c2 = c2
    Connections <- MCConnections
    Datagram = TRUE
    ReceiveCapacity = 1
    SetupLimit = 1
    Budgets = {2}
    Policies = {"DropNewest", "DropOldest"}
    Panics = FALSE
    ListenerFails = FALSE
    MaxPackets <- DatagramPackets
SYMMETRY Interchangeable
INVARIANTS
    PacketsAccounted
    NeverBlocked
PROPERTIES
    KeepsLifecycle
