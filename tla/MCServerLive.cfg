SPECIFICATION FairSpec
CONSTANTS
    c1 = c1
    c2 = c2
    Connections <- MCConnections
    Datagram = FALSE
    ReceiveCapacity = 1
    SetupLimit = 1
    Budgets = {1}
    Policies = {"DropNewest"}
    Panics = TRUE
    ListenerFails = FALSE
    MaxPackets <- LivePackets
PROPERTIES
    EndAnnounced
