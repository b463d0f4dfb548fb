SPECIFICATION FairSpec
CONSTANTS
    c1 = c1
    c2 = c2
    c3 = c3
    NoConnection = NoConnection
    Connections <- TwoConnections
    Datagram = FALSE
    ReceiveCapacity = 1
    SetupLimit = 1
    Budgets = {2}
    Policies = {"DropNewest"}
    Panics = TRUE
    MaxPackets <- OnePacket
    MaxAttempts = 1
PROPERTIES
    KeepsLifecycle
    RequestsAnswered
