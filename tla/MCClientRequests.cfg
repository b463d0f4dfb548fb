SPECIFICATION Spec
CONSTANTS
    c1 = c1
    c2 = c2
    c3 = c3
    NoConnection = NoConnection
    Connections <- MCConnections
    Datagram = TRUE
    ReceiveCapacity = 1
    SetupLimit = 2
    Budgets = {2}
    Policies = {"DropNewest"}
    Panics = FALSE
    MaxPackets <- NoPackets
    MaxAttempts = 2
SYMMETRY Interchangeable
INVARIANTS
    AnsweredOnce
    CurrentIsLatest
