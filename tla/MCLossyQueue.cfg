SPECIFICATION Spec
CONSTANTS
    Senders = {s1, s2}
    FirstSender = s1
    Free = Free
    MaxItems = 2
    MaxBytes = 3
    Sizes <- MCSizes
    Policies <- MCPolicies
    MaxCalls = 4
INVARIANTS
    TypeOK
    WithinLimits
    ByteAccounting
    FifoOrder
    NoStrandedReceiver
    NoStrandedSender
    EndIsFinal
PROPERTIES
    KeepsQueue
