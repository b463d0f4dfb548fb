SPECIFICATION FairSpec
CONSTANTS
    s1 = s1
    s2 = s2
    NoRate = NoRate
    Senders <- MCSenders
    Capacity = 1
    Sizes = {2, 3}
    MaxPayload = 2
    Rates = {1, 2}
    MaxSends = 3
    MaxAge = 2
INVARIANTS
    SendsAccounted
    Paced
PROPERTIES
    HeldPacketLeaves
    DisconnectEnds
CHECK_DEADLOCK FALSE
