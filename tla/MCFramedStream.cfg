\* Three packets over every length codec, with and without codec state.
CONSTANTS
    Base = 4
    XorTable <- MCXor
    Packets <- MCPackets
    Encoding <- MCEncoding
    Limits = {1}
    NoLimit = NoLimit
    MaxPackets = 3
    MaxChanges = 1
SPECIFICATION StreamSpec
INVARIANTS
    ReceivedIsPrefix
PROPERTIES
    NoAllocationPastLimit
CHECK_DEADLOCK FALSE
