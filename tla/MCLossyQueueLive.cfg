SPECIFICATION FairSpec
CONSTANTS
    Senders = {s1, s2}
    FirstSender = s1
    Free = Free
    MaxItems = 2
    MaxBytes = 2
    Sizes = {1}
    Policies <- MCPolicies
    MaxCalls = 4
PROPERTIES
    ReceiverServed
    SenderServed
