SPECIFICATION FairSpec
CONSTANTS
    a1 = a1
    a2 = a2
    p1 = p1
    p2 = p2
    p3 = p3
    None = None
    Addresses <- TheAddresses
    Associations <- TheAssociations
    MaxPeers = 2
    RawItems = 2
    Policies = {"DropNewest", "DropOldest"}
    MaxDatagrams = 3
INVARIANTS
    TypeOK
    PeersBounded
    OpenIsListed
    ListedAtHome
    DatagramsAccounted
    NothingLeftBehind
PROPERTIES
    AllReleased
CHECK_DEADLOCK FALSE
