CONSTANTS
    u1 = u1
    u2 = u2
    k1 = k1
    k2 = k2
    k3 = k3
    a1 = a1
    a2 = a2
    a3 = a3
    a4 = a4
    p1 = p1
    p2 = p2
    b1 = b1
    None = None
    Uid <- MCUid
    Key <- ThreeKeys
    Access <- FourAccess
    UidOf <- SameCardTwice
    KeyOf <- TwoRowsOneKey
    Push <- MCPush
    Beat <- MCBeat
    OfflineBoot = FALSE
    MaxEdits = 3
    MaxInbox = 1
    MaxFaults = 1
SPECIFICATION FairSpec
INVARIANT CopiesAgree
PROPERTIES Settles KeepsPromise
