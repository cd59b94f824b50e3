CONSTANTS
    u1 = u1
    u2 = u2
    k1 = k1
    k2 = k2
    k3 = k3
    a1 = a1
    a2 = a2
    a3 = a3
    a4 = a4
    p1 = p1
    p2 = p2
    b1 = b1
    None = None
    Uid <- MCUid
    Key <- MCKey
    Access <- MCAccess
    UidOf <- MCUidOf
    KeyOf <- RowPerKey
    Push <- MCPush
    Beat <- MCBeat
    OfflineBoot = TRUE
    MaxEdits = 4
    MaxInbox = 1
    MaxFaults = 1
SPECIFICATION Spec
SYMMETRY PushSymmetry
INVARIANTS TypeOK NeverGrantedNeverListed
PROPERTY GainsOnlyFromFlash
