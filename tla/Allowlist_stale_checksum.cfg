CONSTANTS
    u1 = u1
    u2 = u2
    None = None
    Uid <- MCUid
    OfflineBoot = TRUE
SPECIFICATION ListSpec
INVARIANT ChecksumHonest
