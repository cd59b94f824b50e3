CONSTANTS
    Id = {i1, i2}
    Browser = {b1}
    Draft = Draft
    Same = Same
    InOrder = TRUE
    MaxEdits = 3
    MaxFaults = 2
SPECIFICATION FairSpec
INVARIANTS TypeOK DeltaSuffices BannerIsTheOnlySignal PostedInOrder
PROPERTIES Converges UploadsEnd
CHECK_DEADLOCK FALSE
