CONSTANTS
    Id = {i1, i2}
    Browser = {b1}
    Draft = Draft
    Same = Same
    InOrder = FALSE
    MaxEdits = 3
    MaxFaults = 2
SPECIFICATION Spec
SYMMETRY RowSymmetry
INVARIANT BannerIsTheOnlySignal
CHECK_DEADLOCK FALSE
