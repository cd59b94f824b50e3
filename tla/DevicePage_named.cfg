SPECIFICATION Spec
CONSTANTS
    c1 = c1  c2 = c2  k1 = k1  k2 = k2  k3 = k3
    Cards = {c1, c2}
    Names = {"Alice"}
    Keys = {k1, k2, k3}
    None = None
SYMMETRY Alike
INVARIANTS NamedIsGranted
CHECK_DEADLOCK FALSE
