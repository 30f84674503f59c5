\* An approval acts on a row that was cancelled after it was read.
SPECIFICATION Spec
CONSTANTS
    o1 = o1
    o2 = o2
    k1 = k1
    k2 = k2
    Requests = {r1, r2, r3}
    Orders = {o1, o2}
    Keys = {k1}
    KeyOf <- SamePair
    None = None
    AdapterRefuses = FALSE
    CommitsMayFail = FALSE
SYMMETRY Symmetry
PROPERTY
    PlacedOnlyWhilePending
