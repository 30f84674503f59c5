\* Two overlapping saves in one server run.
SPECIFICATION Spec
CONSTANTS
    Saves = {p1, p2}
    Deletes = {}
    Lists = {A, B, C}
    None = None
    DatabaseMayFail = TRUE
    FilesMayFail = FALSE
SYMMETRY Symmetry
INVARIANT
    RefusedLeavesNoTrace
