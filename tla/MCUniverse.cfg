\* Saves and deletes that overlap, fail and are cut off in every order.
SPECIFICATION Spec
CONSTANTS
    Saves = {p1, p2, p3}
    Deletes = {d1, d2}
    Lists = {A, B}
    None = None
    DatabaseMayFail = TRUE
    FilesMayFail = TRUE
SYMMETRY Symmetry
INVARIANTS
    IInv
    MemoryFollowsFile
    UniverseNeverEmpty
    AllOrNothing
