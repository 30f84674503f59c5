\* Three overlapping requests on two rows of one pair, failing commits, an
\* adapter that may refuse, both values of the read-only flag, and restarts
\* at any point.
SPECIFICATION Spec
CONSTANTS
    o1 = o1
    o2 = o2
    k1 = k1
    k2 = k2
    Requests = {r1, r2, r3}
    Orders = {o1, o2}
    Keys = {k1}
    KeyOf <- SamePair
    None = None
    AdapterRefuses = TRUE
    CommitsMayFail = TRUE
SYMMETRY Symmetry
INVARIANTS
    IInv
    NoDuplicateOpenOrder
    VerdictMatchesStatus
    RecordsTruthful
PROPERTIES
    ImplementsBrokerBook
