\* One server run whose commits succeed: what every request finally leaves.
SPECIFICATION SteadySpec
CONSTANTS
    o1 = o1
    o2 = o2
    k1 = k1
    k2 = k2
    Requests = {r1, r2, r3}
    Orders = {o1, o2}
    Keys = {k1}
    KeyOf <- SamePair
    None = None
    AdapterRefuses = TRUE
    CommitsMayFail = FALSE
INVARIANT
    OpenOrderTraceable
PROPERTY
    SubmissionsAudited
