\* Any three overlapping requests, of any kind, with universe changes, database
\* failures and restarts at any point; a page of two rows for two symbols.
SPECIFICATION Spec
CONSTANTS
    a = a
    b = b
    spy = spy
    default = default
    other = other
    None = None
    Requests = {r1, r2, r3}
    Symbols = {a, b, spy}
    Universes = {{a}, {a, b}}
    Asked = {a}
    Benchmark = spy
    Failing = {b, spy}
    Limit = 2
    ListNames = {default, other}
    Default = default
SYMMETRY Symmetry
INVARIANTS
    IInv
    NeverOlderRun
    ListingCurrent
    DuplicatesNeedOverlap
PROPERTIES
    CleanUpKeepsReal
    ImplementsSignalTable
