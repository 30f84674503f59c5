\* A position is closed and opened again between two runs.
SPECIFICATION Spec
CONSTANTS
    Runs = {r1, r2}
    Cleanups = {}
    Symbols = {s1}
    Prices = {1, 2}
    None = None
    BrokerRaises = FALSE
    CommitsMayFail = FALSE
INVARIANT
    ExitAfterRealDrawdown
