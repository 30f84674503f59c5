\* MoomooBrokerAdapter returns no positions when OpenD is unreachable.
SPECIFICATION Spec
CONSTANTS
    Runs = {r1}
    Cleanups = {d1}
    Symbols = {s1}
    Prices = {1}
    None = None
    BrokerRaises = FALSE
    CommitsMayFail = FALSE
PROPERTY
    CleanupSparesHoldings
