\* Two batches and a reading session over midnights, failures and restarts.
SPECIFICATION Spec
CONSTANTS
    b1 = b1
    b2 = b2
    r1 = r1
    SPY = SPY
    AAPL = AAPL
    Batches = {b1, b2}
    Readers = {r1}
    Symbols = {SPY, AAPL}
    Asked <- AskedMC
    None = None
    Horizon = 3
    Lookback = 2
    StaleAfter = 1
CHECK_DEADLOCK FALSE
INVARIANTS
    IInv
    ResultHasNoHoles
    ErrorIsRecent
PROPERTIES
    BatchKeepsItsBars
    ImplementsBarStore
