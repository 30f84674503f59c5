\* One request at a time over an adapter whose gateway comes, goes and lists
\* other accounts between any two calls; the limits, thresholds and margins
\* are the defaults of the code (percentages of the risk rules in tenths).
SPECIFICATION Spec
CONSTANTS
    real = real
    simulated = simulated
    a = a
    b = b
    None = None
    Accounts = {real, simulated}
    EnvAccounts = {simulated}
    Listings <- MCListings
    Books <- MCBooks
    Orders <- MCOrders
    LastPrice <- MCLastPrice
    BarsClose <- MCBarsClose
    CachedClose <- MCCachedClose
    Positions <- MCPositions
    Observations <- MCObservations
    Prices <- MCPrices
    Returns <- MCReturns
    MaxPosition = 50
    MaxRisk = 5
    DailyLossLimit = 20
    SoftDrawdown = 50
    HardDrawdown = 80
    MaxQuoteAge = 10
    Universe = {}
    AllowedTypes = {"LIMIT"}
    ReviewAt = 8
    StopAddingAt = 15
    ReduceAt = 20
    ExitAt = 30
    DrawdownExit = 35
    TailAt = 100
    TrimGains = {25, 50, 75}
    BuyScore = 75
    WatchScore = 65
    MinBars = 220
    Margin20 = 3
    Margin60 = 5
    MinVolume = 50
    MaxAbove20 = 15
INVARIANTS
    TypeOK
    BeyondMaximumRefused
    ShrinkingNeverHurts
    VerdictIsOfOneAccount
    StaleCloseOnlyAfterFailedRead
    DefenceMonotone
    NothingDueWhenHeld
    StrengthNeverHurts
    ProvidersAgree
