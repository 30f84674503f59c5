\* Two overlapping runs and a cleanup in one server run; an unreachable
\* broker makes get_positions raise.
SPECIFICATION SteadySpec
CONSTANTS
    Runs = {r1, r2}
    Cleanups = {d1}
    Symbols = {s1}
    Prices = {1}
    None = None
    BrokerRaises = TRUE
    CommitsMayFail = FALSE
PROPERTIES
    CleanupSparesHoldings
    RunsAnswered
    RunsSettle
