\* Two overlapping runs, failing commits and crashes.
SPECIFICATION Spec
CONSTANTS
    Runs = {r1, r2}
    Cleanups = {}
    Symbols = {s1, s2}
    Prices = {1, 2}
    None = None
    BrokerRaises = FALSE
    CommitsMayFail = TRUE
SYMMETRY Symmetry
INVARIANTS
    IInv
    HighCoversSignals
    BatchAtomic
PROPERTIES
    HighNeverFalls
    ImplementsSignalTable
