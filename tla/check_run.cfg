SPECIFICATION FairSpec
CONSTANTS
    NumCheckers = 4
    NumNotifiers = 2
    DefaultConcurrentChecks = 2
    ConcurrencyValues <- AnyConcurrency
    Hanging <- TwoMayHang
INVARIANTS
    TypeOK
    AtMostConcurrent
    WholeRound
PROPERTIES
    SlotsFrozen
    KeepsPromise
    Returns
    HangIsolated
