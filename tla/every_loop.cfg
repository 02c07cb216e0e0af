SPECIFICATION LoopSpec
CONSTANTS
    NumCheckers = 3
    NumNotifiers = 1
    DefaultConcurrentChecks = 2
    ConcurrencyValues <- OneOrTwo
    Hanging <- NoneHang
INVARIANTS
    OneRoundPerInterval
    StopIsPrompt
    StoresWholeRounds
PROPERTIES
    KeepsGoing
