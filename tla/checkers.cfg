SPECIFICATION Spec
CONSTANTS
    MaxAttempts = 3
    MaxRTT = 3
INVARIANTS
    TypeOK
    OneVerdict
    MedianDecides
    PageAgrees
    NothingLeftOpen
