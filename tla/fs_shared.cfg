SPECIFICATION Spec
CONSTANTS
    every = every
    other = other
    Procs = {every, other}
    Maintainers = {every, other}
    Expiry = 1
    MaxTime = 5
    MaxAborts = 1
SYMMETRY ProcSymmetry
INVARIANTS
    TypeOK
    ReaderFindsWhole
    TornOnlyByCut
PROPERTIES
    DeletesOnlyExpired
\* The clock is bounded.
CHECK_DEADLOCK FALSE
