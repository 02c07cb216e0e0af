SPECIFICATION Spec
CONSTANTS
    every = every
    other = other
    Procs = {every, other}
    Maintainers = {every, other}
    Expiry = 2
    MaxTime = 8
    MaxFaults = 1
SYMMETRY ProcSymmetry
INVARIANTS
    TypeOK
    ReaderFindsStored
PROPERTIES
    KeepsPromise
\* The clock is bounded.
CHECK_DEADLOCK FALSE
