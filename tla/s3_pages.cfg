SPECIFICATION Spec
CONSTANTS
    every = every
    other = other
    Procs = {every, other}
    Maintainers = {every, other}
    Expiry = 1
    PageSize = 2
    MaxTime = 8
    MaxFaults = 1
SYMMETRY ProcSymmetry
INVARIANTS
    TypeOK
PROPERTIES
    MaintainDeletesOld
    KeepsPromise
\* The clock is bounded.
CHECK_DEADLOCK FALSE
