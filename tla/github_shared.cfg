SPECIFICATION Spec
CONSTANTS
    every = every
    other = other
    Procs = {every, other}
    Maintainers = {every, other}
    DirSet = FALSE
    Expiry = 1
    MaxTime = 6
    MaxFaults = 1
SYMMETRY ProcSymmetry
INVARIANTS
    TypeOK
    ListsTheFiles
PROPERTIES
    NoLostUpdate
    DeletesOnlyExpired
\* The clock is bounded.
CHECK_DEADLOCK FALSE
