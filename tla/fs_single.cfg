SPECIFICATION Spec
CONSTANTS
    every = every
    other = other
    Procs = {every}
    Maintainers = {every}
    Expiry = 2
    MaxTime = 8
    MaxAborts = 0
INVARIANTS
    IndexIsDirectory
PROPERTIES
    MaintainDeletesOld
    KeepsPromise
\* The clock is bounded.
CHECK_DEADLOCK FALSE
