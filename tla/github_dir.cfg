SPECIFICATION Spec
CONSTANTS
    every = every
    other = other
    Procs = {every}
    Maintainers = {every}
    DirSet = TRUE
    Expiry = 1
    MaxTime = 6
    MaxFaults = 0
INVARIANTS
    ListsTheFiles
\* The clock is bounded.
CHECK_DEADLOCK FALSE
