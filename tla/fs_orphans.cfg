SPECIFICATION Spec
CONSTANTS
    every = every
    other = other
    Procs = {every}
    Maintainers = {every}
    Expiry = 1
    MaxTime = 8
    MaxAborts = 1
PROPERTIES
    MaintainDeletesOld
\* The clock is bounded.
CHECK_DEADLOCK FALSE
