SPECIFICATION PageSpec
CONSTANTS
    NumFiles = 3
    NumPublishers = 1
    NumEndpoints = 2
    NumBatches = 2
    MaxFailures = 0
    PageSize = 2
    Timeframe = 4
    MaxLate = 0
    Pauses <- Short
    Delays <- Short
    Histories <- Quiet
    Timings <- LongPause
    Messages = {}
    PointedAt = {}
INVARIANTS
    GapExplained
\* The files are all published and the bounded downloads are over.
CHECK_DEADLOCK FALSE
