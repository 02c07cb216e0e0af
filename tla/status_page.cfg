SPECIFICATION PageSpec
CONSTANTS
    NumFiles = 3
    NumPublishers = 2
    NumEndpoints = 2
    NumBatches = 2
    MaxFailures = 1
    PageSize = 2
    Timeframe = 3
    MaxLate = 3
    Pauses <- Long
    Delays <- Short
    Histories <- ThreeFiles
    Timings <- Rounds
    Messages <- LateMessage
    PointedAt = {1, 3}
INVARIANTS
    TypeOK
    PageIsCurrent
    TimelineIsComplete
    ChartsFaithful
    EventsDrawn

    
\* The files are all published and the bounded downloads are over.
CHECK_DEADLOCK FALSE
