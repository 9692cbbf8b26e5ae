SPECIFICATION FairSpec
CONSTANTS
    Graphs <- RegionGraphs
    NumTasks = 4
    NumContexts = 2
    NumActions = 1
    QUEUE_SIZE = 2
    roi = TRUE
    Limits = {0}
PROPERTIES
    ReplayEnds
\* The replay stops when everything is done.
CHECK_DEADLOCK FALSE
