SPECIFICATION FairSpec
CONSTANTS
    Graphs <- WholeGraphs
    NumTasks = 4
    NumContexts = 2
    NumActions = 2
    QUEUE_SIZE = 2
    roi = FALSE
    Limits = {0, 2}
INVARIANTS
    TypeOK
    PredecessorsFirst
    ProgramOrder
    NothingLost
    LimitKept
PROPERTIES
    ReplayEnds
\* The replay stops when everything is done.
CHECK_DEADLOCK FALSE
