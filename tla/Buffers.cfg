SPECIFICATION FairSpec
CONSTANTS
    Main = Main
    t1 = t1
    Thread = {Main, t1}
    MaxQueued = 2
    Limits = {2, 7}
    Faults = TRUE
    Silence = FALSE
INVARIANTS
    TypeOK
    BuffersInOrder
    WaiterFindsBuffer
    BuffersConserved
    EndsComplete
PROPERTIES
    TraceEnds
\* The program and the writer end.
CHECK_DEADLOCK FALSE
