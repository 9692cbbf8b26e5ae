SPECIFICATION MiddleFairSpec
CONSTANTS
    Context = {0, 1, 2, 3}
    Addr = {0, 1}
    Programs <- MCPrograms
    ReturnsAfterJoin = FALSE
INVARIANTS
    MiddleTypeOK
    AssertsHold
    ProgramOrder
    GlobalOrder
    ForkJoin
    BarrierSeparates
    SyncsOrdered
    IndexComplete
PROPERTIES
    ReleasedIsFinal
    MiddleEnds
\* The middle layer stops when there are no more events.
CHECK_DEADLOCK FALSE
