SPECIFICATION MiddleSpec
CONSTANTS
    Context = {0, 1, 2}
    Addr = {0}
    Programs <- LostPrograms
    ReturnsAfterJoin = FALSE
INVARIANTS
    AllDelivered
\* The middle layer stops when there are no more events.
CHECK_DEADLOCK FALSE
