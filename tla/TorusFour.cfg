SPECIFICATION FairSpec
CONSTANTS
    Interconnect = "torus"
    nproc = 4
    numa = FALSE
    unidirectional = FALSE
    BUS_DLY = 1
    Addr = {0}
    MaxMessages = 1
PROPERTIES
    EveryMessageArrives
\* The network is at rest when every message has arrived.
CHECK_DEADLOCK FALSE
