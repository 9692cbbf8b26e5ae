SPECIFICATION Spec
CONSTANTS
    p1 = p1
    p2 = p2
    p3 = p3
    Proc = {p1, p2, p3}
    MEM = MEM
    NoProc = NoProc
    Addr <- BlocksTwo
    BlockSize = 64
    NumSets = 1
    NumLines = 1
    TableSize = 2
    Interconnect = "ring"
    limited_pointers = 1
    UINT_MAX = 7
    MaxMemops = 4
    do_mig = TRUE
SYMMETRY ProcSymmetry
INVARIANTS
    TypeOK
    SingleWriter
    OneSupplier
    MigrationMovesTheBlock
    AcksExact
    TableOwnership
    DirectoryCovers
    AssertsHold
PROPERTIES
    ImplementsCoherentBlocks
\* The trace is used up in the end.
CHECK_DEADLOCK FALSE
