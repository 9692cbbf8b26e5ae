SPECIFICATION Spec
CONSTANTS
    p1 = p1
    p2 = p2
    Proc = {p1, p2}
    MEM = MEM
    NoProc = NoProc
    Addr <- BlocksNext
    BlockSize = 64
    NumSets = 1
    NumLines = 1
    TableSize = 1
    Interconnect = "crossbar"
    limited_pointers = 0
    UINT_MAX = 7
    MaxMemops = 4
    do_mig = TRUE
SYMMETRY ProcSymmetry
INVARIANTS
    HitKeepsLine
\* The trace is used up in the end.
CHECK_DEADLOCK FALSE
