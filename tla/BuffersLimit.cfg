SPECIFICATION Spec
CONSTANTS
    Main = Main
    t1 = t1
    Thread = {Main, t1}
    MaxQueued = 2
    Limits = {2}
    Faults = FALSE
    Silence = FALSE
INVARIANTS
    WriterSurvivesLimit
\* The program and the writer end.
CHECK_DEADLOCK FALSE
