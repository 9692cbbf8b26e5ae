SPECIFICATION Spec
CONSTANTS
    Chosen = {"long ring"}
PROPERTIES
    SimulationEnds
\* The simulation would be over in the end.
CHECK_DEADLOCK FALSE
