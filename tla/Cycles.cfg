SPECIFICATION Spec
CONSTANTS
    Chosen = {"bus", "crossbar", "ring", "mesh", "torus", "omega"}
INVARIANTS
    BusCountsAcks
PROPERTIES
    SimulationEnds
\* The simulation is over in the end.
CHECK_DEADLOCK FALSE
