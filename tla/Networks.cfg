SPECIFICATION Spec
INVARIANTS
    TypeOK
    FrontExists
    ExactlyOnce
    EveryHopApproaches
    RoutingAsserts
    CrossbarInOrder
PROPERTIES
    MessagesArrive
\* The network is at rest when every message has arrived.
CHECK_DEADLOCK FALSE
