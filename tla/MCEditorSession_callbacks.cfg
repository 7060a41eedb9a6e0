SPECIFICATION Spec
CONSTANTS
    Tab = {t1, t2}
    Nobody = Nobody
    System = System
    ClientIds <- MCClientIds
    QueueCap = 10
    Scenarios <- RaceCallback
SYMMETRY Symmetry
INVARIANTS
    InOrder
CHECK_DEADLOCK FALSE
