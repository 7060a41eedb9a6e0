SPECIFICATION Spec
CONSTANTS
    Tab = {t1, t2}
    Nobody = Nobody
    System = System
    ClientIds <- MCClientIds
    QueueCap = 10
    Scenarios <- RaceReconnect
SYMMETRY Symmetry
INVARIANTS
    ClientInStep
CHECK_DEADLOCK FALSE
