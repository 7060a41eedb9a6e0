SPECIFICATION Spec
CONSTANTS
    Tab = {t1, t2}
    Nobody = Nobody
    System = System
    ClientIds <- MCClientIds
    QueueCap = 10
    Scenarios <- RaceFree
SYMMETRY Symmetry
INVARIANTS
    ClientInStep
    EditsSurvive
    CommittedTakesEffect
    Converged
PROPERTIES
    BroadcastShown
CHECK_DEADLOCK FALSE
