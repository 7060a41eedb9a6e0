SPECIFICATION FairSpec
CONSTANTS
    Tab = {t1, t2}
    Nobody = Nobody
    System = System
    ClientIds <- MCClientIds
    QueueCap = 10
    Scenarios <- Retrying
INVARIANTS
    SubmissionOnce
PROPERTIES
    Acknowledged
CHECK_DEADLOCK FALSE
