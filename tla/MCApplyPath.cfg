SPECIFICATION FairSpec
CONSTANTS
    Command = {c1, c2}
    NoOp = NoOp
    Other = Other
    QueueCap = 1
    MaxLog = 2
    MaxElections = 2
    MaxCalls = 1
INVARIANTS
    TypeOK
    AppliedOnceInOrder
    PendingOwn
    RefusedNeverProposed
PROPERTIES
    CommittedGetsApplied
    EveryCallAnswered
    LostLeadershipReported
CHECK_DEADLOCK FALSE
