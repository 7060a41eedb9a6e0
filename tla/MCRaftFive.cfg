SPECIFICATION Spec
CONSTANTS
    n = n
    l = l
    p1 = p1
    p2 = p2
    q = q
    Server = {n, l, p1, p2, q}
    Value = {v}
    NoOp = NoOp
    Nil = Nil
    MaxTerm = 5
    MaxElections = 5
    MaxLog = 2
    MaxRestarts = 0
    MaxVoteReqs = 20
    MaxCalls = 2
    MaxLate = 0
    RacyStepDown = FALSE
    Scenarios <- AnyScenario
ACTION_CONSTRAINT Story
INVARIANTS
    LeaderCompleteness
CHECK_DEADLOCK FALSE
