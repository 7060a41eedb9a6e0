SPECIFICATION Spec
CONSTANTS
    Server = {s1, s2, s3}
    Value = {v}
    NoOp = NoOp
    Nil = Nil
    MaxTerm = 4
    MaxElections = 4
    MaxLog = 0
    MaxRestarts = 0
    MaxVoteReqs = 4
    MaxCalls = 1
    MaxLate = 0
    RacyStepDown = TRUE
    Scenarios <- AnyScenario
SYMMETRY Symmetry
INVARIANTS
    ElectionSafety
CHECK_DEADLOCK FALSE
