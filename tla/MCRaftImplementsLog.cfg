SPECIFICATION LogSpec
CONSTANTS
    Server = {s1, s2, s3}
    Value = {v}
    NoOp = NoOp
    Nil = Nil
    MaxTerm = 3
    MaxElections = 3
    MaxLog = 0
    MaxRestarts = 1
    MaxVoteReqs = 2
    MaxCalls = 1
    MaxLate = 0
    RacyStepDown = FALSE
    Scenarios <- LeaderScenarios
ACTION_CONSTRAINT Bounded
SYMMETRY Symmetry
VIEW ChosenView
INVARIANTS
    ElectionSafety
    EntriesFromLeaders
    LeaderCompleteness
    OnlyHoldersElectable
PROPERTIES
    ImplementsLog
CHECK_DEADLOCK FALSE
