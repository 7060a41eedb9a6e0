SPECIFICATION Spec
CONSTANTS
    Server = {s1, s2, s3}
    Value = {v}
    NoOp = NoOp
    Nil = Nil
    MaxTerm = 4
    MaxElections = 4
    MaxLog = 3
    MaxRestarts = 1
    MaxVoteReqs = 2
    MaxCalls = 1
    MaxLate = 1
    RacyStepDown = TRUE
    Scenarios <- RaftScenarios
ACTION_CONSTRAINT Bounded
SYMMETRY Symmetry
VIEW HintView
INVARIANTS
    TypeOK
    FollowerHint
    MatchIndexSound
    LogMatching
PROPERTIES
    VoteIsFinal
    CommittedStable
CHECK_DEADLOCK FALSE
