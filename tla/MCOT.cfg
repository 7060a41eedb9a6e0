\* The two edits are made and the run ends.
CHECK_DEADLOCK FALSE
SPECIFICATION Spec
CONSTANTS
    Texts <- MCTexts
    Inserts <- MCInserts
    Drafts <- MCDrafts
INVARIANTS
    Convergence
    IntentPreserved
    ResultsValid
    ComposeLaw
    DiffMinimal
