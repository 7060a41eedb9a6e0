SPECIFICATION Spec
CONSTANTS
    Value = {a, b}
    None = None
    Base = 3
    Width = 2
    MaxIndex = 8
    MaxBatch = 2
INVARIANT StoresAgree
PROPERTY ImplementsSequence
