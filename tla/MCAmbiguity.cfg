SPECIFICATION Spec
CONSTANT
    Programs <- MCPrograms
INVARIANTS
    NothingSwept
    ConfusedIffDiagnosed
    IsolatedOnce
    InOrder
