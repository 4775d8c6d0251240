SPECIFICATION Spec
CONSTANTS
    NumNonterms = 5
    Grammars <- LateEmptyGrammars
INVARIANTS
    Settled
CHECK_DEADLOCK FALSE
