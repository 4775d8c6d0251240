SPECIFICATION Spec
CONSTANTS
    NumNonterms = 5
    Grammars <- SelfGrammars
INVARIANTS
    CyclicAsDocumented
CHECK_DEADLOCK FALSE
