SPECIFICATION Spec
CONSTANT Analyses <- MCAnalyses
CHECK_DEADLOCK FALSE
INVARIANTS
    OneOwner
    UniqueCores
    DoneIsPropagated
    IsMergedLR1
    GivesTheTables
PROPERTY
    Terminates
