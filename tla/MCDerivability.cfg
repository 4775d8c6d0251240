SPECIFICATION Spec
CONSTANTS
    NumNonterms = 4
    Grammars <- MCGrammars
INVARIANTS
    Sound
    QuietIsSettled
    CyclicThroughOthers
PROPERTIES
    Terminates
CHECK_DEADLOCK FALSE
