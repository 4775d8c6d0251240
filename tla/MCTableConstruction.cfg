SPECIFICATION Spec
CONSTANTS
    NumStates = 3
    NumTerms = 3
    NumNonterms = 3
    MaxN = 5
    NoNT = NoNT
    Configs <- MCConfigs
    Inputs <- MCInputs
    Cells <- MCCells
    Graphs <- MCGraphs
INVARIANTS
    ActionsExact
    OrderIndependent
    NoSilentError
    Proper
    LowestFree
    TablesAsDeclared
    DecodesBack
    RefusedOnlyIfTooBig
