SPECIFICATION Spec
CONSTANTS
    MaxLen = 3
    MaxLenCyclic = 3
    Languages = {"unsettled"}
    Tables <- MCTables
    Inputs <- MCInputs
    MiniLR = {TRUE}
    Keep = {{TRUE}}
INVARIANTS
    NoYieldThenMerge
