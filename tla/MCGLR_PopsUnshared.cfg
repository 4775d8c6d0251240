SPECIFICATION Spec
CONSTANTS
    MaxLen = 3
    MaxLenCyclic = 3
    Languages = {"cycle"}
    Tables <- MCTables
    Inputs <- MCInputs
    MiniLR = {TRUE}
    Keep = {{TRUE}}
INVARIANTS
    MiniPopsUnshared
