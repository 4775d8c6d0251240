SPECIFICATION Spec
CONSTANTS
    MaxLen = 4
    MaxLenCyclic = 3
    Languages = {"sum", "pairs", "palindrome", "chain", "dead", "vanish", "hidden", "cycle"}
    Tables <- MCTables
    Inputs <- MCInputs
    MiniLR = {TRUE, FALSE}
    Keep = {{TRUE}, {TRUE, FALSE}}
INVARIANTS
    UniqueState
    RefCountExact
    NothingDangles
    DepthExact
    PopsUnsharedUnlessCycle
    NoYieldThenMerge
    EveryPathOnce
    OneOwner
    NoValueLeaks
    ForestComplete
