SPECIFICATION Spec
CONSTANTS
    Data <- MCData
    KeyOf <- MCKeyOf
    HashFns <- MCHashFns
    DefaultSize = 3
    InitSizes = {1, 3}
    NULL = NULL
INVARIANTS
    CountExact
    SearchesEnd
    EntriesFound
PROPERTIES
    ImplementsMap
