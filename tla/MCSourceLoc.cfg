SPECIFICATION Spec
CONSTANTS
    UCHAR_MAX = 2
    MARKER_PERIOD = 2
    MaxDirectives = 2
    Settings <- MCSettings
    Directives <- MCDirectives
    PPFiles = {"pp"}
INVARIANTS
    LookupsExact
    StaysInFile
    OneFilePerLoc
PROPERTY
    EarlierKeepMeaning
