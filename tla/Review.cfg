SPECIFICATION Spec
CONSTANTS
    Half = 4
    BYTE = 128
    TOKEN_MAX_COUNT = 2
    N_UX_PAIRS = 14
    Hosts <- MCHosts
INVARIANTS
    TypeOK
    SumsExact
    ScreensTell
    HiddenOutputsAreOwn
