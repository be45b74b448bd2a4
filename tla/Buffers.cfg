SPECIFICATION Spec
CONSTANTS
    Size = 4
    SIZE_T = 64
    GROUP = 4
    WORD = 32
    Rounds = 3
    NARROW = 8
    Widths = {1, 2}
    Numbers <- MCNumbers
    Chunks <- MCChunks
    Fills = {0}
VIEW Buffer
INVARIANTS
    TypeOK
    NumbersReadBack
PROPERTY
    ActsAsQueue
