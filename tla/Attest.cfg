SPECIFICATION Spec
CONSTANTS
    TxIds = {1}
    TokenIds <- MCTokenIds
    Boxes <- MCBoxes
    FRAME_MAX_TOKENS_COUNT = 2
    FRAME_TOKEN_VALUE_PAIR_SIZE = 80
    TOKEN_MAX_COUNT = 4
    MaxInputs = 2
    MaxStarts = 2
    MaxHeld = 3
INVARIANTS
    TypeOK
    FramesMakeUpTheBox
    WholeUnlessIdsCoincide
PROPERTY
    CountsAttestedPieces
