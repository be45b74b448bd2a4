SPECIFICATION Spec
CONSTANTS
    Counts = {0, 1, 2}
    TokenCounts = {0, 1, 2}
    Sizes = {0, 1, 2, 3, 5}
    FrameCounts = {0, 1, 2}
    BoxIds = {0, 1}
    ItemsPerChunk = 1
    MAX_DATA_CHUNK_LEN = 2
    MAX_TX_DATA_PART_LEN = 4
    TOKEN_MAX_COUNT = 2
    Promises = {"announced_tree"}
INVARIANTS
    SignsTransaction
