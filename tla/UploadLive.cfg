SPECIFICATION UploadSpec
CONSTANTS
    Counts = {0, 1, 2}
    TokenCounts = {0, 1, 2}
    Sizes = {0, 2, 3}
    FrameCounts = {0, 1, 2}
    BoxIds = {1}
    ItemsPerChunk = 1
    MAX_DATA_CHUNK_LEN = 2
    MAX_TX_DATA_PART_LEN = 4
    TOKEN_MAX_COUNT = 2
    Promises = {"finish_box", "announced_tree"}
PROPERTIES
    UploadCompletes
CHECK_DEADLOCK FALSE
