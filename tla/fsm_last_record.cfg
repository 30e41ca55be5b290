SPECIFICATION Spec
CONSTANTS
    RecSize <- MCRecSize
    TS_OUT_LEN = 1
    METADATA_PRELUDE_LEN = 2
    HEADER_LEN = 2
    METADATA_FIXED_LEN = 2
    DEFAULT_BUF_SIZE = 16
    BufferSizes = {16}
    CompatSizes <- MCCompatSizes
    Streams <- MCStreams
    Chunks = {1, 5, 16}
    Limits <- MCLimits
    MaxSetterCalls = 1
INVARIANT LastRecordIsLatest
