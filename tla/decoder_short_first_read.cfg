SPECIFICATION DSpec
CONSTANTS
    RecSize <- MCRecSize
    TS_OUT_LEN = 1
    METADATA_PRELUDE_LEN = 2
    HEADER_LEN = 2
    METADATA_FIXED_LEN = 2
    DEFAULT_BUF_SIZE = 16
    BufferSizes = {16}
    CompatSizes <- MCCompatSizes
    Streams <- MCStreams
    Chunks = {1, 2, 3, 5, 8, 13, 16}
    Limits = {}
    MaxSetterCalls = 0
    Flavours = {"sync", "async"}
    MinFirstRead = 1
    MaxFaults = 2
INVARIANT MetadataDecoderNeverPanics
