SPECIFICATION Spec
CONSTANTS
    RecSize <- MCRecSize
    TS_OUT_LEN = 1
    DAY = 2
    IidOf <- MCIidOf
    Metas <- MCMetas
    Dates = {1, 2, 3}
    Records <- MCRecords
    MaxLive = 2
INVARIANTS TsCoversIntervals MapsAgree RefusedOutsideRange
CHECK_DEADLOCK FALSE
