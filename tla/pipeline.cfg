SPECIFICATION Spec
CONSTANTS
    Inputs <- MCInputs
    Args <- MCArgs
    Options <- MCOptions
    Updates <- MCUpdates
    MaxUpdates = 1
    BUF_CAPACITY = 1
    WriteSizes = {1, 3}
    MaxLost = 1
INVARIANTS
    FilesReadBack
    FiltersHonoured
    OkMeansWritten
    RowsUnderHeader
    TranscodedExactly
    SymbolsCurrent
    PanicOnlyAfterError
PROPERTIES
    LossEndsCall
    ExistingFileKept
CHECK_DEADLOCK FALSE
