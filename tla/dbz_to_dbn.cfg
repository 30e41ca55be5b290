SPECIFICATION Spec
CONSTANTS
    Inputs <- MCInputs
    Args <- MCArgs
    Options <- MCOptions
    Updates <- MCUpdates
    MaxUpdates = 0
    BUF_CAPACITY = 1
    WriteSizes = {1, 3}
    MaxLost = 1
INVARIANT DbzFilesConvert
CHECK_DEADLOCK FALSE
