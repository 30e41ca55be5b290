SPECIFICATION Spec
CONSTANTS
    MaxTs = 2
    MaxFails = 2
    Inputs <- MCInputs
INVARIANT HeadsAreCurrent
PROPERTIES ImplementsMergedStreams LazyOpening AllMerged
CHECK_DEADLOCK FALSE
