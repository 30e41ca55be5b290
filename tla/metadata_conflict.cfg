SPECIFICATION Spec
CONSTANTS
    LastDay = 4
    Merges <- MCMerges
CHECK_DEADLOCK FALSE
INVARIANT ConflictsAreErrors
