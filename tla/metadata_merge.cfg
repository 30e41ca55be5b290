SPECIFICATION Spec
CONSTANTS
    LastDay = 4
    Merges <- MCMerges
INVARIANTS MappingsAreUnion MergedInOrder ErrorsAreReal FieldsAreCombined
CHECK_DEADLOCK FALSE
