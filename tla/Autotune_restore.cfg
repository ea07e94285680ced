SPECIFICATION Spec
CONSTANTS
    Combinations = 2
    Expand = FALSE
INVARIANT FailedRunRestores
