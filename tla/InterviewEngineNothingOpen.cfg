SPECIFICATION Spec
CONSTANTS
    MaxQuestions = 4
    MaxDepth = 1
    Batch = 2
    Malformed = TRUE
CHECK_DEADLOCK FALSE
INVARIANT OverWhenNothingIsOpen
