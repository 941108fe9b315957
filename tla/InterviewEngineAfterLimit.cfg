SPECIFICATION Spec
CONSTANTS
    MaxQuestions = 4
    MaxDepth = 1
    Batch = 2
    Malformed = FALSE
CHECK_DEADLOCK FALSE
PROPERTY OnlyRequiredAfterLimit
