SPECIFICATION Spec
CONSTANTS
    MaxQuestions = 5
    MaxDepth = 1
    Batch = 2
    Malformed = TRUE
CHECK_DEADLOCK FALSE
INVARIANT TypeOK
INVARIANT TreeWellFormed
INVARIANT DepthEarned
INVARIANT ExpandedOnce
INVARIANT RequiredFirst
INVARIANT CompletionJustified
PROPERTY DialogueImplemented
