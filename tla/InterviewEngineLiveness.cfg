SPECIFICATION FairSpec
CONSTANTS
    MaxQuestions = 4
    MaxDepth = 1
    Batch = 2
    Malformed = FALSE
CHECK_DEADLOCK FALSE
INVARIANT QuestionOffered
INVARIANT IntentsDerived
PROPERTY InterviewEnds
