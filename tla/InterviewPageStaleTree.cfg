\* Two sessions, one after the other, in one browser.
CONSTANTS
    LastTalk = 2
    LastQuestion = 2
    MaxSubmissions = 1
    MaxLoads = 1
    MaxSeq = 2
SPECIFICATION TalkSpec
INVARIANT TreeOfThisSession
CHECK_DEADLOCK FALSE
