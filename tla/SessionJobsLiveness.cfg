SPECIFICATION FairSpec
CONSTANTS
    Jobs = {j1, j2}
    Tasks = {t1, t2}
    Plans = {p1}
    PlanSourced = {FALSE}
    LastStage = 6
    MaxArtifacts = 1
    None = None
CHECK_DEADLOCK FALSE
PROPERTY JobsSettle
PROPERTY AnalysisEnds
PROPERTY ActiveJobReleased
PROPERTY LockReleased
