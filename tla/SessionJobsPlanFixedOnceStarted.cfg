SPECIFICATION Spec
CONSTANTS
    Jobs = {j1, j2}
    Tasks = {t1, t2, t3}
    Plans = {p1, p2}
    PlanSourced = {FALSE}
    LastStage = 4
    MaxArtifacts = 1
    None = None
SYMMETRY Symmetry
CHECK_DEADLOCK FALSE
PROPERTY PlanFixedOnceStarted
