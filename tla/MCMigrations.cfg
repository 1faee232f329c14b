SPECIFICATION Spec
CONSTANTS
    r1 = r1
    r2 = r2
    Runners = {r1, r2}
    Contents = {sql, edited, broken}
    Broken = broken
    Null = null
    MaxFiles = 3
    MaxEdits = 1
    MaxResets = 1
    MaxRuns = 3
    MaxKills = 1
SYMMETRY MCRunners
INVARIANTS
    SchemaIsSound
    SuccessMeansCurrent
CHECK_DEADLOCK FALSE
