SPECIFICATION FairSpec
CONSTANTS
    p1 = p1
    p2 = p2
    Plants = {p1, p2}
    Active = {p1}
    Null = null
    MaxConn = 3
    StaleAfter = 1
    Offset = 3
    Speed = 1
    DayLength = 2
    MaxPoints = 2
    Retries = 1
    Late = 1
    MaxNow = 3
    MaxVersions = 1
    MaxCrashes = 0
INVARIANTS
    LiveMeansRecent
