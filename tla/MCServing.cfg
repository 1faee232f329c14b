SPECIFICATION FairSpec
CONSTANTS
    p1 = p1
    p2 = p2
    Plants = {p1, p2}
    Active = {p1}
    Null = null
    MaxConn = 2
    StaleAfter = 0
    Offset = 0
    Speed = 1
    DayLength = 1
    MaxPoints = 2
    Retries = 0
    Late = 1
    MaxNow = 1
    MaxVersions = 2
    MaxCrashes = 1
INVARIANTS
    PoolAccounts
    OneRequestPays
    ReportIsWhole
    ChartInOrder
PROPERTIES
    RequestsAreAnswered
