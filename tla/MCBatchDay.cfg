SPECIFICATION FairSpec
CONSTANTS
    p1 = p1
    p2 = p2
    Plants = {p1, p2}
    Dates = {today}
    Today = today
    Null = null
    DefaultRate = 1
    FullPower = 1
    TickHours = 1
    MaxHours = 3
    Configs <- MCConfigs
    Reissued <- MCReissued
    Retries = 1
    Energies = {3, 7}
    MaxAlerts = 1
    MaxChanges = 1
    MaxRuns = 2
    MaxMishaps = 1
INVARIANTS
    ReferenceIsOneFeed
    ValidationImpliesAccepted
    RunConverges
    GoodDayIsReconciled
    CheckFailureIsReported
    FeedIsWhole
PROPERTIES
    RunEnds
CHECK_DEADLOCK FALSE
