SPECIFICATION FairSpec
CONSTANTS
    p1 = p1
    p2 = p2
    i1 = i1
    i2 = i2
    Null = null
    YamlTrue = yamltrue
    YamlInf = yamlinf
    DaySeconds = 30
    Interval = 10
    Shape <- MCShape
    Noise <- MCNoisy
    MinPlants = 2
    InverterRange = {1, 2}
    Portfolios <- MCPortfolios
    Schedules <- MCSchedules
    StopAt = 4
    QueueLimit = 2
    Delay = 2
    MaxRuns = 2
    MaxFaults = 2
INVARIANTS
    SeederFollowsSimulator
    QuarantinesNothingItself
    ActualIsGeneration
    EndedDaysHaveFeeds
PROPERTIES
    RunFinishes
CHECK_DEADLOCK FALSE
