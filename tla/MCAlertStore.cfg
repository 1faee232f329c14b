SPECIFICATION Spec
CONSTANTS
    Inverters = {i1}
    AlertTypes = {gap, under}
    Healthy = healthy
    Losses = {1}
    Times <- MCTimes
    Sustain = 2
    Lag = 1
    DayLength = 4
    Null = null
    MaxBatches = 6
    MaxCrashes = 1
INVARIANTS
    TypeOK
    AlertsMatchConditions
    NoStaleAlert
    NeverRejected
    OneFaultPerInverter
    IncidentsAreSustained
    IncidentsInOrder
    ImpactIsCurrent
PROPERTIES
    HistoryIsKept
    ReplayKeepsLifecycle
    ImplementsBook
