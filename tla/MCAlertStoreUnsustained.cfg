SPECIFICATION Spec
CONSTANTS
    Inverters = {i1, i2}
    AlertTypes = {gap}
    Healthy = healthy
    Losses = {1}
    Times <- MCTimes
    Sustain = 0
    Lag = 1
    DayLength = 4
    Null = null
    MaxBatches = 3
    MaxCrashes = 1
PROPERTIES
    RejectionIsFinal
