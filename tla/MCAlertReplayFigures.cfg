SPECIFICATION Spec
CONSTANTS
    Inverters = {i1}
    AlertTypes = {gap}
    Healthy = healthy
    Losses = {1, 2}
    Times <- MCTimes
    Sustain = 2
    Lag = 1
    DayLength = 4
    Null = null
    MaxBatches = 3
    MaxCrashes = 1
PROPERTY ReplayKeepsFigures
