SPECIFICATION Spec
CONSTANTS
    i1 = i1
    i2 = i2
    p1 = p1
    p2 = p2
    Inverters = {i1, i2}
    Plants = {p1, p2}
    PlantOf <- MCOnePlant
    Rating <- MCRating
    Readings <- MCReadings
    Reference = 1
    Minimum = 1
    Threshold = 80
    Times <- MCTimes
    Sustain = 0
    Silent = silent
    Null = null
    MaxEvents = 3
    MaxBatches = 3
    MaxFaults = 1
INVARIANTS
    LiveAgreesWithAlerts
    PowerIsInstantaneous
    HealthCoversRows
PROPERTIES
    ReplayIsIdentical
