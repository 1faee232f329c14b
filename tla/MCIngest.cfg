SPECIFICATION FairSpec
CONSTANTS
    Partitions = {p1}
    Times <- MCTimes
    Bad = bad
    Queries = {"archive", "quarantine"}
    Delay = 1
    MaxRecords = 3
    MaxRuns = 1
    MaxFailures = 2
INVARIANTS
    ArchivedOnce
    OnlyLateIsLost
    QuarantineIsComplete
PROPERTIES
    FailureSurfaces
    CatchesUp
