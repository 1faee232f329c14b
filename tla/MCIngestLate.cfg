SPECIFICATION Spec
CONSTANTS
    Partitions = {p1, p2}
    Times <- MCTimes
    Bad = bad
    Queries = {"metrics", "archive"}
    Delay = 1
    MaxRecords = 2
    MaxRuns = 0
    MaxFailures = 0
SYMMETRY MCSymmetry
INVARIANT LateIsArchived
