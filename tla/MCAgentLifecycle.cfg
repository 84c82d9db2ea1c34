SPECIFICATION FairSpec
CONSTANTS
    Workers = {w1, w2}
    Startups = 2
    Shutdowns = 2
    MaxQueue = 2
    MaxCancels = 4
    MaxRuns = 2
INVARIANTS LeftMeansDown HooksUnwind
PROPERTIES TeardownEnds
CHECK_DEADLOCK FALSE
