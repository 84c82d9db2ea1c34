SPECIFICATION FairSpec
CONSTANTS
    s1 = s1
    s2 = s2
    cap = cap
    free = free
    Tasks = {s1, s2, cap, free}
    Locks = {1, 2, 3}
    SerialLocks = {1}
    Needs <- MCNeeds
    Capturing = {cap}
    NoTask = NoTask
INVARIANTS
    TypeOK
    OrderedWaiting
    ReleasedOnExit
    RunningIsShown
PROPERTIES
    Exclusive
    NoneBeginsDuringCapture
    Served
CHECK_DEADLOCK FALSE
