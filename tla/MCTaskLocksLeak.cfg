SPECIFICATION Spec
CONSTANTS
    s1 = s1
    s2 = s2
    cap = cap
    free = free
    Tasks = {s1, s2, cap, free}
    Locks = {1, 2, 3}
    SerialLocks = {1}
    Needs <- MCNeeds
    Capturing = {cap}
    NoTask = NoTask
INVARIANT FailingReleaseLeavesNoKey
CHECK_DEADLOCK FALSE
