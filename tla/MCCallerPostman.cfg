SPECIFICATION FairSpec
CONSTANTS
    c1 = c1
    c2 = c2
    Calls = {c1, c2}
    Escalating = {c2}
    Reading = Reading
    Outcomes = {"completed", "cancelled"}
    MaxYields <- MCMaxYields
    MaxLost = 1
INVARIANTS
    TypeOK
    NothingLeft
PROPERTIES
    ImplementsDelegation
    LoopIsFreed
    EndIsHeard
CHECK_DEADLOCK FALSE
