SPECIFICATION FairSpec
CONSTANTS
    c1 = c1
    c2 = c2
    Calls = {c1, c2}
    Escalating = {c2}
    Outcomes = {"completed"}
    MaxYields <- MCMaxYields
    MayFail = TRUE
INVARIANTS ConfirmedLeavesNothing
PROPERTIES ImplementsDelegation EndIsHeard
CHECK_DEADLOCK FALSE
