CONSTANTS
    Classes <- MCClasses
    Functions <- MCFunctions
    App = "lab"
    MaxRegistered = 2
    MaxDeclared = 1
    MaxCalls = 3
SPECIFICATION Spec
INVARIANTS
    ArgumentsArrive
    ReturnsArrive
    RefusalsAreKnown
    SlotsAreAlike
CHECK_DEADLOCK FALSE
