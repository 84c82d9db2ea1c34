SPECIFICATION FairSpec
CONSTANTS
    t1 = t1
    t2 = t2
    lost = lost
    old = old
    serial = serial
    missing = missing
    Reading = Reading
    Dead = Dead
    Tasks = {t1, t2, lost}
    Foreign = {old}
    Stubborn = {t2}
    InterfaceOf <- MCInterfaceOf
    Buildable = {serial}
    Serial = {serial}
    MaxMessages = 4
    MaxInbox = 2
INVARIANTS
    CancelledMeansStopped
    CancellationIsAwaited
    FirstEndIsTrue
    PausedCanResume
PROPERTIES
    CancelTakesEffect
CHECK_DEADLOCK FALSE
