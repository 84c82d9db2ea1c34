SPECIFICATION FairSpec
CONSTANTS
    yield1 = yield1
    completed1 = completed1
    cancelled1 = cancelled1
    still1 = still1
    critical1 = critical1
    critical2 = critical2
    task1 = task1
    task2 = task2
    RegisterMsg = RegisterMsg
    NoReport = NoReport
    MaxDrops = 2
    MaxAsks = 1
    Reports <- MCReports
    Terminals <- MCTerminals
    Answers <- MCAnswers
    Untracking = {cancelled1}
    TaskOf <- MCTaskOf
    Managed = {task1}
    Inquiries <- MCInquiries
INVARIANTS
    TypeOK
    RetainedUntilDurable
PROPERTIES
    NothingAfterTheEnd
    ImplementsLedger
    EventuallyDurable
    EventuallyForgotten
CHECK_DEADLOCK FALSE
