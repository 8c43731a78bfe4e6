SPECIFICATION PagesSpec
CHECK_DEADLOCK FALSE
CONSTANTS
    Reports <- TwoReports
    PrivateReports <- NonePrivate
    AllowRevision = FALSE
    AllowGrouping = FALSE
    r1 = r1
    r2 = r2
INVARIANTS
    WorkInProgressIsReal
    QueuesHold
