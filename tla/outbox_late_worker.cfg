SPECIFICATION Spec
CONSTANTS
    EventIds <- OneEvent
    Identities <- OneIdentity
    Workers <- TwoWorkers
    AllowOverrun = TRUE
    AllowRestore = FALSE
    NoIdentity = NoIdentity
    NoWorker = NoWorker
    e1 = e1
    e2 = e2
    i1 = i1
    i2 = i2
    w1 = w1
    w2 = w2
CHECK_DEADLOCK FALSE
PROPERTY SettledIsFinal
