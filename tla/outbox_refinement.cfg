SPECIFICATION Spec
CONSTANTS
    EventIds <- TwoEvents
    Identities <- OneIdentity
    Workers <- TwoWorkers
    AllowOverrun = FALSE
    AllowRestore = FALSE
    NoIdentity = NoIdentity
    NoWorker = NoWorker
    e1 = e1
    e2 = e2
    i1 = i1
    i2 = i2
    w1 = w1
    w2 = w2
CHECK_DEADLOCK FALSE
INVARIANT LeaseExcludes
INVARIANT NoFalseAlarm
PROPERTY AnchoringSpec
