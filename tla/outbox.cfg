SPECIFICATION FairSpec
CHECK_DEADLOCK FALSE
CONSTANTS
    EventIds <- OneEvent
    Identities <- TwoIdentities
    Workers <- TwoWorkers
    AllowOverrun = TRUE
    AllowRestore = TRUE
    NoIdentity = NoIdentity
    NoWorker = NoWorker
    e1 = e1
    e2 = e2
    i1 = i1
    i2 = i2
    w1 = w1
    w2 = w2
INVARIANTS
    VerdictsAreTrue
PROPERTIES
    RecordsWriteOnce
    EveryEventSettles
