SPECIFICATION OperationsSpec
CHECK_DEADLOCK FALSE
CONSTANTS
    Replicas = {w1, w2}
    Modes = {"loop", "once"}
    Cases = {1, 2}
    Deadline <- TwoDays
    Horizon = 1
    ScanLimit = 2
    OnceLimit = 2
    QueueLimit = 1
    Breakable = {"deadline_risk", "stale_devices"}
    MaxArrivals = 0
    MaxTime = 4
    MaxWorkerFaults = 1
    MaxKeys = 2
    MaxVisits = 2
    MaxDemoFaults = 3
    Careful = TRUE
    Uploads = {u1, u2, u3}
    Readers = {r1}
    NoDocument = NoDocument
    MaxStoreFaults = 1
    Entries = {1}
    Docs = {1, 2}
    EntryEvents <- TwoOutboxEvents
    Anchoring = "besu"
    Broken = {}
    VerifyLimit = 1
    MaxObs = 2
    MaxChanges = 3
    w1 = w1
    w2 = w2
    u1 = u1
    u2 = u2
    u3 = u3
    r1 = r1
INVARIANTS
    WorkerHolds
    DemoHolds
    StoreHolds
    
