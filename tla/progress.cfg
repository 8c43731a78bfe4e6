SPECIFICATION ProgressSpec
CHECK_DEADLOCK FALSE
CONSTANTS
    Users = {u1}
    Events = {e1}
    CappedEvents = {}
    Channels <- AllChannels
    Installs = {i1}
    Tokens = {t1}
    Workers = {w1}
    MaxEmailAttempts = 2
    MaxPushAttempts = 2
    DailyCap = 1
    MaxNotify = 1
    MaxCrashes = 0
    Occupancies = {o1}
    Submissions = {x1, x2, x3}
    NoPhoto = NoPhoto
    MaxRevocations = 0
    MaxGateFaults = 0
    Posts = {q1, q2}
    Refs = {g1, g2}
    ReportContents = {c1}
    PrivateContents = {}
    Photos = {s1}
    Uploads = {}
    TriageWorkers = {tw1, tw2}
    CandidateLimit = 1
    AllowCrash = TRUE
    Requests = {1, 2}
    Submitters = {a1}
    Numbers = {n1, n2}
    Emails = {m1}
    Spellings = {"lower"}
    Managers <- TwoManagers
    ManagerOf <- OwnAndOther
    Units = {h1}
    BuildingOf <- FlatBuilding
    TTL = 1
    BatchLimit = 1
    MaxDay = 3
    Nothing = Nothing
    Replicas = {d1}
    Modes = {"loop", "capped"}
    Cases = {}
    Deadline <- OneDay
    Horizon = 1
    ScanLimit = 2
    OnceLimit = 1
    QueueLimit = 1
    Breakable = {"triage", "blockchain_outbox"}
    MaxArrivals = 2
    MaxTime = 0
    MaxWorkerFaults = 2
    Entries = {1, 2, 3}
    Docs = {1}
    EntryEvents = {"settlement"}
    Anchoring = "disabled"
    Broken = {1}
    VerifyLimit = 2
    MaxObs = 3
    MaxChanges = 0
    MaxKeys = 1
    MaxVisits = 0
    MaxDemoFaults = 2
    Careful = TRUE
    u1 = u1
    e1 = e1
    i1 = i1
    t1 = t1
    w1 = w1
    o1 = o1
    x1 = x1
    x2 = x2
    x3 = x3
    q1 = q1
    q2 = q2
    g1 = g1
    g2 = g2
    c1 = c1
    s1 = s1
    tw1 = tw1
    tw2 = tw2
    a1 = a1
    n1 = n1
    n2 = n2
    m1 = m1
    h1 = h1
    d1 = d1
PROPERTIES
    EveryDeliveryEnds
    PhotosEnd
    EveryReportReviewed
    EveryRequestEnds
    OperationsGoOn
