SPECIFICATION ResidentsSpec
CHECK_DEADLOCK FALSE
CONSTANTS
    Posts <- TwoPosts
    Refs <- TwoRefs
    ReportContents <- TwoContents
    PrivateContents <- OnePrivate
    Photos <- OnePhoto
    Uploads <- TwoUploads
    TriageWorkers <- OneTriageWorker
    CandidateLimit = 1
    AllowCrash = TRUE
    Users <- OneUser
    Events <- TwoEvents
    CappedEvents <- TwoEvents
    Channels <- MailAndPush
    Installs <- TwoInstalls
    Tokens <- TwoTokens
    Workers <- TwoWorkers
    MaxEmailAttempts = 2
    MaxPushAttempts = 2
    DailyCap = 1
    MaxNotify = 2
    MaxCrashes = 2
    Announcements <- OneAnnouncement
    Bills <- OneBill
    Residents <- TwoResidents
    Managers <- TwoManagers
    Contents <- TwoContents
    References <- TwoReferences
    MaxRevision = 3
    q1 = q1
    q2 = q2
    f1 = f1
    f2 = f2
    c1 = c1
    c2 = c2
    s1 = s1
    up1 = up1
    up2 = up2
    tw1 = tw1
    u1 = u1
    e1 = e1
    e2 = e2
    i1 = i1
    i2 = i2
    t1 = t1
    t2 = t2
    w1 = w1
    w2 = w2
    a1 = a1
    b1 = b1
    r1 = r1
    r2 = r2
    m1 = m1
    m2 = m2
    g1 = g1
    g2 = g2
INVARIANTS
    IntakeConsistent
    DeliveriesAreTrue
    CapRespected
    NoticesMatch
PROPERTIES
    TriageNeverOverrides
    NoStaleWrite
