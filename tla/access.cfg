SPECIFICATION AccessesSpec
CHECK_DEADLOCK FALSE
CONSTANTS
    Occupancies <- OneOccupancy
    Submissions <- ThreeSubmissions
    NoPhoto = NoPhoto
    MaxRevocations = 1
    MaxGateFaults = 1
    Holders <- TwoHolders
    Plates <- OnePlate
    Texts <- ThreeTexts
    Norm <- TwoSpellings
    Unreadable = Unreadable
    Credentials <- ThreeCredentials
    Nobody = Nobody
    Grace = 2
    Retention = 1
    MaxGateTime = 5
    Requests <- ThreeRequests
    Submitters = {s1, s2}
    Numbers = {n1, n2}
    Emails = {e1}
    Spellings = {"lower", "mixed"}
    Managers <- TwoManagers
    ManagerOf <- OwnAndOther
    Units = {u1}
    BuildingOf <- FlatBuilding
    TTL = 1
    BatchLimit = 1
    MaxDay = 3
    Nothing = Nothing
    Attempts = {a1, a2}
    LoginKeys = {key1}
    AddressKeys = {ip1, ip2}
    PhoneKeys = {tel1}
    MaxFailures = 3
    Window = 2
    MaxThrottleTime = 5
    MaxCount = 8
    NoTime = NoTime
    Flats = {f1, f2}
    Logins = {l1, l2}
    Calls = {c1}
    Cap = 2
    MaxToken = 4
    MaxChange = 2
    NoFlat = NoFlat
    Tabs = {t1, t2}
    Buildings = {1, 2}
    MaxAge = 2
    MaxDays = 3
    MaxLogins = 2
    MaxWrites = 2
    MaxChanges = 1
    o1 = o1
    x1 = x1
    x2 = x2
    x3 = x3
    h1 = h1
    h2 = h2
    plate1 = plate1
    txt1 = txt1
    txt2 = txt2
    txt3 = txt3
    k1 = k1
    k2 = k2
    k3 = k3
    s1 = s1
    s2 = s2
    n1 = n1
    n2 = n2
    e1 = e1
    u1 = u1
    a1 = a1
    a2 = a2
    key1 = key1
    ip1 = ip1
    ip2 = ip2
    tel1 = tel1
    f1 = f1
    f2 = f2
    l1 = l1
    l2 = l2
    c1 = c1
    t1 = t1
    t2 = t2
INVARIANTS
    EnrolmentsHold
    PlateHeldOnce
    RegistrationsHold
    AttemptsAreBounded
    AccessHolds
    WorkspaceHolds
PROPERTIES
    RotationKeepsReader
