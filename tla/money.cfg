SPECIFICATION MoneySpec
CHECK_DEADLOCK FALSE
CONSTANTS
    Proposals <- TwoProposals
    Standalone <- OneStandalone
    Amounts <- TwoAmounts
    Documents <- OneDocument
    MaxVersions = 2
    p1 = p1
    p2 = p2
    d1 = d1
    lift = lift
    hall = hall
    t1 = t1
    t2 = t2
    None = None
    Tabs <- TwoTabs
    Cases <- TwoCases
    Category <- BothLifts
    Reference <- ElevatorBand
    Answers <- SomeAnswers
    TypedAmounts <- TypedValues
    MaxPredictions = 2
    MaxComparedVersions = 2
    FlowAmounts <- FlowValues
    DaysPerMonth = 3
    RecentDays = 3
    MonthRanges <- TwoRanges
    Start = 9
    MaxMoment = 16
    MaxRows = 3
INVARIANTS
    PaidWasDecided
    OutflowsAreSettlements
    BalanceMatchesLedger
    ComparisonsHold
    FundReportsAgree
