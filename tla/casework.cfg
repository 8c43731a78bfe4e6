SPECIFICATION FairSpec
CONSTANTS
    Reports <- TwoReports
    PrivateReports <- OnePrivate
    AllowRevision = TRUE
    AllowGrouping = TRUE
    r1 = r1
    r2 = r2
INVARIANTS
    ProposalFollowsWork
    OneActiveCase
    FinishedMeansDone
PROPERTIES
    DecisionsBind
    CompletedCasesClose
