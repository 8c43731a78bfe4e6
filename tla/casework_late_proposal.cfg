SPECIFICATION Spec
CONSTANTS
    Reports <- TwoReports
    PrivateReports <- NonePrivate
    AllowRevision = FALSE
    AllowGrouping = FALSE
    r1 = r1
    r2 = r2
PROPERTY ProposalPrecedesWork
