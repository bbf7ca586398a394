SPECIFICATION FairSpec
CONSTANTS
    Nodes = {1, 2}
    MaxDials = 2
    MaxUpsets = 1
INVARIANTS
    ReportsPaired
    CrossedDialsLink
    RenewalReachesLinks
PROPERTIES
    LinksSettle
CHECK_DEADLOCK FALSE
