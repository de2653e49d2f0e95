SPECIFICATION FairSpec
CONSTANTS
    Roots = {r1, r2}
    NoRoots = NoRoots
    Bad = Bad
    Gone = Gone
    NoConfig = NoConfig
    MayCancel = TRUE
    maxDuration = 31
    Untils <- SampleUntils
    MaxRetries = 2
    MaxEdits = 3
    MaxFailures = 1
INVARIANTS TypeOK FileFollowed IssuerRootsServed ReadyHasRoots 
PROPERTIES RootsServedInTheEnd ImplementsFeed
CHECK_DEADLOCK FALSE
