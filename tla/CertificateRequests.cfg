SPECIFICATION FairSpec
CONSTANTS
    PreserveCertificateRequests = FALSE
    MayFail = TRUE
    MaxEvents = 3
INVARIANTS TypeOK OkMeansIssued LeaksExplained
PROPERTY EndsWhenDecided
CHECK_DEADLOCK FALSE
