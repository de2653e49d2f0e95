SPECIFICATION FairSpec
CONSTANTS
    Issuers = {a, b}
    NoIssuer = NoIssuer
    Absent = Absent
    Invalid = Invalid
    DefaultIssuerEnabled = TRUE
    IssuerRefFields <- CompleteRef
    StaticIssuer = a
    HasRuntimeConfiguration = TRUE
    IstiodCertEnabled = FALSE
    Clients = {c1}
    Provider = Provider
    MayCancelAfter = {0}
    MaxRetries = 1
    MaxEdits = 1
    MaxDrops = 0
PROPERTY WatcherStopsOnCancel
CHECK_DEADLOCK FALSE
