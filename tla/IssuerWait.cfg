SPECIFICATION FairSpec
CONSTANTS
    Issuers = {a, b}
    NoIssuer = NoIssuer
    Absent = Absent
    Invalid = Invalid
    DefaultIssuerEnabled = FALSE
    IssuerRefFields <- CompleteRef
    StaticIssuer = a
    HasRuntimeConfiguration = TRUE
    IstiodCertEnabled = FALSE
    Clients = {c1}
    Provider = Provider
    MayCancelAfter = {}
    MaxRetries = 1
    MaxEdits = 1
    MaxDrops = 0
PROPERTY WaitEndsWithConfig
CHECK_DEADLOCK FALSE
