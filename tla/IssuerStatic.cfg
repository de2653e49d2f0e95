SPECIFICATION IstiodSpec
CONSTANTS
    Issuers = {a, b}
    NoIssuer = NoIssuer
    Absent = Absent
    Invalid = Invalid
    DefaultIssuerEnabled = TRUE
    IssuerRefFields <- CompleteRef
    StaticIssuer = a
    HasRuntimeConfiguration = TRUE
    IstiodCertEnabled = TRUE
    Clients = {c1}
    Provider = Provider
    MayCancelAfter = {0, 1}
    MaxRetries = 1
    MaxEdits = 1
    MaxDrops = 1
    NoCertificate = NoCertificate
    MaxTouches = 0
INVARIANTS TypeOK SignersUseActiveIssuer AppliedWhenCaughtUp NoPanic LatestHeard
PROPERTY ImplementsActiveIssuer
CHECK_DEADLOCK FALSE
