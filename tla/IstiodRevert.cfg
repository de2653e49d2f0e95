SPECIFICATION IstiodSpec
CONSTANTS
    Issuers = {a, b}
    NoIssuer = NoIssuer
    Absent = Absent
    Invalid = Invalid
    DefaultIssuerEnabled = TRUE
    IssuerRefFields <- CompleteRef
    StaticIssuer = a
    HasRuntimeConfiguration = TRUE
    IstiodCertEnabled = TRUE
    Clients = {}
    Provider = Provider
    MayCancelAfter = {}
    MaxRetries = 1
    MaxEdits = 2
    MaxDrops = 0
    NoCertificate = NoCertificate
    MaxTouches = 0
INVARIANT CertificateReconciled
CHECK_DEADLOCK FALSE
