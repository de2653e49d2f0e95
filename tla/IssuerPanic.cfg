SPECIFICATION Spec
CONSTANTS
    Issuers = {a, b}
    NoIssuer = NoIssuer
    Absent = Absent
    Invalid = Invalid
    DefaultIssuerEnabled = FALSE
    IssuerRefFields <- CompleteRef
    StaticIssuer = a
    HasRuntimeConfiguration = TRUE
    IstiodCertEnabled = FALSE
    Clients = {c1}
    Provider = Provider
    MayCancelAfter = {}
    MaxRetries = 2
    MaxEdits = 2
    MaxDrops = 0
INVARIANT NoPanic
CHECK_DEADLOCK FALSE
