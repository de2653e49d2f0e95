SPECIFICATION FairIstiodSpec
CONSTANTS
    Issuers = {a, b}
    NoIssuer = NoIssuer
    Absent = Absent
    Invalid = Invalid
    DefaultIssuerEnabled = FALSE
    IssuerRefFields <- CompleteRef
    StaticIssuer = a
    HasRuntimeConfiguration = TRUE
    IstiodCertEnabled = TRUE
    Clients = {}
    Provider = Provider
    MayCancelAfter = {0}
    MaxRetries = 1
    MaxEdits = 1
    MaxDrops = 0
    NoCertificate = NoCertificate
    MaxTouches = 1
INVARIANTS ProvisionerTypeOK CertificateReconciled IstiodCertAddressed
PROPERTIES CertificateConverges IssuerEventuallyApplied
CHECK_DEADLOCK FALSE
