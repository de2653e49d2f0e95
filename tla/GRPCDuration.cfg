SPECIFICATION Spec
CONSTANTS
    proxy = proxy
    app = app
    PodNames = {proxy, app}
    n1 = n1
    n2 = n2
    Nodes = {n1, n2}
    ServiceAccounts = {1, 2}
    Account <- SampleAccount
    NoPod = NoPod
    NoNode = NoNode
    CATrustedNodeAccounts = {1}
    Malformed = Malformed
    PodAccounts <- SamplePodAccounts
    InitialPods <- SampleInitialPods
    MaxChanges = 0
    Clients = {c1}
    Requests <- SampleRequests
    CSRs <- SampleCSRs
    Validities <- OverflowingValidities
    NoRequest = NoRequest
    NoCSR = NoCSR
    EnableClientCert = TRUE
    CAs = {x, y}
    NoCA = NoCA
    maxDuration = 127
    Second = 10
    MaximumClientCertificateDuration = 60
    InitialCA = x
INVARIANT DurationOverridden
CHECK_DEADLOCK FALSE
