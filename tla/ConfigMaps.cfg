SPECIFICATION FairSpec
CONSTANTS
    Roots = {r1, r2}
    NoRoots = NoRoots
    Namespaces = {n1, n2}
    NoMap = NoMap
    OtherData = OtherData
    MaxConcurrentReconciles = 1
    MaxChanges = 2
    MaxFaults = 1
INVARIANTS TypeOK Distributed
PROPERTY DistributedInTheEnd
CHECK_DEADLOCK FALSE
