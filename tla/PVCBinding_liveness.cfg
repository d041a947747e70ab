\* Two proxies contend for one backend and one follows the other, without failures, or one proxy and one failure; under fairness.
CONSTANTS
    p1 = p1
    p2 = p2
    b1 = b1
    None = None
    Claims = {p1, p2, b1}
    Requests <- ContendingRequests
    Reusable = {}
    MaxOps = 4
    MaxFaults = 1
SPECIFICATION FairSpec
CONSTRAINT FailureOfOnePair
PROPERTY
    BindingCompletes
    OrphanReleased
    ProtectionSettles
CHECK_DEADLOCK FALSE
