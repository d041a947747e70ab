\* A pod comes back to its node while the backend is still attached there.
CONSTANTS
    n1 = n1
    n2 = n2
    p1 = p1
    p2 = p2
    Nodes = {n1}
    Pods = {p1}
    NodeOf <- OneNodeEach
    AccessModes = {"ReadWriteOnce"}
    AttachRequired = TRUE
    NamedByHandle = TRUE
    KnownAtStart <- AllKnown
    MaxUid = 2
    MaxPods = 2
    MaxFaults = 0
    MaxLag = 2
SPECIFICATION FairSpec
PROPERTY UnpublishIsProxied
CHECK_DEADLOCK FALSE
