\* A backend PersistentVolume with a name of its own, as dynamic provisioning gives it.
CONSTANTS
    n1 = n1
    n2 = n2
    p1 = p1
    p2 = p2
    Nodes = {n1, n2}
    Pods = {p1, p2}
    NodeOf <- OneNodeEach
    AccessModes = {"ReadWriteOnce"}
    AttachRequired = TRUE
    NamedByHandle = FALSE
    KnownAtStart <- AllKnown
    MaxUid = 2
    MaxPods = 2
    MaxFaults = 0
    MaxLag = 2
SPECIFICATION Spec
INVARIANT AttachedToOneNode
CHECK_DEADLOCK FALSE
