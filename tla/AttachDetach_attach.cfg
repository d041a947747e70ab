\* An exclusive volume changes hands between two nodes; the informers learn of everything in any order, and one call fails or the process restarts, under fairness.
CONSTANTS
    n1 = n1
    n2 = n2
    p1 = p1
    p2 = p2
    Nodes = {n1, n2}
    Pods = {p1, p2}
    NodeOf <- OneNodeEach
    AccessModes = {"ReadWriteOnce"}
    AttachRequired = TRUE
    NamedByHandle = TRUE
    KnownAtStart = {}
    MaxUid = 2
    MaxPods = 2
    MaxFaults = 1
    MaxLag = 2
SPECIFICATION FairSpec
INVARIANTS ExclusivelyAttached UnservedPodIsQueued
PROPERTIES
    PodGetsItsAttachment
    AttachmentFollowsProxy
    ImplementsExclusiveAttachment
CHECK_DEADLOCK FALSE
