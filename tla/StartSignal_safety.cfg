\* Pods of one name and of two volumes, one after the other on one node, under fairness.
CONSTANTS
    n1 = n1
    v1 = v1
    v2 = v2
    Nodes = {n1}
    Volumes = {v1, v2}
    Required = {v1, v2}
    MaxPods = 2
    NodeOf <- Staying
    Watched = {1, 2}
    ForcedDeletion = FALSE
    MaxUpdates = 1
    MaxFaults = 1
SPECIFICATION FairSpec
PROPERTIES PodIsSignalled SyncsSettle
INVARIANTS
    SignalledIsMounted
    AnnotatedForItself
    UnannotatedPodIsQueued
    UnsignalledPodIsQueued
CHECK_DEADLOCK FALSE
