\* One pod, of a volume whose driver stages or of one whose driver does not; calls fail, the process and the kubelet restart, under fairness.
CONSTANTS
    x1 = x1
    x2 = x2
    v1 = v1
    v2 = v2
    Pods = {x1, x2}
    Volumes = {v1, v2}
    VolumeOf <- OwnVolume
    StagingDrivers = {v1}
    MaxFaults = 3
SPECIFICATION FairSpec
CONSTRAINT OnePod
PROPERTIES PodGetsItsVolume TeardownCompletes ImplementsPodMounts
INVARIANTS
    MountedIsRecorded
    AcknowledgedIsRecorded
    NothingLeftBehind
    AnnotatedIsMounted
    WaitingPodIsQueued
CHECK_DEADLOCK FALSE
