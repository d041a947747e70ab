\* Two pods share a volume that is attached; one failure.
CONSTANTS
    x1 = x1
    x2 = x2
    v1 = v1
    v2 = v2
    Pods = {x1, x2}
    Volumes = {v1}
    VolumeOf <- OneVolume
    StagingDrivers = {v1}
    MaxFaults = 1
SPECIFICATION AttachedSpec
SYMMETRY PodSymmetry
INVARIANTS
    MountedIsRecorded
    NothingLeftBehind
CHECK_DEADLOCK FALSE
