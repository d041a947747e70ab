\* The unstage call as the backend driver gets it.
CONSTANTS
    x1 = x1
    x2 = x2
    v1 = v1
    v2 = v2
    Pods = {x1}
    Volumes = {v1}
    VolumeOf <- OneVolume
    StagingDrivers = {v1}
    MaxFaults = 0
SPECIFICATION Spec
INVARIANT UnstageIsProxied
CHECK_DEADLOCK FALSE
