\* One group, drivers of changing versions, target paths set up again, a call or a change of a file that fails, under fairness.
CONSTANTS
    root = root
    data = data
    old = old
    new = new
    g1 = g1
    none = none
    own = own
    Root = root
    Dirs = {root, data}
    Files <- AllFiles
    Parent <- ParentOf
    Above <- AboveOf
    OldFiles = {root, data, old}
    Groups = {g1}
    NoGroup = none
    OwnGroup = own
    VolumeKinds <- Kinds
    Capabilities <- AnyDriver
    ContainersWait = TRUE
    MaxPods = 2
    MaxReplacements = 1
    MaxFaults = 1
SPECIFICATION FairSpec
PROPERTIES PodGetsVolume
INVARIANTS
    OwnedByGroup
    RootSpeaksForAll
CHECK_DEADLOCK FALSE
