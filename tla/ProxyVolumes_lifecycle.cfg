\* Every claim, provisioned or static, on two nodes.
CONSTANTS
    Nodes = {n1, n2}
    Modes = {"ReadWriteOnce", "ReadOnlyMany", "ReadWriteMany", "ReadWriteOncePod"}
    FilesystemTypes = {"", "ext4"}
    None = None
    PodInfoOnMount = TRUE
SPECIFICATION Spec
SYMMETRY NodeSymmetry
INVARIANTS
    OneNode
    CreatedIsPublishable
CHECK_DEADLOCK FALSE
