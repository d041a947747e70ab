\* A proxy's name is used again while its backend is being released.
CONSTANTS
    p1 = p1
    p2 = p2
    b1 = b1
    None = None
    Claims = {p1, p2, b1}
    Requests <- ContendingRequests
    Reusable = {p1}
    MaxOps = 5
    MaxFaults = 0
SPECIFICATION Spec
INVARIANT
    NoSharedBackend
CHECK_DEADLOCK FALSE
