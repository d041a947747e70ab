\* Two proxies contend for one backend, with two lost calls, resyncs or restarts.
CONSTANTS
    p1 = p1
    p2 = p2
    b1 = b1
    None = None
    Claims = {p1, p2, b1}
    Requests <- ContendingRequests
    Reusable = {}
    MaxOps = 4
    MaxFaults = 2
SPECIFICATION Spec
SYMMETRY ProxySymmetry
INVARIANTS
    BoundProxyHoldsBackend
    NoSharedBackend
    BindingInvariant
    WaitingProxyIsQueued
    UnsettledBackendIsQueued
    OrphanIsQueued
PROPERTIES
    ClaimNotStolen
    FinalizerGuardsClaim
    ImplementsExclusiveBinding
CHECK_DEADLOCK FALSE
