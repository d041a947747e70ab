--------------------------- MODULE MCPVCBinding ---------------------------
(***************************************************************************)
(* Instances of PVCBinding for TLC.                                        *)
(***************************************************************************)
EXTENDS PVCBinding, TLC

CONSTANTS p1, p2, b1

\* Two proxies that ask for the same backend.
ContendingRequests == {<<p1, b1>>, <<p2, b1>>, <<b1, None>>}

\* A failure meets one proxy and its backend; two proxies meet no failure.
FailureOfOnePair == faults = 0 \/ store[p2].rv = 0

ProxySymmetry == Permutations({p1, p2})
=============================================================================
