-------------------------- MODULE ExclusiveBinding --------------------------
(***************************************************************************)
(* What the three PersistentVolumeClaim controllers promise together:      *)
(* every backend has at most one holder at a time, a proxy is bound only   *)
(* to a backend it holds and to which no other is bound, and a holder      *)
(* loses its backend only by going away.  There is no cache, no queue, no  *)
(* version and no failure here, and a step is one change of the API.       *)
(***************************************************************************)
CONSTANTS Claims, None

VARIABLES
    created,    \* names given to a claim so far
    alive,      \* those whose claim exists
    request,    \* the backend a claim asks for
    holder,     \* the proxy that holds a backend
    bound       \* proxies whose binding is completed

avars == <<created, alive, request, holder, bound>>

Init ==
    /\ created = {}
    /\ alive = {}
    /\ request = [c \in Claims |-> None]
    /\ holder = [c \in Claims |-> None]
    /\ bound = {}

Create(c, ref) ==
    /\ c \notin created
    /\ created' = created \cup {c}
    /\ alive' = alive \cup {c}
    /\ request' = [request EXCEPT ![c] = ref]
    /\ UNCHANGED <<holder, bound>>

\* Also on behalf of a proxy that has just gone: it is released again.
Claim(p, b) ==
    /\ p \in created
    /\ b \in alive /\ holder[b] = None
    /\ holder' = [holder EXCEPT ![b] = p]
    /\ UNCHANGED <<created, alive, request, bound>>

Complete(p) ==
    /\ p \in alive \ bound
    /\ request[p] \in alive => holder[request[p]] = p
    /\ \A q \in bound : request[q] # request[p]
    /\ bound' = bound \cup {p}
    /\ UNCHANGED <<created, alive, request, holder>>

Release(b) ==
    /\ holder[b] \in created \ alive
    /\ holder' = [holder EXCEPT ![b] = None]
    /\ UNCHANGED <<created, alive, request, bound>>

Vanish(c) ==
    /\ c \in alive
    /\ alive' = alive \ {c}
    /\ request' = [request EXCEPT ![c] = None]
    /\ holder' = [holder EXCEPT ![c] = None]
    /\ bound' = bound \ {c}
    /\ UNCHANGED created

Next ==
    \E c \in Claims :
        \/ \E ref \in Claims \cup {None} : Create(c, ref)
        \/ \E b \in Claims : Claim(c, b)
        \/ Complete(c)
        \/ Release(c)
        \/ Vanish(c)

Spec == Init /\ [][Next]_avars
=============================================================================
