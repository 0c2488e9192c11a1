\* No crash needed: Consul invalidates the leader's session, which deletes
\* its lock key; h.status still says leader and is never rechecked, and
\* another node acquires the free lock.
CONSTANTS
    Node = {n1, n2}
    MaxSessions = 2
    MaxRestarts = 1
    SlowKeepalive = FALSE
SPECIFICATION Spec
INVARIANT AtMostOneLeader
\* Every process may exit for good (restarts are bounded and operator-driven).
CHECK_DEADLOCK FALSE
