\* Two nodes, each may crash or stop and restart once, and Consul may
\* invalidate sessions: split brain between running nodes is resolved, and a
\* lock left to a dead or replaced session is freed.
CONSTANTS
    Node = {n1, n2}
    MaxSessions = 2
    MaxRestarts = 1
    SlowKeepalive = FALSE
SPECIFICATION Spec
INVARIANT TypeOK
PROPERTY SplitBrainResolves
PROPERTY OrphanedLockFreed
\* Every process may exit for good (restarts are bounded and operator-driven).
CHECK_DEADLOCK FALSE
