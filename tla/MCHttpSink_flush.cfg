\* The process shuts down while OnRow still hands events to SendAll.
CONSTANTS
    Node = {n1, n2}
    Worker = {w1, w2}
    QueueCap = 1
    MaxEvents = 3
    Shutdown = TRUE
    Reloadable = FALSE
SPECIFICATION Spec

PROPERTY CloseFlushes
\* The process stops: senders return after the shutdown and OnRow's events
\* are bounded.
CHECK_DEADLOCK FALSE
