\* Two nodes with two senders each, queues of one, three events; the
\* process may shut down and Reload may be called.
CONSTANTS
    Node = {n1, n2}
    Worker = {w1, w2}
    QueueCap = 1
    MaxEvents = 3
    Shutdown = TRUE
    Reloadable = TRUE
SPECIFICATION Spec
INVARIANT TypeOK
PROPERTY CloseReturns
PROPERTY EveryEventPosted
\* The process stops: senders return after the shutdown and OnRow's events
\* are bounded.
CHECK_DEADLOCK FALSE
