\* Two senders per node and the synchronous post at a full queue.
CONSTANTS
    Node = {n1, n2}
    Worker = {w1, w2}
    QueueCap = 1
    MaxEvents = 3
    Shutdown = FALSE
    Reloadable = FALSE
SPECIFICATION Spec
INVARIANT PostsInOrder
\* The senders wait on their queues once all events are posted.
CHECK_DEADLOCK FALSE
