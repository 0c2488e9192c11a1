\* SendAll reaches a subscriber whose send_queue is full.
CONSTANTS
    Conn = {c1, c2}
    Group = {"bcast", "wgt"}
    GroupMode <- MCGroupMode
    Table = {"t1", "t2"}
    GroupMatches <- MCGroupMatches
    UnknownGroup = "nosuch"
    MaxEvents = 2
    MaxFrames = 2
    Weights = {40}
    QueueCap = 1
    ClientsRejoin = FALSE
SPECIFICATION Spec
INVARIANT NeverWaitsOnFullQueue
CHECK_DEADLOCK FALSE
