\* A client that sends SET_PRO twice and disconnects leaves a closed node
\* in a weighted group; the next SendAll pushes onto its closed channel.
CONSTANTS
    Conn = {c1, c2}
    Group = {"bcast", "wgt"}
    GroupMode <- MCGroupMode
    Table = {"t1", "t2"}
    GroupMatches <- MCGroupMatches
    UnknownGroup = "nosuch"
    MaxEvents = 2
    MaxFrames = 2
    Weights = {40}
    QueueCap = 1
    ClientsRejoin = TRUE
SPECIFICATION Spec
INVARIANT NoPanic
CHECK_DEADLOCK FALSE
