\* Two clients join a weighted group with equal raw weights.
CONSTANTS
    Conn = {c1, c2}
    Group = {"bcast", "wgt"}
    GroupMode <- MCGroupMode
    Table = {"t1", "t2"}
    GroupMatches <- MCGroupMatches
    UnknownGroup = "nosuch"
    MaxEvents = 2
    MaxFrames = 2
    Weights = {40}
    QueueCap = 1
    ClientsRejoin = FALSE
SPECIFICATION Spec
INVARIANT WeightsFollowRaw
CHECK_DEADLOCK FALSE
